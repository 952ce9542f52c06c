--------------------------- MODULE PramStoreProofs ---------------------------
(***************************************************************************)
(* Proofs about PramStore, for every number of words, values, files, tick, *)
(* pulse and settle length.                                                *)
(***************************************************************************)
EXTENDS PramStore, TLAPS

Fetching == {"P_LD_RD", "P_LD_DAT"}
Storing  == {"P_LD_ADDR", "P_LD_B0", "P_LD_B1"}
Filling  == {"P_FILL", "P_FILL2", "P_FILL3"}
Saving   == {"P_SV_WR", "P_SV_DAT"}
Fields   == Flags \cup Registers \cup {"pst"}

\* The parameter RAM as it is once the machine's write has landed, and a word of it.
landed(a) == IF loadAt(a) THEN fsm.load_data ELSE pram[a]
packed(w) == <<landed(2 * w), landed(2 * w + 1)>>

Shape == TypeOK /\ DOMAIN fsm = Fields

\* The machine and hps_io: who asks, whose window it is, and that its end is seen.
Handshake ==
  /\ fsm.rd => machine("P_LD_RD")
  /\ fsm.wr_req => machine("P_SV_WR")
  /\ hps.window = "read" => fsm.pst \in Fetching
  /\ hps.window = "write" => fsm.pst \in Saving
  /\ fsm.pst \in {"P_LD_DAT", "P_SV_DAT"} /\ hps.window = "closed" => fsm.old_pack
  /\ hps.strobe => hps.window = "read"
  /\ fsm.pst \in Filling \cup {"P_SV_DAT"} => ~fsm.load_wr

\* A reset pulse is long enough for the next clk8_en_p.
PulseCovers == fsm.force_reset /\ n_reset => tick = 0 \/ Tick - tick <= fsm.rst_hold

\* A load that comes to a running Mac knows that it is late.
LateIsKnown ==
  /\ n_reset => fsm.ready
  /\ quiet /\ live =>
       /\ fsm.pst \in Fetching \cup Storing => ~fsm.load_pending
       /\ fsm.load_pending \/ fsm.pst \in Fetching \cup Storing => fsm.late_load

\* A refused disk: nothing is pending for it.
Refused ==
  quiet /\ mounted \in Others =>
    /\ ~fsm.load_pending /\ ~fsm.flush_pending /\ ~fsm.ena
    /\ fsm.pst \in {"P_IDLE", "P_CLR", "P_RST"}

\* A load brings the mounted image to the staging buffer ...
fresh     == mounted \in Nvrs /\ ~fsm.load_pending
copied(n) == \A w \in Index : w < n => buf[w] = file[mounted][w]
Fetched ==
  fresh =>
    /\ hps.window = "read" => copied(IF hps.strobe THEN hps.at ELSE Words)
    /\ machine("P_LD_DAT") /\ hps.window = "closed" => copied(Words)
    /\ fsm.pst \in Storing => copied(Words)

\* ... and from there to the parameter RAM.
Stored ==
  fsm.pst \in Storing =>
    /\ fsm.pcnt % 2 = 0
    /\ fsm.pst \in {"P_LD_B0", "P_LD_B1"} => pbuf_q = buf[fsm.pcnt \div 2]
    /\ fresh /\ raced = "nothing" =>
         /\ \A w \in Index : w < fsm.pcnt \div 2 => packed(w) = file[mounted][w]
         /\ machine("P_LD_B1") => landed(fsm.pcnt) = file[mounted][fsm.pcnt \div 2][1]

\* A save packs the parameter RAM into the staging buffer ...
Filled ==
  fsm.pst \in Filling =>
    /\ ~fsm.rst_after
    /\ raced = "nothing" =>
         /\ \A w \in Index : w < fsm.pcnt \div 2 => buf[w] = packed(w)
         /\ fsm.pcnt % 2 = 1 => fill_lo = landed(fsm.pcnt - 1)
         /\ machine("P_FILL2") => fsm.save_addr = fsm.pcnt
         /\ machine("P_FILL3") => save_q = landed(fsm.pcnt)

\* ... an erasure clears both ...
Cleared ==
  /\ machine("P_CLR") =>
       \A a \in Addr : a < fsm.pcnt =>
         buf[a \div 2] = Zero /\ (raced = "nothing" => landed(a) = 0)
  /\ fsm.pst \in Saving /\ fsm.rst_after =>
       \A a \in Addr : buf[a \div 2] = Zero /\ (raced = "nothing" => landed(a) = 0)

\* ... and the window takes the buffer to the image.
written(n) == mounted # "none" => \A w \in Index : w < n => file[mounted][w] = buf[w]
Saved ==
  fsm.pst \in Saving =>
    /\ raced = "nothing" => \A w \in Index : buf[w] = packed(w)
    /\ hps.window = "write" => written(hps.at) /\ (hps.valid => pbuf_q = buf[hps.at])
    /\ machine("P_SV_DAT") /\ hps.window = "closed" => written(Words)

\* At rest an unmarked machine and its image agree.
Agree ==
  /\ fsm.pst \in {"P_IDLE", "P_RST"} /\ raced = "nothing"
  /\ fresh /\ fsm.ena /\ ~fsm.dirty
  => \A w \in Index : file[mounted][w] = packed(w)

--------------------------------------------------------------------------------
(* What one clock does to the machine's registers *)

\* The registers after the inputs of the clock, before the state's own assignments.
Taken(e, mount, osd, rf, backstop) ==
  /\ DOMAIN e = Fields
  /\ e.pst = fsm.pst /\ e.pcnt = fsm.pcnt /\ e.rd = fsm.rd /\ e.wr_req = fsm.wr_req
  /\ e.load_addr = fsm.load_addr /\ e.load_data = fsm.load_data /\ e.save_addr = fsm.save_addr
  /\ e.rst_after = fsm.rst_after /\ e.load_wr = FALSE /\ e.old_pack = pram_ack
  /\ e.dirty = (fsm.dirty \/ ser.we)
  /\ e.ena = (mount \in Nvrs \/ (fsm.ena /\ mount \notin Others))
  /\ e.load_pending = (fsm.load_pending \/ mount \in Nvrs)
  /\ e.late_load = IF mount \in Nvrs THEN fsm.ready ELSE fsm.late_load
  /\ e.ready = (fsm.ready \/ mount \in Others \/ backstop)
  /\ e.flush_pending = (fsm.flush_pending \/ (osd /\ fsm.dirty /\ fsm.ena))
  /\ e.clr_pending = (fsm.clr_pending \/ rf)
  /\ e.force_reset = (fsm.force_reset /\ fsm.rst_hold # 0)
  /\ e.rst_hold = IF fsm.force_reset /\ fsm.rst_hold # 0 THEN fsm.rst_hold - 1 ELSE fsm.rst_hold

LEMMA LatchedTaken ==
  ASSUME Shape, NEW mount, NEW osd \in BOOLEAN, NEW rf \in BOOLEAN, NEW backstop \in BOOLEAN
  PROVE  Taken(Latched(mount, osd, rf, backstop), mount, osd, rf, backstop)
BY DEF Shape, Fields, Flags, Registers, Latched, Taken, TypeOK, States

\* The part of the type invariant about the machine's registers.
Registered ==
  /\ DOMAIN fsm = Fields
  /\ fsm.pst \in States /\ \A f \in Flags : fsm[f] \in BOOLEAN
  /\ fsm.pcnt \in Addr /\ fsm.load_addr \in Addr /\ fsm.save_addr \in Addr
  /\ fsm.load_data \in Values /\ fsm.rst_hold \in 0 .. Hold

LEMMA Halves ==
  ASSUME NEW n \in Addr
  PROVE  /\ n \div 2 \in Index /\ 2 * (n \div 2) \in Addr /\ 2 * (n \div 2) + 1 \in Addr
         /\ n \div 2 # Words - 1 => n + 2 \in Addr
         /\ n = 2 * (n \div 2) \/ n = 2 * (n \div 2) + 1
BY PramAssumption DEF Addr, Index

LEMMA MachineTypes ==
  ASSUME Shape, NEW mount, NEW osd \in BOOLEAN, NEW rf \in BOOLEAN, NEW backstop \in BOOLEAN,
         Machine(Latched(mount, osd, rf, backstop))
  PROVE  Registered'
<1> DEFINE e == Latched(mount, osd, rf, backstop)
<1>1. Taken(e, mount, osd, rf, backstop)
  BY LatchedTaken
<1>2. /\ Machine(e)
      /\ e.pst \in States /\ \A f \in Flags : e[f] \in BOOLEAN
      /\ e.pcnt \in Addr /\ e.load_addr \in Addr /\ e.save_addr \in Addr
      /\ e.load_data \in Values /\ e.rst_hold \in 0 .. Hold
  <2>1. ser.we \in BOOLEAN /\ \A f \in Flags : fsm[f] \in BOOLEAN
    BY DEF Shape, TypeOK
  <2>2. \A f \in Flags : e[f] \in BOOLEAN
    BY <1>1, <2>1 DEF Taken, Flags, pram_ack
  <2>3. e.rst_hold \in 0 .. Hold
    <3>1. Hold \in Nat /\ fsm.rst_hold \in 0 .. Hold
      BY PramAssumption DEF Shape, TypeOK
    <3>2. e.rst_hold = IF fsm.force_reset /\ fsm.rst_hold # 0 THEN fsm.rst_hold - 1 ELSE fsm.rst_hold
      BY <1>1 DEF Taken
    <3> HIDE DEF e
    <3> QED
      BY <3>1, <3>2
  <2> QED
    BY <1>1, <2>2, <2>3 DEF Taken, Shape, TypeOK
<1>3. 0 \in Addr /\ 0 \in Values /\ Hold \in 0 .. Hold
  BY PramAssumption DEF Addr
<1>4. fsm.pcnt \in Addr /\ pbuf_q[1] \in Values /\ pbuf_q[2] \in Values
  BY DEF Shape, TypeOK
<1> HIDE DEF e
<1>5. CASE Idle(e)
  <2>1. fsm' \in {[e EXCEPT !.clr_pending = FALSE, !.pcnt = 0, !.pst = "P_CLR"],
                  [e EXCEPT !.load_pending = FALSE, !.rd = TRUE, !.pst = "P_LD_RD"],
                  [e EXCEPT !.flush_pending = FALSE, !.rst_after = FALSE, !.pcnt = 0, !.pst = "P_FILL"],
                  e}
    BY <1>5 DEF Idle
  <2> QED
    BY <1>1, <1>2, <1>3, <2>1 DEF Taken, Registered, Fields, Flags, Registers, States
<1>6. CASE LoadRequest(e)
  BY <1>1, <1>2, <1>6 DEF LoadRequest, Taken, Registered, Fields, Flags, Registers, States
<1>7. CASE LoadData(e)
  BY <1>1, <1>2, <1>3, <1>7 DEF LoadData, Taken, Registered, Fields, Flags, Registers, States
<1>8. CASE LoadWord(e)
  BY <1>1, <1>2, <1>8 DEF LoadWord, Taken, Registered, Fields, Flags, Registers, States
<1>9. CASE LoadLow(e)
  <2>1. /\ fsm' = [e EXCEPT !.load_wr = TRUE, !.load_addr = 2 * (fsm.pcnt \div 2) + 0,
                           !.load_data = pbuf_q[1], !.pst = "P_LD_B1"]
        /\ 2 * (fsm.pcnt \div 2) + 0 \in Addr
    BY <1>4, <1>9, Halves DEF LoadLow, LoadByte, Addr
  <2> QED
    BY <1>1, <1>2, <1>4, <2>1 DEF Taken, Registered, Fields, Flags, Registers, States
<1>10. CASE LoadHigh(e)
  <2> DEFINE b(s) == LoadByte(e, s, 1)
  <2>1. 2 * (fsm.pcnt \div 2) + 1 \in Addr /\ (~loadEnds => fsm.pcnt + 2 \in Addr)
    BY <1>4, <1>10, Halves DEF LoadHigh, loadEnds
  <2>2. ASSUME NEW s \in States
        PROVE  /\ DOMAIN b(s) = Fields /\ b(s).pst = s /\ \A f \in Flags : b(s)[f] \in BOOLEAN
               /\ b(s).pcnt = fsm.pcnt /\ b(s).load_addr \in Addr /\ b(s).save_addr \in Addr
               /\ b(s).load_data \in Values /\ b(s).rst_hold \in 0 .. Hold
    BY <1>1, <1>2, <1>4, <2>1 DEF LoadByte, Taken, Fields, Flags, Registers, States
  <2> HIDE DEF b
  <2>3. CASE loadEnds
    <3> DEFINE s == IF fsm.late_load THEN "P_RST" ELSE "P_IDLE"
    <3>1. s \in States
      BY DEF States
    <3>2. fsm' = [b(s) EXCEPT !.dirty = FALSE, !.ena = TRUE, !.ready = TRUE, !.late_load = FALSE]
      BY <1>10, <2>3 DEF LoadHigh, b
    <3> HIDE DEF s
    <3> QED
      BY <1>2, <1>1, <2>2, <3>1, <3>2 DEF Taken, Registered, Fields, Flags, Registers
  <2>4. CASE ~loadEnds
    <3>1. "P_LD_ADDR" \in States
      BY DEF States
    <3>2. fsm' = [b("P_LD_ADDR") EXCEPT !.pcnt = @ + 2]
      BY <1>10, <2>4 DEF LoadHigh, b
    <3> QED
      BY <1>4, <2>1, <2>2, <2>4, <3>1, <3>2 DEF Registered, Fields, Flags, Registers
  <2> QED
    BY <2>3, <2>4
<1>11. CASE Fill(e)
  BY <1>1, <1>2, <1>4, <1>11 DEF Fill, Taken, Registered, Fields, Flags, Registers, States
<1>12. CASE FillWait(e)
  BY <1>1, <1>2, <1>12 DEF FillWait, Taken, Registered, Fields, Flags, Registers, States
<1>13. CASE FillNext(e)
  <2>1. fsm.pcnt # 2 * Words - 1 => fsm.pcnt + 1 \in Addr
    BY <1>4, PramAssumption DEF Addr
  <2> QED
    BY <1>1, <1>2, <1>13, <2>1 DEF FillNext, Taken, Registered, Fields, Flags, Registers, States
<1>14. CASE SaveRequest(e)
  BY <1>1, <1>2, <1>14 DEF SaveRequest, Taken, Registered, Fields, Flags, Registers, States
<1>15. CASE SaveData(e)
  BY <1>1, <1>2, <1>15 DEF SaveData, Taken, Registered, Fields, Flags, Registers, States
<1>16. CASE Clear(e)
  <2>1. fsm.pcnt < 2 * Words - 1 => fsm.pcnt + 1 \in Addr
    BY <1>4, PramAssumption DEF Addr
  <2> DEFINE c == [e EXCEPT !.load_wr = TRUE, !.load_addr = fsm.pcnt, !.load_data = 0]
  <2>2. /\ DOMAIN c = Fields /\ c.pst = fsm.pst /\ \A f \in Flags : c[f] \in BOOLEAN
        /\ c.pcnt = fsm.pcnt /\ c.load_addr \in Addr /\ c.save_addr \in Addr
        /\ c.load_data \in Values /\ c.rst_hold \in 0 .. Hold
    BY <1>1, <1>2, <1>3, <1>4 DEF Taken, Fields, Flags, Registers
  <2>3. \/ fsm.pcnt < 2 * Words - 1 /\ fsm' = [c EXCEPT !.pcnt = @ + 1]
        \/ fsm' = [c EXCEPT !.rst_after = TRUE, !.pst = "P_SV_WR"]
        \/ fsm' = [c EXCEPT !.pst = "P_RST"]
    <3>1. fsm.pcnt < 2 * Words - 1 \/ fsm.pcnt = 2 * Words - 1
      BY <1>4, PramAssumption DEF Addr
    <3>2. fsm.ena \in BOOLEAN
      BY DEF Shape, TypeOK, Flags
    <3> QED
      BY <1>16, <3>1, <3>2 DEF Clear
  <2> HIDE DEF c
  <2> QED
    <3>1. CASE fsm.pcnt < 2 * Words - 1 /\ fsm' = [c EXCEPT !.pcnt = @ + 1]
      BY <1>2, <1>1, <2>1, <2>2, <3>1 DEF Taken, Registered, Fields, Flags, Registers
    <3>2. CASE fsm' = [c EXCEPT !.rst_after = TRUE, !.pst = "P_SV_WR"]
      BY <1>4, <2>2, <3>2 DEF Registered, Fields, Flags, Registers, States
    <3>3. CASE fsm' = [c EXCEPT !.pst = "P_RST"]
      BY <1>4, <2>2, <3>3 DEF Registered, Fields, Flags, Registers, States
    <3> QED
      BY <2>3, <3>1, <3>2, <3>3
<1>17. CASE AskReset(e)
  BY <1>1, <1>2, <1>3, <1>17 DEF AskReset, Taken, Registered, Fields, Flags, Registers, States
<1> QED
  BY <1>2, <1>5, <1>6, <1>7, <1>8, <1>9, <1>10, <1>11, <1>12, <1>13, <1>14, <1>15, <1>16, <1>17 DEF Machine

LEMMA MemoryTypes ==
  ASSUME Shape, Memory
  PROVE  pram' \in [Addr -> Values] /\ save_q' \in Values
<1>1. /\ ser.data \in Values /\ fsm.load_data \in Values /\ bAddr \in Addr
      /\ pram \in [Addr -> Values]
  BY DEF Shape, TypeOK, bAddr
<1>2. pram' \in [Addr -> Values]
  BY <1>1 DEF Memory
<1>3. save_q' \in Values
  BY <1>1 DEF Memory
<1> QED
  BY <1>2, <1>3

LEMMA BufferTypes ==
  ASSUME Shape, Buffer
  PROVE  buf' \in [Index -> Values \X Values] /\ pbuf_q' \in Values \X Values /\ fill_lo' \in Values
<1>1. /\ fsm.pcnt \div 2 \in Index /\ hps.at \in Index /\ Zero \in Values \X Values
      /\ <<fill_lo, save_q>> \in Values \X Values /\ file[mounted][hps.at] \in Values \X Values
      /\ buf \in [Index -> Values \X Values]
  BY Halves, PramAssumption DEF Shape, TypeOK, Zero
<1>2. buf' \in [Index -> Values \X Values]
  BY <1>1 DEF Buffer, BufferWrite
<1>3. pbuf_q' \in Values \X Values
  BY <1>1 DEF Buffer, BufferRead
<1>4. fill_lo' \in Values
  BY DEF Buffer, Shape, TypeOK
<1> QED
  BY <1>2, <1>3, <1>4

LEMMA ReleaseTypes ==
  ASSUME Shape, Release
  PROVE  n_reset' \in BOOLEAN /\ rst_cnt' \in 0 .. Settle /\ tick' \in 0 .. Tick - 1
<1>1. Tick \in Nat \ {0} /\ Settle \in Nat /\ tick \in 0 .. Tick - 1 /\ rst_cnt \in 0 .. Settle /\ n_reset \in BOOLEAN
  BY PramAssumption DEF Shape, TypeOK
<1>2. tick' \in 0 .. Tick - 1
  BY <1>1 DEF Release
<1>3. rst_cnt' \in 0 .. Settle
  BY <1>1 DEF Release
<1>4. n_reset' \in BOOLEAN
  BY <1>1 DEF Release, held
<1> QED
  BY <1>2, <1>3, <1>4

LEMMA OutsideTypes ==
  ASSUME Shape, NEW mount \in Files \cup {NoMount}, Hps, Mount(mount), MacWrite
  PROVE  /\ hps' \in [window : {"closed", "read", "write"}, at : Index, strobe : BOOLEAN, valid : BOOLEAN]
         /\ mounted' \in Files /\ file' \in [Files -> [Index -> Values \X Values]]
         /\ ser' \in [we : BOOLEAN, addr : Addr, data : Values]
<1>1. /\ hps \in [window : {"closed", "read", "write"}, at : Index, strobe : BOOLEAN, valid : BOOLEAN]
      /\ file \in [Files -> [Index -> Values \X Values]] /\ mounted \in Files
      /\ pbuf_q \in Values \X Values /\ fsm.rd \in BOOLEAN
  BY DEF Shape, TypeOK, Flags
<1>2. 0 \in Index /\ 0 \in Addr /\ (hps.at < Words - 1 => hps.at + 1 \in Index)
  BY <1>1, PramAssumption DEF Index, Addr
<1>3. mounted' \in Files
  BY <1>1 DEF Mount
<1>4. ser' \in [we : BOOLEAN, addr : Addr, data : Values]
  <2>1. NoWrite \in [we : BOOLEAN, addr : Addr, data : Values]
    BY <1>2, PramAssumption DEF NoWrite
  <2>2. ser' = NoWrite \/ ser' \in [we : {TRUE}, addr : Addr, data : Values]
    BY DEF MacWrite
  <2> QED
    BY <2>1, <2>2
<1>5. file' \in [Files -> [Index -> Values \X Values]]
  <2>1. file' = file \/ file' = [file EXCEPT ![mounted][hps.at] = pbuf_q]
    BY DEF Hps, HpsOpen, HpsStream, HpsSettle, HpsCollect, HpsClose, HpsWait
  <2> DEFINE g == [file[mounted] EXCEPT ![hps.at] = pbuf_q]
  <2>2. g \in [Index -> Values \X Values]
    BY <1>1
  <2>3. file' = file \/ file' = [file EXCEPT ![mounted] = g]
    BY <2>1
  <2>4. file \in [Files -> [Index -> Values \X Values]] /\ mounted \in Files
    BY <1>1
  <2> HIDE DEF g
  <2> QED
    BY <2>2, <2>3, <2>4
<1>6. hps' \in [window : {"closed", "read", "write"}, at : Index, strobe : BOOLEAN, valid : BOOLEAN]
  <2>1. CASE HpsOpen
    BY <1>1, <1>2, <2>1 DEF HpsOpen
  <2>2. CASE HpsStream
    <3>1. \/ hps.at < Words - 1 /\ hps' = [hps EXCEPT !.at = @ + 1]
          \/ hps' = [hps EXCEPT !.strobe = FALSE]
      BY <2>2 DEF HpsStream
    <3> QED
      BY <1>1, <1>2, <3>1
  <2>3. CASE HpsSettle
    BY <1>1, <2>3 DEF HpsSettle
  <2>4. closed \in [window : {"closed", "read", "write"}, at : Index, strobe : BOOLEAN, valid : BOOLEAN]
    BY <1>2 DEF closed
  <2>5. CASE HpsCollect
    <3>1. \/ hps.at < Words - 1 /\ hps' = [hps EXCEPT !.at = @ + 1, !.valid = FALSE]
          \/ hps' = closed
      BY <2>5 DEF HpsCollect
    <3> QED
      BY <1>1, <1>2, <2>4, <3>1
  <2>6. CASE HpsClose \/ HpsWait
    BY <1>1, <2>4, <2>6 DEF HpsClose, HpsWait
  <2> QED
    BY <2>1, <2>2, <2>3, <2>5, <2>6 DEF Hps
<1> QED
  BY <1>3, <1>4, <1>5, <1>6

LEMMA InitTypes == Init => Shape
<1> SUFFICES ASSUME Init PROVE Shape
  OBVIOUS
<1>1. PICK v \in Values \ {0} : pram = [a \in Addr |-> v]
  BY DEF Init
<1>2. /\ 0 \in Addr /\ 0 \in Index /\ 0 \in Values /\ Zero \in Values \X Values
      /\ Tick \in Nat \ {0} /\ Settle \in Nat /\ Hold \in Nat
  BY PramAssumption DEF Addr, Index, Zero
<1>3. Registered
  <2>1. fsm = [f \in Fields |-> CASE f = "pst" -> "P_IDLE" [] f \in Flags -> FALSE [] f \in Registers -> 0]
    BY DEF Init, Fields
  <2>2. fsm.pst = "P_IDLE" /\ \A f \in Flags : fsm[f] = FALSE
    BY <2>1 DEF Fields, Flags, Registers
  <2>3. \A f \in Registers : fsm[f] = 0
    BY <2>1 DEF Fields, Flags, Registers
  <2>4. /\ fsm.pcnt = 0 /\ fsm.load_addr = 0 /\ fsm.save_addr = 0
        /\ fsm.load_data = 0 /\ fsm.rst_hold = 0
    BY <2>3 DEF Registers
  <2>5. DOMAIN fsm = Fields /\ 0 \in 0 .. Hold
    BY <1>2, <2>1
  <2> QED
    BY <1>2, <2>2, <2>4, <2>5 DEF Registered, States
<1>4. file \in [Files -> [Index -> Values \X Values]]
  <2> DEFINE saved == CHOOSE w \in Values : w # 0
  <2>1. saved \in Values
    BY <1>1
  <2>2. file = [f \in Files |-> [w \in Index |-> IF f \in Nvrs THEN <<0, saved>> ELSE <<saved, 0>>]]
    BY DEF Init
  <2> HIDE DEF saved
  <2> QED
    BY <1>2, <2>1, <2>2
<1>5. "none" \in Files
  BY PramAssumption DEF Files
<1>6. pram \in [Addr -> Values] /\ buf \in [Index -> Values \X Values]
  BY <1>1, <1>2 DEF Init
<1>7. /\ hps \in [window : {"closed", "read", "write"}, at : Index, strobe : BOOLEAN, valid : BOOLEAN]
      /\ ser \in [we : BOOLEAN, addr : Addr, data : Values]
  BY <1>2 DEF Init, closed, NoWrite
<1>8. /\ save_q \in Values /\ pbuf_q \in Values \X Values /\ fill_lo \in Values
      /\ n_reset \in BOOLEAN /\ rst_cnt \in 0 .. Settle /\ tick \in 0 .. Tick - 1 /\ mounted \in Files
  <2>1. 0 \in 0 .. Tick - 1 /\ Settle \in 0 .. Settle
    BY <1>2
  <2> QED
    BY <1>2, <1>5, <2>1 DEF Init
<1> QED
  BY <1>3, <1>4, <1>6, <1>7, <1>8 DEF Shape, TypeOK, Registered

LEMMA StepTypes == Shape /\ [Next]_vars => Shape'
<1> SUFFICES ASSUME Shape, [Next]_vars PROVE Shape'
  OBVIOUS
<1>1. CASE Next
  <2>1. PICK mount \in Files \cup {NoMount}, osd \in BOOLEAN, rf \in BOOLEAN, backstop \in BOOLEAN :
          Clk(mount, osd, rf, backstop)
    BY <1>1 DEF Next
  <2>2. Registered'
    BY <2>1, MachineTypes DEF Clk
  <2>3. Memory /\ Buffer /\ Release /\ Hps /\ Mount(mount) /\ MacWrite
    BY <2>1 DEF Clk
  <2> QED
    BY <2>2, <2>3, MemoryTypes, BufferTypes, ReleaseTypes, OutsideTypes DEF Shape, TypeOK, Registered
<1>2. CASE UNCHANGED vars
  BY <1>2 DEF vars, ramVars, Shape, TypeOK
<1> QED
  BY <1>1, <1>2

\* Every register, memory and file keeps a value of its kind: the byte counter
\* stays inside the memory in every walk of the machine.
THEOREM PramTypeCorrect == Spec => []TypeOK
<1>1. Spec => []Shape
  BY InitTypes, StepTypes, PTL DEF Spec
<1> QED
  BY <1>1, PTL DEF Shape

--------------------------------------------------------------------------------
(* The machine as a table: the register after a clock, over all its states *)

lastByte == fsm.pcnt = 2 * Words - 1
successor ==
  CASE machine("P_IDLE")    -> IF fsm.clr_pending THEN "P_CLR" ELSE IF fsm.load_pending THEN "P_LD_RD"
                               ELSE IF fsm.flush_pending THEN "P_FILL" ELSE "P_IDLE"
    [] machine("P_LD_RD")   -> IF pram_ack THEN "P_LD_DAT" ELSE "P_LD_RD"
    [] machine("P_LD_DAT")  -> IF windowEnds THEN "P_LD_ADDR" ELSE "P_LD_DAT"
    [] machine("P_LD_ADDR") -> "P_LD_B0"
    [] machine("P_LD_B0")   -> "P_LD_B1"
    [] machine("P_LD_B1")   -> IF ~loadEnds THEN "P_LD_ADDR" ELSE IF fsm.late_load THEN "P_RST" ELSE "P_IDLE"
    [] machine("P_FILL")    -> "P_FILL2"
    [] machine("P_FILL2")   -> "P_FILL3"
    [] machine("P_FILL3")   -> IF lastByte THEN "P_SV_WR" ELSE "P_FILL"
    [] machine("P_SV_WR")   -> IF pram_ack THEN "P_SV_DAT" ELSE "P_SV_WR"
    [] machine("P_SV_DAT")  -> IF ~windowEnds THEN "P_SV_DAT" ELSE IF fsm.rst_after THEN "P_RST" ELSE "P_IDLE"
    [] machine("P_CLR")     -> IF ~lastByte THEN "P_CLR" ELSE IF fsm.ena THEN "P_SV_WR" ELSE "P_RST"
    [] machine("P_RST")     -> "P_IDLE"

begins(s) == machine("P_IDLE") /\ successor = s
saveEnds  == machine("P_SV_DAT") /\ windowEnds

\* The flags and the pulse ...
FlagMoves(mount, osd, backstop) ==
  /\ fsm'.pst = successor
  /\ fsm'.old_pack = pram_ack
  /\ fsm'.force_reset = (machine("P_RST") \/ (fsm.force_reset /\ fsm.rst_hold # 0))
  /\ fsm'.rst_hold = IF machine("P_RST") THEN Hold
                     ELSE IF fsm.force_reset /\ fsm.rst_hold # 0 THEN fsm.rst_hold - 1 ELSE fsm.rst_hold
  /\ fsm'.ready = (fsm.ready \/ mount \in Others \/ backstop \/ loadEnds)
  /\ fsm'.late_load = IF loadEnds THEN FALSE ELSE IF mount \in Nvrs THEN fsm.ready ELSE fsm.late_load
  /\ fsm'.ena = (loadEnds \/ mount \in Nvrs \/ (fsm.ena /\ mount \notin Others))
  /\ fsm'.dirty = ((fsm.dirty \/ ser.we) /\ ~loadEnds /\ ~saveEnds)
  /\ fsm'.load_pending = ((fsm.load_pending \/ mount \in Nvrs) /\ ~begins("P_LD_RD"))
  /\ fsm'.flush_pending = ((fsm.flush_pending \/ (osd /\ fsm.dirty /\ fsm.ena)) /\ ~begins("P_FILL"))
  /\ fsm'.rd = (begins("P_LD_RD") \/ (fsm.rd /\ ~(machine("P_LD_RD") /\ pram_ack)))
  /\ fsm'.wr_req = IF machine("P_SV_WR") THEN ~pram_ack ELSE fsm.wr_req
  /\ fsm'.rst_after = IF begins("P_FILL") \/ saveEnds THEN FALSE
                      ELSE fsm.rst_after \/ (machine("P_CLR") /\ lastByte /\ fsm.ena)

\* ... and what goes over the ports.
PortMoves ==
  /\ fsm'.load_wr = (machine("P_LD_B0") \/ machine("P_LD_B1") \/ machine("P_CLR"))
  /\ fsm'.load_addr = CASE machine("P_LD_B0") -> 2 * (fsm.pcnt \div 2)
                        [] machine("P_LD_B1") -> 2 * (fsm.pcnt \div 2) + 1
                        [] machine("P_CLR")   -> fsm.pcnt
                        [] OTHER              -> fsm.load_addr
  /\ fsm'.load_data = CASE machine("P_LD_B0") -> pbuf_q[1]
                        [] machine("P_LD_B1") -> pbuf_q[2]
                        [] machine("P_CLR")   -> 0
                        [] OTHER              -> fsm.load_data
  /\ fsm'.save_addr = IF machine("P_FILL") THEN fsm.pcnt ELSE fsm.save_addr
  /\ fsm'.pcnt = CASE begins("P_CLR") \/ begins("P_FILL") \/ (machine("P_LD_DAT") /\ windowEnds) -> 0
                   [] machine("P_LD_B1") /\ ~loadEnds                     -> fsm.pcnt + 2
                   [] fsm.pst \in {"P_FILL3", "P_CLR"} /\ ~lastByte       -> fsm.pcnt + 1
                   [] OTHER                                               -> fsm.pcnt

LEMMA MachineMoves ==
  ASSUME Shape, NEW mount, NEW osd \in BOOLEAN, NEW rf \in BOOLEAN, NEW backstop \in BOOLEAN,
         Machine(Latched(mount, osd, rf, backstop))
  PROVE  FlagMoves(mount, osd, backstop) /\ PortMoves
<1> DEFINE e == Latched(mount, osd, rf, backstop)
<1>1. Taken(e, mount, osd, rf, backstop)
  BY LatchedTaken
<1>2. Machine(e)
  OBVIOUS
<1>3. \A f \in Flags : fsm[f] \in BOOLEAN
  BY DEF Shape, TypeOK
<1>4. /\ fsm.pcnt \in Addr /\ 2 * (fsm.pcnt \div 2) + 0 = 2 * (fsm.pcnt \div 2)
      /\ (fsm.pcnt < 2 * Words - 1) = ~lastByte
  <2>1. fsm.pcnt \in Addr
    BY DEF Shape, TypeOK
  <2> QED
    BY <2>1, Halves, PramAssumption DEF Addr, Index, lastByte
<1> HIDE DEF e
<1>5. CASE Idle(e)
  <2>1. machine("P_IDLE") /\ ~(saveEnds) /\ ~loadEnds
    BY <1>5 DEF Idle, machine, loadEnds, saveEnds, begins
  <2>2. CASE fsm.clr_pending
    <3>1. successor = "P_CLR" /\ \A s : begins(s) <=> s = "P_CLR"
      BY <2>1, <2>2 DEF machine, successor, begins
    <3>2. /\ fsm'.pst = "P_CLR" /\ fsm'.clr_pending = FALSE /\ fsm'.pcnt = 0
          /\ fsm'.rd = e.rd /\ fsm'.wr_req = e.wr_req /\ fsm'.load_wr = e.load_wr
          /\ fsm'.ena = e.ena /\ fsm'.dirty = e.dirty /\ fsm'.rst_after = e.rst_after
          /\ fsm'.load_pending = e.load_pending /\ fsm'.flush_pending = e.flush_pending
          /\ fsm'.late_load = e.late_load /\ fsm'.ready = e.ready
          /\ fsm'.force_reset = e.force_reset /\ fsm'.old_pack = e.old_pack
          /\ fsm'.load_addr = e.load_addr /\ fsm'.load_data = e.load_data
          /\ fsm'.rst_hold = e.rst_hold /\ fsm'.save_addr = e.save_addr
      <4>1. fsm' = [e EXCEPT !.clr_pending = FALSE, !.pcnt = 0, !.pst = "P_CLR"]
        BY <1>1, <1>4, <1>5, <2>1, <2>2 DEF Idle, Taken, machine, Fields, Flags, Registers
      <4> QED
        BY <1>1, <2>1, <4>1 DEF Taken, machine, Fields, Flags, Registers
    <3>3. FlagMoves(mount, osd, backstop)
      BY <1>1, <1>3, <2>1, <2>2, <3>1, <3>2 DEF machine, Taken, FlagMoves, Flags, Registers
    <3>4. PortMoves
      BY <1>1, <1>3, <2>1, <2>2, <3>1, <3>2 DEF machine, Taken, PortMoves
    <3> QED
      BY <3>3, <3>4
  <2>3. CASE ~fsm.clr_pending /\ fsm.load_pending
    <3>1. successor = "P_LD_RD" /\ \A s : begins(s) <=> s = "P_LD_RD"
      BY <2>1, <2>3 DEF machine, successor, begins
    <3>2. /\ fsm'.pst = "P_LD_RD" /\ fsm'.load_pending = FALSE /\ fsm'.rd = TRUE
          /\ fsm'.wr_req = e.wr_req /\ fsm'.load_wr = e.load_wr /\ fsm'.ena = e.ena
          /\ fsm'.dirty = e.dirty /\ fsm'.rst_after = e.rst_after
          /\ fsm'.flush_pending = e.flush_pending /\ fsm'.late_load = e.late_load
          /\ fsm'.ready = e.ready /\ fsm'.force_reset = e.force_reset /\ fsm'.old_pack = e.old_pack
          /\ fsm'.load_addr = e.load_addr /\ fsm'.load_data = e.load_data /\ fsm'.pcnt = e.pcnt
          /\ fsm'.rst_hold = e.rst_hold /\ fsm'.save_addr = e.save_addr
      <4>1. fsm' = [e EXCEPT !.load_pending = FALSE, !.rd = TRUE, !.pst = "P_LD_RD"]
        BY <1>1, <1>4, <1>5, <2>1, <2>3 DEF Idle, Taken, machine, Fields, Flags, Registers
      <4> QED
        BY <1>1, <2>1, <4>1 DEF Taken, machine, Fields, Flags, Registers
    <3>3. FlagMoves(mount, osd, backstop)
      BY <1>1, <1>3, <2>1, <2>3, <3>1, <3>2 DEF machine, Taken, FlagMoves, Flags, Registers
    <3>4. PortMoves
      BY <1>1, <1>3, <2>1, <2>3, <3>1, <3>2 DEF machine, Taken, PortMoves
    <3> QED
      BY <3>3, <3>4
  <2>4. CASE ~fsm.clr_pending /\ ~fsm.load_pending /\ fsm.flush_pending
    <3>1. successor = "P_FILL" /\ \A s : begins(s) <=> s = "P_FILL"
      BY <2>1, <2>4 DEF machine, successor, begins
    <3>2. /\ fsm'.pst = "P_FILL" /\ fsm'.flush_pending = FALSE /\ fsm'.rst_after = FALSE /\ fsm'.pcnt = 0
          /\ fsm'.rd = e.rd /\ fsm'.wr_req = e.wr_req /\ fsm'.load_wr = e.load_wr
          /\ fsm'.ena = e.ena /\ fsm'.dirty = e.dirty /\ fsm'.load_pending = e.load_pending
          /\ fsm'.late_load = e.late_load /\ fsm'.ready = e.ready
          /\ fsm'.force_reset = e.force_reset /\ fsm'.old_pack = e.old_pack
          /\ fsm'.load_addr = e.load_addr /\ fsm'.load_data = e.load_data
          /\ fsm'.rst_hold = e.rst_hold /\ fsm'.save_addr = e.save_addr
      <4>1. fsm' = [e EXCEPT !.flush_pending = FALSE, !.rst_after = FALSE, !.pcnt = 0, !.pst = "P_FILL"]
        BY <1>1, <1>4, <1>5, <2>1, <2>4 DEF Idle, Taken, machine, Fields, Flags, Registers
      <4> QED
        BY <1>1, <2>1, <4>1 DEF Taken, machine, Fields, Flags, Registers
    <3>3. FlagMoves(mount, osd, backstop)
      BY <1>1, <1>3, <2>1, <2>4, <3>1, <3>2 DEF machine, Taken, FlagMoves, Flags, Registers
    <3>4. PortMoves
      BY <1>1, <1>3, <2>1, <2>4, <3>1, <3>2 DEF machine, Taken, PortMoves
    <3> QED
      BY <3>3, <3>4
  <2>5. CASE ~fsm.clr_pending /\ ~fsm.load_pending /\ ~fsm.flush_pending
    <3>1. successor = "P_IDLE" /\ \A s : begins(s) <=> s = "P_IDLE"
      BY <2>1, <2>5 DEF machine, successor, begins
    <3>2. /\ fsm'.pst = "P_IDLE"
          /\ fsm'.rd = e.rd /\ fsm'.wr_req = e.wr_req /\ fsm'.load_wr = e.load_wr
          /\ fsm'.ena = e.ena /\ fsm'.dirty = e.dirty /\ fsm'.rst_after = e.rst_after
          /\ fsm'.load_pending = e.load_pending /\ fsm'.flush_pending = e.flush_pending
          /\ fsm'.late_load = e.late_load /\ fsm'.ready = e.ready
          /\ fsm'.force_reset = e.force_reset /\ fsm'.old_pack = e.old_pack
          /\ fsm'.load_addr = e.load_addr /\ fsm'.load_data = e.load_data /\ fsm'.pcnt = e.pcnt
          /\ fsm'.rst_hold = e.rst_hold /\ fsm'.save_addr = e.save_addr
      BY <1>1, <1>4, <1>5, <2>1, <2>5 DEF Idle, Taken, machine, Fields, Flags, Registers
    <3>3. FlagMoves(mount, osd, backstop)
      BY <1>1, <1>3, <2>1, <2>5, <3>1, <3>2 DEF machine, Taken, FlagMoves, Flags, Registers
    <3>4. PortMoves
      BY <1>1, <1>3, <2>1, <2>5, <3>1, <3>2 DEF machine, Taken, PortMoves
    <3> QED
      BY <3>3, <3>4
  <2>6. fsm.clr_pending \in BOOLEAN /\ fsm.load_pending \in BOOLEAN /\ fsm.flush_pending \in BOOLEAN
    BY <1>3 DEF Flags
  <2> QED
    BY <2>2, <2>3, <2>4, <2>5, <2>6
<1>6. CASE LoadRequest(e)
  <2>1. machine("P_LD_RD") /\ ~(saveEnds) /\ ~loadEnds /\ \A s : ~begins(s)
    BY <1>6 DEF LoadRequest, machine, loadEnds, saveEnds, begins
  <2>2. CASE pram_ack
    <3>1. successor = "P_LD_DAT"
      BY <2>1, <2>2 DEF machine, successor, begins
    <3>2. /\ fsm'.pst = "P_LD_DAT" /\ fsm'.rd = FALSE
          /\ fsm'.wr_req = e.wr_req /\ fsm'.load_wr = e.load_wr /\ fsm'.ena = e.ena
          /\ fsm'.dirty = e.dirty /\ fsm'.rst_after = e.rst_after
          /\ fsm'.load_pending = e.load_pending /\ fsm'.flush_pending = e.flush_pending
          /\ fsm'.late_load = e.late_load /\ fsm'.ready = e.ready
          /\ fsm'.force_reset = e.force_reset /\ fsm'.old_pack = e.old_pack
          /\ fsm'.load_addr = e.load_addr /\ fsm'.load_data = e.load_data /\ fsm'.pcnt = e.pcnt
          /\ fsm'.rst_hold = e.rst_hold /\ fsm'.save_addr = e.save_addr
      <4>1. fsm' = [e EXCEPT !.rd = FALSE, !.pst = "P_LD_DAT"]
        BY <1>1, <1>4, <1>6, <2>1, <2>2 DEF LoadRequest, Taken, machine, Fields, Flags, Registers
      <4> QED
        BY <1>1, <2>1, <4>1 DEF Taken, machine, Fields, Flags, Registers
    <3>3. FlagMoves(mount, osd, backstop)
      BY <1>1, <1>3, <2>1, <2>2, <3>1, <3>2 DEF machine, Taken, FlagMoves, Flags, Registers
    <3>4. PortMoves
      BY <1>1, <1>3, <2>1, <2>2, <3>1, <3>2 DEF machine, Taken, PortMoves
    <3> QED
      BY <3>3, <3>4
  <2>3. CASE ~pram_ack
    <3>1. successor = "P_LD_RD"
      BY <2>1, <2>3 DEF machine, successor, begins
    <3>2. /\ fsm'.pst = "P_LD_RD"
          /\ fsm'.rd = e.rd /\ fsm'.wr_req = e.wr_req /\ fsm'.load_wr = e.load_wr
          /\ fsm'.ena = e.ena /\ fsm'.dirty = e.dirty /\ fsm'.rst_after = e.rst_after
          /\ fsm'.load_pending = e.load_pending /\ fsm'.flush_pending = e.flush_pending
          /\ fsm'.late_load = e.late_load /\ fsm'.ready = e.ready
          /\ fsm'.force_reset = e.force_reset /\ fsm'.old_pack = e.old_pack
          /\ fsm'.load_addr = e.load_addr /\ fsm'.load_data = e.load_data /\ fsm'.pcnt = e.pcnt
          /\ fsm'.rst_hold = e.rst_hold /\ fsm'.save_addr = e.save_addr
      BY <1>1, <1>4, <1>6, <2>1, <2>3 DEF LoadRequest, Taken, machine, Fields, Flags, Registers
    <3>3. FlagMoves(mount, osd, backstop)
      BY <1>1, <1>3, <2>1, <2>3, <3>1, <3>2 DEF machine, Taken, FlagMoves, Flags, Registers
    <3>4. PortMoves
      BY <1>1, <1>3, <2>1, <2>3, <3>1, <3>2 DEF machine, Taken, PortMoves
    <3> QED
      BY <3>3, <3>4
  <2> QED
    BY <2>2, <2>3
<1>7. CASE LoadData(e)
  <2>1. machine("P_LD_DAT") /\ ~(saveEnds) /\ ~loadEnds /\ \A s : ~begins(s)
    BY <1>7 DEF LoadData, machine, loadEnds, saveEnds, begins
  <2>2. CASE windowEnds
    <3>1. successor = "P_LD_ADDR"
      BY <2>1, <2>2 DEF machine, successor, begins
    <3>2. /\ fsm'.pst = "P_LD_ADDR" /\ fsm'.pcnt = 0
          /\ fsm'.rd = e.rd /\ fsm'.wr_req = e.wr_req /\ fsm'.load_wr = e.load_wr
          /\ fsm'.ena = e.ena /\ fsm'.dirty = e.dirty /\ fsm'.rst_after = e.rst_after
          /\ fsm'.load_pending = e.load_pending /\ fsm'.flush_pending = e.flush_pending
          /\ fsm'.late_load = e.late_load /\ fsm'.ready = e.ready
          /\ fsm'.force_reset = e.force_reset /\ fsm'.old_pack = e.old_pack
          /\ fsm'.load_addr = e.load_addr /\ fsm'.load_data = e.load_data
          /\ fsm'.rst_hold = e.rst_hold /\ fsm'.save_addr = e.save_addr
      <4>1. fsm' = [e EXCEPT !.pcnt = 0, !.pst = "P_LD_ADDR"]
        BY <1>1, <1>4, <1>7, <2>1, <2>2 DEF LoadData, Taken, machine, Fields, Flags, Registers
      <4> QED
        BY <1>1, <2>1, <4>1 DEF Taken, machine, Fields, Flags, Registers
    <3>3. FlagMoves(mount, osd, backstop)
      BY <1>1, <1>3, <2>1, <2>2, <3>1, <3>2 DEF machine, Taken, FlagMoves, Flags, Registers
    <3>4. PortMoves
      BY <1>1, <1>3, <2>1, <2>2, <3>1, <3>2 DEF machine, Taken, PortMoves
    <3> QED
      BY <3>3, <3>4
  <2>3. CASE ~windowEnds
    <3>1. successor = "P_LD_DAT"
      BY <2>1, <2>3 DEF machine, successor, begins
    <3>2. /\ fsm'.pst = "P_LD_DAT"
          /\ fsm'.rd = e.rd /\ fsm'.wr_req = e.wr_req /\ fsm'.load_wr = e.load_wr
          /\ fsm'.ena = e.ena /\ fsm'.dirty = e.dirty /\ fsm'.rst_after = e.rst_after
          /\ fsm'.load_pending = e.load_pending /\ fsm'.flush_pending = e.flush_pending
          /\ fsm'.late_load = e.late_load /\ fsm'.ready = e.ready
          /\ fsm'.force_reset = e.force_reset /\ fsm'.old_pack = e.old_pack
          /\ fsm'.load_addr = e.load_addr /\ fsm'.load_data = e.load_data /\ fsm'.pcnt = e.pcnt
          /\ fsm'.rst_hold = e.rst_hold /\ fsm'.save_addr = e.save_addr
      BY <1>1, <1>4, <1>7, <2>1, <2>3 DEF LoadData, Taken, machine, Fields, Flags, Registers
    <3>3. FlagMoves(mount, osd, backstop)
      BY <1>1, <1>3, <2>1, <2>3, <3>1, <3>2 DEF machine, Taken, FlagMoves, Flags, Registers
    <3>4. PortMoves
      BY <1>1, <1>3, <2>1, <2>3, <3>1, <3>2 DEF machine, Taken, PortMoves
    <3> QED
      BY <3>3, <3>4
  <2> QED
    BY <2>2, <2>3
<1>8. CASE LoadWord(e)
  <2>1. machine("P_LD_ADDR") /\ ~(saveEnds) /\ ~loadEnds /\ \A s : ~begins(s)
    BY <1>8 DEF LoadWord, machine, loadEnds, saveEnds, begins
  <2>2. CASE TRUE
    <3>1. successor = "P_LD_B0"
      BY <2>1, <2>2 DEF machine, successor, begins
    <3>2. /\ fsm'.pst = "P_LD_B0"
          /\ fsm'.rd = e.rd /\ fsm'.wr_req = e.wr_req /\ fsm'.load_wr = e.load_wr
          /\ fsm'.ena = e.ena /\ fsm'.dirty = e.dirty /\ fsm'.rst_after = e.rst_after
          /\ fsm'.load_pending = e.load_pending /\ fsm'.flush_pending = e.flush_pending
          /\ fsm'.late_load = e.late_load /\ fsm'.ready = e.ready
          /\ fsm'.force_reset = e.force_reset /\ fsm'.old_pack = e.old_pack
          /\ fsm'.load_addr = e.load_addr /\ fsm'.load_data = e.load_data /\ fsm'.pcnt = e.pcnt
          /\ fsm'.rst_hold = e.rst_hold /\ fsm'.save_addr = e.save_addr
      <4>1. fsm' = [e EXCEPT !.pst = "P_LD_B0"]
        BY <1>1, <1>4, <1>8, <2>1, <2>2 DEF LoadWord, Taken, machine, Fields, Flags, Registers
      <4> QED
        BY <1>1, <2>1, <4>1 DEF Taken, machine, Fields, Flags, Registers
    <3>3. FlagMoves(mount, osd, backstop)
      BY <1>1, <1>3, <2>1, <2>2, <3>1, <3>2 DEF machine, Taken, FlagMoves, Flags, Registers
    <3>4. PortMoves
      BY <1>1, <1>3, <2>1, <2>2, <3>1, <3>2 DEF machine, Taken, PortMoves
    <3> QED
      BY <3>3, <3>4
  <2> QED
    BY <2>2
<1>9. CASE LoadLow(e)
  <2>1. machine("P_LD_B0") /\ ~(saveEnds) /\ ~loadEnds /\ \A s : ~begins(s)
    BY <1>9 DEF LoadLow, machine, loadEnds, saveEnds, begins
  <2>2. CASE TRUE
    <3>1. successor = "P_LD_B1"
      BY <2>1, <2>2 DEF machine, successor, begins
    <3>2. /\ fsm'.pst = "P_LD_B1" /\ fsm'.load_wr = TRUE /\ fsm'.load_addr = 2 * (fsm.pcnt \div 2) /\ fsm'.load_data = pbuf_q[1]
          /\ fsm'.rd = e.rd /\ fsm'.wr_req = e.wr_req /\ fsm'.ena = e.ena /\ fsm'.dirty = e.dirty
          /\ fsm'.rst_after = e.rst_after /\ fsm'.load_pending = e.load_pending
          /\ fsm'.flush_pending = e.flush_pending /\ fsm'.late_load = e.late_load
          /\ fsm'.ready = e.ready /\ fsm'.force_reset = e.force_reset /\ fsm'.old_pack = e.old_pack
          /\ fsm'.pcnt = e.pcnt /\ fsm'.rst_hold = e.rst_hold /\ fsm'.save_addr = e.save_addr
      <4> DEFINE b == LoadByte(e, "P_LD_B1", 0)
      <4>1. fsm' = b
        BY <1>9, <2>1, <2>2 DEF LoadLow, LoadByte
      <4>2. b = [e EXCEPT !.load_wr = TRUE, !.load_addr = 2 * (fsm.pcnt \div 2) + 0,
                          !.load_data = pbuf_q[1], !.pst = "P_LD_B1"]
        BY DEF LoadByte
      <4> HIDE DEF b
      <4>3. /\ DOMAIN b = Fields
            /\ b.load_wr = TRUE /\ b.load_addr = 2 * (fsm.pcnt \div 2) /\ b.load_data = pbuf_q[1]
            /\ b.pst = "P_LD_B1"
            /\ b.rd = e.rd /\ b.wr_req = e.wr_req /\ b.ena = e.ena /\ b.dirty = e.dirty
            /\ b.rst_after = e.rst_after /\ b.load_pending = e.load_pending
            /\ b.flush_pending = e.flush_pending /\ b.late_load = e.late_load /\ b.ready = e.ready
            /\ b.force_reset = e.force_reset /\ b.old_pack = e.old_pack /\ b.pcnt = e.pcnt
            /\ b.rst_hold = e.rst_hold /\ b.save_addr = e.save_addr
        BY <1>1, <1>4, <4>2 DEF Taken, Fields, Flags, Registers
      <4> QED
        BY <1>1, <4>1, <4>3 DEF Taken, Fields, Flags, Registers
    <3>3. FlagMoves(mount, osd, backstop)
      BY <1>1, <1>3, <2>1, <2>2, <3>1, <3>2 DEF machine, Taken, FlagMoves, Flags, Registers
    <3>4. PortMoves
      BY <1>1, <1>3, <2>1, <2>2, <3>1, <3>2 DEF machine, Taken, PortMoves
    <3> QED
      BY <3>3, <3>4
  <2> QED
    BY <2>2
<1>10. CASE LoadHigh(e)
  <2>1. machine("P_LD_B1") /\ ~(saveEnds) /\ \A s : ~begins(s)
    BY <1>10 DEF LoadHigh, machine, loadEnds, saveEnds, begins
  <2>2. CASE loadEnds /\ fsm.late_load
    <3>1. successor = "P_RST"
      BY <2>1, <2>2 DEF machine, successor, begins
    <3>2. /\ fsm'.pst = "P_RST" /\ fsm'.load_wr = TRUE /\ fsm'.load_addr = 2 * (fsm.pcnt \div 2) + 1 /\ fsm'.load_data = pbuf_q[2] /\ fsm'.dirty = FALSE /\ fsm'.ena = TRUE /\ fsm'.ready = TRUE /\ fsm'.late_load = FALSE
          /\ fsm'.rd = e.rd /\ fsm'.wr_req = e.wr_req /\ fsm'.rst_after = e.rst_after
          /\ fsm'.load_pending = e.load_pending /\ fsm'.flush_pending = e.flush_pending
          /\ fsm'.force_reset = e.force_reset /\ fsm'.old_pack = e.old_pack
          /\ fsm'.pcnt = e.pcnt /\ fsm'.rst_hold = e.rst_hold /\ fsm'.save_addr = e.save_addr
      <4> DEFINE b == LoadByte(e, "P_RST", 1)
      <4>1. fsm' = [b EXCEPT !.dirty = FALSE, !.ena = TRUE, !.ready = TRUE, !.late_load = FALSE]
        BY <1>10, <2>1, <2>2 DEF LoadHigh, LoadByte
      <4>2. b = [e EXCEPT !.load_wr = TRUE, !.load_addr = 2 * (fsm.pcnt \div 2) + 1,
                          !.load_data = pbuf_q[2], !.pst = "P_RST"]
        BY DEF LoadByte
      <4> HIDE DEF b
      <4>3. /\ DOMAIN b = Fields
            /\ b.load_wr = TRUE /\ b.load_addr = 2 * (fsm.pcnt \div 2) + 1
            /\ b.load_data = pbuf_q[2] /\ b.pst = "P_RST"
            /\ b.rd = e.rd /\ b.wr_req = e.wr_req /\ b.ena = e.ena /\ b.dirty = e.dirty
            /\ b.rst_after = e.rst_after /\ b.load_pending = e.load_pending
            /\ b.flush_pending = e.flush_pending /\ b.late_load = e.late_load /\ b.ready = e.ready
            /\ b.force_reset = e.force_reset /\ b.old_pack = e.old_pack /\ b.pcnt = e.pcnt
            /\ b.rst_hold = e.rst_hold /\ b.save_addr = e.save_addr
        BY <1>1, <1>4, <4>2 DEF Taken, Fields, Flags, Registers
      <4> QED
        BY <1>1, <4>1, <4>3 DEF Taken, Fields, Flags, Registers
    <3>3. FlagMoves(mount, osd, backstop)
      BY <1>1, <1>3, <2>1, <2>2, <3>1, <3>2 DEF machine, Taken, FlagMoves, Flags, Registers
    <3>4. PortMoves
      BY <1>1, <1>3, <2>1, <2>2, <3>1, <3>2 DEF machine, Taken, PortMoves
    <3> QED
      BY <3>3, <3>4
  <2>3. CASE loadEnds /\ ~fsm.late_load
    <3>1. successor = "P_IDLE"
      BY <2>1, <2>3 DEF machine, successor, begins
    <3>2. /\ fsm'.pst = "P_IDLE" /\ fsm'.load_wr = TRUE /\ fsm'.load_addr = 2 * (fsm.pcnt \div 2) + 1 /\ fsm'.load_data = pbuf_q[2] /\ fsm'.dirty = FALSE /\ fsm'.ena = TRUE /\ fsm'.ready = TRUE /\ fsm'.late_load = FALSE
          /\ fsm'.rd = e.rd /\ fsm'.wr_req = e.wr_req /\ fsm'.rst_after = e.rst_after
          /\ fsm'.load_pending = e.load_pending /\ fsm'.flush_pending = e.flush_pending
          /\ fsm'.force_reset = e.force_reset /\ fsm'.old_pack = e.old_pack
          /\ fsm'.pcnt = e.pcnt /\ fsm'.rst_hold = e.rst_hold /\ fsm'.save_addr = e.save_addr
      <4> DEFINE b == LoadByte(e, "P_IDLE", 1)
      <4>1. fsm' = [b EXCEPT !.dirty = FALSE, !.ena = TRUE, !.ready = TRUE, !.late_load = FALSE]
        BY <1>10, <2>1, <2>3 DEF LoadHigh, LoadByte
      <4>2. b = [e EXCEPT !.load_wr = TRUE, !.load_addr = 2 * (fsm.pcnt \div 2) + 1,
                          !.load_data = pbuf_q[2], !.pst = "P_IDLE"]
        BY DEF LoadByte
      <4> HIDE DEF b
      <4>3. /\ DOMAIN b = Fields
            /\ b.load_wr = TRUE /\ b.load_addr = 2 * (fsm.pcnt \div 2) + 1
            /\ b.load_data = pbuf_q[2] /\ b.pst = "P_IDLE"
            /\ b.rd = e.rd /\ b.wr_req = e.wr_req /\ b.ena = e.ena /\ b.dirty = e.dirty
            /\ b.rst_after = e.rst_after /\ b.load_pending = e.load_pending
            /\ b.flush_pending = e.flush_pending /\ b.late_load = e.late_load /\ b.ready = e.ready
            /\ b.force_reset = e.force_reset /\ b.old_pack = e.old_pack /\ b.pcnt = e.pcnt
            /\ b.rst_hold = e.rst_hold /\ b.save_addr = e.save_addr
        BY <1>1, <1>4, <4>2 DEF Taken, Fields, Flags, Registers
      <4> QED
        BY <1>1, <4>1, <4>3 DEF Taken, Fields, Flags, Registers
    <3>3. FlagMoves(mount, osd, backstop)
      BY <1>1, <1>3, <2>1, <2>3, <3>1, <3>2 DEF machine, Taken, FlagMoves, Flags, Registers
    <3>4. PortMoves
      BY <1>1, <1>3, <2>1, <2>3, <3>1, <3>2 DEF machine, Taken, PortMoves
    <3> QED
      BY <3>3, <3>4
  <2>4. CASE ~loadEnds
    <3>1. successor = "P_LD_ADDR"
      BY <2>1, <2>4 DEF machine, successor, begins
    <3>2. /\ fsm'.pst = "P_LD_ADDR" /\ fsm'.load_wr = TRUE /\ fsm'.load_addr = 2 * (fsm.pcnt \div 2) + 1 /\ fsm'.load_data = pbuf_q[2] /\ fsm'.pcnt = fsm.pcnt + 2
          /\ fsm'.rd = e.rd /\ fsm'.wr_req = e.wr_req /\ fsm'.ena = e.ena /\ fsm'.dirty = e.dirty
          /\ fsm'.rst_after = e.rst_after /\ fsm'.load_pending = e.load_pending
          /\ fsm'.flush_pending = e.flush_pending /\ fsm'.late_load = e.late_load
          /\ fsm'.ready = e.ready /\ fsm'.force_reset = e.force_reset /\ fsm'.old_pack = e.old_pack
          /\ fsm'.rst_hold = e.rst_hold /\ fsm'.save_addr = e.save_addr
      <4> DEFINE b == LoadByte(e, "P_LD_ADDR", 1)
      <4>1. fsm' = [b EXCEPT !.pcnt = @ + 2]
        BY <1>10, <2>1, <2>4 DEF LoadHigh, LoadByte
      <4>2. b = [e EXCEPT !.load_wr = TRUE, !.load_addr = 2 * (fsm.pcnt \div 2) + 1,
                          !.load_data = pbuf_q[2], !.pst = "P_LD_ADDR"]
        BY DEF LoadByte
      <4> HIDE DEF b
      <4>3. /\ DOMAIN b = Fields
            /\ b.load_wr = TRUE /\ b.load_addr = 2 * (fsm.pcnt \div 2) + 1
            /\ b.load_data = pbuf_q[2] /\ b.pst = "P_LD_ADDR"
            /\ b.rd = e.rd /\ b.wr_req = e.wr_req /\ b.ena = e.ena /\ b.dirty = e.dirty
            /\ b.rst_after = e.rst_after /\ b.load_pending = e.load_pending
            /\ b.flush_pending = e.flush_pending /\ b.late_load = e.late_load /\ b.ready = e.ready
            /\ b.force_reset = e.force_reset /\ b.old_pack = e.old_pack /\ b.pcnt = e.pcnt
            /\ b.rst_hold = e.rst_hold /\ b.save_addr = e.save_addr
        BY <1>1, <1>4, <4>2 DEF Taken, Fields, Flags, Registers
      <4> QED
        BY <1>1, <4>1, <4>3 DEF Taken, Fields, Flags, Registers
    <3>3. FlagMoves(mount, osd, backstop)
      BY <1>1, <1>3, <2>1, <2>4, <3>1, <3>2 DEF machine, Taken, FlagMoves, Flags, Registers
    <3>4. PortMoves
      BY <1>1, <1>3, <2>1, <2>4, <3>1, <3>2 DEF machine, Taken, PortMoves
    <3> QED
      BY <3>3, <3>4
  <2> QED
    BY <2>2, <2>3, <2>4
<1>11. CASE Fill(e)
  <2>1. machine("P_FILL") /\ ~(saveEnds) /\ ~loadEnds /\ \A s : ~begins(s)
    BY <1>11 DEF Fill, machine, loadEnds, saveEnds, begins
  <2>2. CASE TRUE
    <3>1. successor = "P_FILL2"
      BY <2>1, <2>2 DEF machine, successor, begins
    <3>2. /\ fsm'.pst = "P_FILL2" /\ fsm'.save_addr = fsm.pcnt
          /\ fsm'.rd = e.rd /\ fsm'.wr_req = e.wr_req /\ fsm'.load_wr = e.load_wr
          /\ fsm'.ena = e.ena /\ fsm'.dirty = e.dirty /\ fsm'.rst_after = e.rst_after
          /\ fsm'.load_pending = e.load_pending /\ fsm'.flush_pending = e.flush_pending
          /\ fsm'.late_load = e.late_load /\ fsm'.ready = e.ready
          /\ fsm'.force_reset = e.force_reset /\ fsm'.old_pack = e.old_pack
          /\ fsm'.load_addr = e.load_addr /\ fsm'.load_data = e.load_data /\ fsm'.pcnt = e.pcnt
          /\ fsm'.rst_hold = e.rst_hold
      <4>1. fsm' = [e EXCEPT !.save_addr = fsm.pcnt, !.pst = "P_FILL2"]
        BY <1>1, <1>4, <1>11, <2>1, <2>2 DEF Fill, Taken, machine, Fields, Flags, Registers
      <4> QED
        BY <1>1, <2>1, <4>1 DEF Taken, machine, Fields, Flags, Registers
    <3>3. FlagMoves(mount, osd, backstop)
      BY <1>1, <1>3, <2>1, <2>2, <3>1, <3>2 DEF machine, Taken, FlagMoves, Flags, Registers
    <3>4. PortMoves
      BY <1>1, <1>3, <2>1, <2>2, <3>1, <3>2 DEF machine, Taken, PortMoves
    <3> QED
      BY <3>3, <3>4
  <2> QED
    BY <2>2
<1>12. CASE FillWait(e)
  <2>1. machine("P_FILL2") /\ ~(saveEnds) /\ ~loadEnds /\ \A s : ~begins(s)
    BY <1>12 DEF FillWait, machine, loadEnds, saveEnds, begins
  <2>2. CASE TRUE
    <3>1. successor = "P_FILL3"
      BY <2>1, <2>2 DEF machine, successor, begins
    <3>2. /\ fsm'.pst = "P_FILL3"
          /\ fsm'.rd = e.rd /\ fsm'.wr_req = e.wr_req /\ fsm'.load_wr = e.load_wr
          /\ fsm'.ena = e.ena /\ fsm'.dirty = e.dirty /\ fsm'.rst_after = e.rst_after
          /\ fsm'.load_pending = e.load_pending /\ fsm'.flush_pending = e.flush_pending
          /\ fsm'.late_load = e.late_load /\ fsm'.ready = e.ready
          /\ fsm'.force_reset = e.force_reset /\ fsm'.old_pack = e.old_pack
          /\ fsm'.load_addr = e.load_addr /\ fsm'.load_data = e.load_data /\ fsm'.pcnt = e.pcnt
          /\ fsm'.rst_hold = e.rst_hold /\ fsm'.save_addr = e.save_addr
      <4>1. fsm' = [e EXCEPT !.pst = "P_FILL3"]
        BY <1>1, <1>4, <1>12, <2>1, <2>2 DEF FillWait, Taken, machine, Fields, Flags, Registers
      <4> QED
        BY <1>1, <2>1, <4>1 DEF Taken, machine, Fields, Flags, Registers
    <3>3. FlagMoves(mount, osd, backstop)
      BY <1>1, <1>3, <2>1, <2>2, <3>1, <3>2 DEF machine, Taken, FlagMoves, Flags, Registers
    <3>4. PortMoves
      BY <1>1, <1>3, <2>1, <2>2, <3>1, <3>2 DEF machine, Taken, PortMoves
    <3> QED
      BY <3>3, <3>4
  <2> QED
    BY <2>2
<1>13. CASE FillNext(e)
  <2>1. machine("P_FILL3") /\ ~(saveEnds) /\ ~loadEnds /\ \A s : ~begins(s)
    BY <1>13 DEF FillNext, machine, loadEnds, saveEnds, begins
  <2>2. CASE lastByte
    <3>1. successor = "P_SV_WR"
      BY <2>1, <2>2 DEF machine, successor, begins
    <3>2. /\ fsm'.pst = "P_SV_WR"
          /\ fsm'.rd = e.rd /\ fsm'.wr_req = e.wr_req /\ fsm'.load_wr = e.load_wr
          /\ fsm'.ena = e.ena /\ fsm'.dirty = e.dirty /\ fsm'.rst_after = e.rst_after
          /\ fsm'.load_pending = e.load_pending /\ fsm'.flush_pending = e.flush_pending
          /\ fsm'.late_load = e.late_load /\ fsm'.ready = e.ready
          /\ fsm'.force_reset = e.force_reset /\ fsm'.old_pack = e.old_pack
          /\ fsm'.load_addr = e.load_addr /\ fsm'.load_data = e.load_data /\ fsm'.pcnt = e.pcnt
          /\ fsm'.rst_hold = e.rst_hold /\ fsm'.save_addr = e.save_addr
      <4>1. fsm' = [e EXCEPT !.pst = "P_SV_WR"]
        BY <1>1, <1>4, <1>13, <2>1, <2>2 DEF FillNext, Taken, machine, Fields, Flags, Registers, lastByte
      <4> QED
        BY <1>1, <2>1, <4>1 DEF Taken, machine, Fields, Flags, Registers
    <3>3. FlagMoves(mount, osd, backstop)
      BY <1>1, <1>3, <2>1, <2>2, <3>1, <3>2 DEF machine, Taken, FlagMoves, Flags, Registers
    <3>4. PortMoves
      BY <1>1, <1>3, <2>1, <2>2, <3>1, <3>2 DEF machine, Taken, PortMoves
    <3> QED
      BY <3>3, <3>4
  <2>3. CASE ~lastByte
    <3>1. successor = "P_FILL"
      BY <2>1, <2>3 DEF machine, successor, begins
    <3>2. /\ fsm'.pst = "P_FILL" /\ fsm'.pcnt = fsm.pcnt + 1
          /\ fsm'.rd = e.rd /\ fsm'.wr_req = e.wr_req /\ fsm'.load_wr = e.load_wr
          /\ fsm'.ena = e.ena /\ fsm'.dirty = e.dirty /\ fsm'.rst_after = e.rst_after
          /\ fsm'.load_pending = e.load_pending /\ fsm'.flush_pending = e.flush_pending
          /\ fsm'.late_load = e.late_load /\ fsm'.ready = e.ready
          /\ fsm'.force_reset = e.force_reset /\ fsm'.old_pack = e.old_pack
          /\ fsm'.load_addr = e.load_addr /\ fsm'.load_data = e.load_data
          /\ fsm'.rst_hold = e.rst_hold /\ fsm'.save_addr = e.save_addr
      <4>1. fsm' = [e EXCEPT !.pcnt = fsm.pcnt + 1, !.pst = "P_FILL"]
        BY <1>1, <1>4, <1>13, <2>1, <2>3 DEF FillNext, Taken, machine, Fields, Flags, Registers, lastByte
      <4> QED
        BY <1>1, <2>1, <4>1 DEF Taken, machine, Fields, Flags, Registers
    <3>3. FlagMoves(mount, osd, backstop)
      BY <1>1, <1>3, <2>1, <2>3, <3>1, <3>2 DEF machine, Taken, FlagMoves, Flags, Registers
    <3>4. PortMoves
      BY <1>1, <1>3, <2>1, <2>3, <3>1, <3>2 DEF machine, Taken, PortMoves
    <3> QED
      BY <3>3, <3>4
  <2> QED
    BY <2>2, <2>3
<1>14. CASE SaveRequest(e)
  <2>1. machine("P_SV_WR") /\ ~(saveEnds) /\ ~loadEnds /\ \A s : ~begins(s)
    BY <1>14 DEF SaveRequest, machine, loadEnds, saveEnds, begins
  <2>2. CASE pram_ack
    <3>1. successor = "P_SV_DAT"
      BY <2>1, <2>2 DEF machine, successor, begins
    <3>2. /\ fsm'.pst = "P_SV_DAT" /\ fsm'.wr_req = FALSE
          /\ fsm'.rd = e.rd /\ fsm'.load_wr = e.load_wr /\ fsm'.ena = e.ena /\ fsm'.dirty = e.dirty
          /\ fsm'.rst_after = e.rst_after /\ fsm'.load_pending = e.load_pending
          /\ fsm'.flush_pending = e.flush_pending /\ fsm'.late_load = e.late_load
          /\ fsm'.ready = e.ready /\ fsm'.force_reset = e.force_reset /\ fsm'.old_pack = e.old_pack
          /\ fsm'.load_addr = e.load_addr /\ fsm'.load_data = e.load_data /\ fsm'.pcnt = e.pcnt
          /\ fsm'.rst_hold = e.rst_hold /\ fsm'.save_addr = e.save_addr
      <4>1. fsm' = [e EXCEPT !.wr_req = FALSE, !.pst = "P_SV_DAT"]
        BY <1>1, <1>4, <1>14, <2>1, <2>2 DEF SaveRequest, Taken, machine, Fields, Flags, Registers
      <4> QED
        BY <1>1, <2>1, <4>1 DEF Taken, machine, Fields, Flags, Registers
    <3>3. FlagMoves(mount, osd, backstop)
      BY <1>1, <1>3, <2>1, <2>2, <3>1, <3>2 DEF machine, Taken, FlagMoves, Flags, Registers
    <3>4. PortMoves
      BY <1>1, <1>3, <2>1, <2>2, <3>1, <3>2 DEF machine, Taken, PortMoves
    <3> QED
      BY <3>3, <3>4
  <2>3. CASE ~pram_ack
    <3>1. successor = "P_SV_WR"
      BY <2>1, <2>3 DEF machine, successor, begins
    <3>2. /\ fsm'.pst = "P_SV_WR" /\ fsm'.wr_req = TRUE
          /\ fsm'.rd = e.rd /\ fsm'.load_wr = e.load_wr /\ fsm'.ena = e.ena /\ fsm'.dirty = e.dirty
          /\ fsm'.rst_after = e.rst_after /\ fsm'.load_pending = e.load_pending
          /\ fsm'.flush_pending = e.flush_pending /\ fsm'.late_load = e.late_load
          /\ fsm'.ready = e.ready /\ fsm'.force_reset = e.force_reset /\ fsm'.old_pack = e.old_pack
          /\ fsm'.load_addr = e.load_addr /\ fsm'.load_data = e.load_data /\ fsm'.pcnt = e.pcnt
          /\ fsm'.rst_hold = e.rst_hold /\ fsm'.save_addr = e.save_addr
      <4>1. fsm' = [e EXCEPT !.wr_req = TRUE, !.pst = "P_SV_WR"]
        BY <1>1, <1>4, <1>14, <2>1, <2>3 DEF SaveRequest, Taken, machine, Fields, Flags, Registers
      <4> QED
        BY <1>1, <2>1, <4>1 DEF Taken, machine, Fields, Flags, Registers
    <3>3. FlagMoves(mount, osd, backstop)
      BY <1>1, <1>3, <2>1, <2>3, <3>1, <3>2 DEF machine, Taken, FlagMoves, Flags, Registers
    <3>4. PortMoves
      BY <1>1, <1>3, <2>1, <2>3, <3>1, <3>2 DEF machine, Taken, PortMoves
    <3> QED
      BY <3>3, <3>4
  <2> QED
    BY <2>2, <2>3
<1>15. CASE SaveData(e)
  <2>1. machine("P_SV_DAT") /\ ~(loadEnds) /\ \A s : ~begins(s)
    BY <1>15 DEF SaveData, machine, loadEnds, saveEnds, begins
  <2>2. CASE ~windowEnds
    <3>1. successor = "P_SV_DAT"
      BY <2>1, <2>2 DEF machine, successor, begins
    <3>2. /\ fsm'.pst = "P_SV_DAT"
          /\ fsm'.rd = e.rd /\ fsm'.wr_req = e.wr_req /\ fsm'.load_wr = e.load_wr
          /\ fsm'.ena = e.ena /\ fsm'.dirty = e.dirty /\ fsm'.rst_after = e.rst_after
          /\ fsm'.load_pending = e.load_pending /\ fsm'.flush_pending = e.flush_pending
          /\ fsm'.late_load = e.late_load /\ fsm'.ready = e.ready
          /\ fsm'.force_reset = e.force_reset /\ fsm'.old_pack = e.old_pack
          /\ fsm'.load_addr = e.load_addr /\ fsm'.load_data = e.load_data /\ fsm'.pcnt = e.pcnt
          /\ fsm'.rst_hold = e.rst_hold /\ fsm'.save_addr = e.save_addr
      BY <1>1, <1>4, <1>15, <2>1, <2>2 DEF SaveData, Taken, machine, Fields, Flags, Registers
    <3>3. FlagMoves(mount, osd, backstop)
      BY <1>1, <1>3, <2>1, <2>2, <3>1, <3>2 DEF machine, Taken, FlagMoves, Flags, Registers, saveEnds
    <3>4. PortMoves
      BY <1>1, <1>3, <2>1, <2>2, <3>1, <3>2 DEF machine, Taken, PortMoves
    <3> QED
      BY <3>3, <3>4
  <2>3. CASE windowEnds /\ fsm.rst_after
    <3>1. successor = "P_RST"
      BY <2>1, <2>3 DEF machine, successor, begins
    <3>2. /\ fsm'.pst = "P_RST" /\ fsm'.dirty = FALSE /\ fsm'.rst_after = FALSE
          /\ fsm'.rd = e.rd /\ fsm'.wr_req = e.wr_req /\ fsm'.load_wr = e.load_wr
          /\ fsm'.ena = e.ena /\ fsm'.load_pending = e.load_pending
          /\ fsm'.flush_pending = e.flush_pending /\ fsm'.late_load = e.late_load
          /\ fsm'.ready = e.ready /\ fsm'.force_reset = e.force_reset /\ fsm'.old_pack = e.old_pack
          /\ fsm'.load_addr = e.load_addr /\ fsm'.load_data = e.load_data /\ fsm'.pcnt = e.pcnt
          /\ fsm'.rst_hold = e.rst_hold /\ fsm'.save_addr = e.save_addr
      <4>1. fsm' = [e EXCEPT !.dirty = FALSE, !.rst_after = FALSE, !.pst = "P_RST"]
        BY <1>1, <1>4, <1>15, <2>1, <2>3 DEF SaveData, Taken, machine, Fields, Flags, Registers
      <4> QED
        BY <1>1, <2>1, <4>1 DEF Taken, machine, Fields, Flags, Registers
    <3>3. FlagMoves(mount, osd, backstop)
      BY <1>1, <1>3, <2>1, <2>3, <3>1, <3>2 DEF machine, Taken, FlagMoves, Flags, Registers, saveEnds
    <3>4. PortMoves
      BY <1>1, <1>3, <2>1, <2>3, <3>1, <3>2 DEF machine, Taken, PortMoves
    <3> QED
      BY <3>3, <3>4
  <2>4. CASE windowEnds /\ ~fsm.rst_after
    <3>1. successor = "P_IDLE"
      BY <2>1, <2>4 DEF machine, successor, begins
    <3>2. /\ fsm'.pst = "P_IDLE" /\ fsm'.dirty = FALSE /\ fsm'.rst_after = FALSE
          /\ fsm'.rd = e.rd /\ fsm'.wr_req = e.wr_req /\ fsm'.load_wr = e.load_wr
          /\ fsm'.ena = e.ena /\ fsm'.load_pending = e.load_pending
          /\ fsm'.flush_pending = e.flush_pending /\ fsm'.late_load = e.late_load
          /\ fsm'.ready = e.ready /\ fsm'.force_reset = e.force_reset /\ fsm'.old_pack = e.old_pack
          /\ fsm'.load_addr = e.load_addr /\ fsm'.load_data = e.load_data /\ fsm'.pcnt = e.pcnt
          /\ fsm'.rst_hold = e.rst_hold /\ fsm'.save_addr = e.save_addr
      <4>1. fsm' = [e EXCEPT !.dirty = FALSE, !.rst_after = FALSE, !.pst = "P_IDLE"]
        BY <1>1, <1>4, <1>15, <2>1, <2>4 DEF SaveData, Taken, machine, Fields, Flags, Registers
      <4> QED
        BY <1>1, <2>1, <4>1 DEF Taken, machine, Fields, Flags, Registers
    <3>3. FlagMoves(mount, osd, backstop)
      BY <1>1, <1>3, <2>1, <2>4, <3>1, <3>2 DEF machine, Taken, FlagMoves, Flags, Registers, saveEnds
    <3>4. PortMoves
      BY <1>1, <1>3, <2>1, <2>4, <3>1, <3>2 DEF machine, Taken, PortMoves
    <3> QED
      BY <3>3, <3>4
  <2> QED
    BY <2>2, <2>3, <2>4
<1>16. CASE Clear(e)
  <2>1. machine("P_CLR") /\ ~(saveEnds) /\ ~loadEnds /\ \A s : ~begins(s)
    BY <1>16 DEF Clear, machine, loadEnds, saveEnds, begins
  <2>2. CASE ~lastByte
    <3>1. successor = "P_CLR"
      BY <2>1, <2>2 DEF machine, successor, begins
    <3>2. /\ fsm'.pst = "P_CLR" /\ fsm'.load_wr = TRUE /\ fsm'.load_addr = fsm.pcnt /\ fsm'.load_data = 0 /\ fsm'.pcnt = fsm.pcnt + 1
          /\ fsm'.rd = e.rd /\ fsm'.wr_req = e.wr_req /\ fsm'.ena = e.ena /\ fsm'.dirty = e.dirty
          /\ fsm'.rst_after = e.rst_after /\ fsm'.load_pending = e.load_pending
          /\ fsm'.flush_pending = e.flush_pending /\ fsm'.late_load = e.late_load
          /\ fsm'.ready = e.ready /\ fsm'.force_reset = e.force_reset /\ fsm'.old_pack = e.old_pack
          /\ fsm'.rst_hold = e.rst_hold /\ fsm'.save_addr = e.save_addr
      <4>1. fsm' = [e EXCEPT !.load_wr = TRUE, !.load_addr = fsm.pcnt, !.load_data = 0, !.pcnt = fsm.pcnt + 1, !.pst = "P_CLR"]
        BY <1>1, <1>4, <1>16, <2>1, <2>2 DEF Clear, Taken, machine, Fields, Flags, Registers, lastByte
      <4> QED
        BY <1>1, <2>1, <4>1 DEF Taken, machine, Fields, Flags, Registers
    <3>3. FlagMoves(mount, osd, backstop)
      BY <1>1, <1>3, <2>1, <2>2, <3>1, <3>2 DEF machine, Taken, FlagMoves, Flags, Registers
    <3>4. PortMoves
      BY <1>1, <1>3, <2>1, <2>2, <3>1, <3>2 DEF machine, Taken, PortMoves
    <3> QED
      BY <3>3, <3>4
  <2>3. CASE lastByte /\ fsm.ena
    <3>1. successor = "P_SV_WR"
      BY <2>1, <2>3 DEF machine, successor, begins
    <3>2. /\ fsm'.pst = "P_SV_WR" /\ fsm'.load_wr = TRUE /\ fsm'.load_addr = fsm.pcnt /\ fsm'.load_data = 0 /\ fsm'.rst_after = TRUE
          /\ fsm'.rd = e.rd /\ fsm'.wr_req = e.wr_req /\ fsm'.ena = e.ena /\ fsm'.dirty = e.dirty
          /\ fsm'.load_pending = e.load_pending /\ fsm'.flush_pending = e.flush_pending
          /\ fsm'.late_load = e.late_load /\ fsm'.ready = e.ready
          /\ fsm'.force_reset = e.force_reset /\ fsm'.old_pack = e.old_pack
          /\ fsm'.pcnt = e.pcnt /\ fsm'.rst_hold = e.rst_hold /\ fsm'.save_addr = e.save_addr
      <4>1. fsm' = [e EXCEPT !.load_wr = TRUE, !.load_addr = fsm.pcnt, !.load_data = 0, !.rst_after = TRUE, !.pst = "P_SV_WR"]
        BY <1>1, <1>4, <1>16, <2>1, <2>3 DEF Clear, Taken, machine, Fields, Flags, Registers, lastByte
      <4> QED
        BY <1>1, <2>1, <4>1 DEF Taken, machine, Fields, Flags, Registers
    <3>3. FlagMoves(mount, osd, backstop)
      BY <1>1, <1>3, <2>1, <2>3, <3>1, <3>2 DEF machine, Taken, FlagMoves, Flags, Registers
    <3>4. PortMoves
      BY <1>1, <1>3, <2>1, <2>3, <3>1, <3>2 DEF machine, Taken, PortMoves
    <3> QED
      BY <3>3, <3>4
  <2>4. CASE lastByte /\ ~fsm.ena
    <3>1. successor = "P_RST"
      BY <2>1, <2>4 DEF machine, successor, begins
    <3>2. /\ fsm'.pst = "P_RST" /\ fsm'.load_wr = TRUE /\ fsm'.load_addr = fsm.pcnt /\ fsm'.load_data = 0
          /\ fsm'.rd = e.rd /\ fsm'.wr_req = e.wr_req /\ fsm'.ena = e.ena /\ fsm'.dirty = e.dirty
          /\ fsm'.rst_after = e.rst_after /\ fsm'.load_pending = e.load_pending
          /\ fsm'.flush_pending = e.flush_pending /\ fsm'.late_load = e.late_load
          /\ fsm'.ready = e.ready /\ fsm'.force_reset = e.force_reset /\ fsm'.old_pack = e.old_pack
          /\ fsm'.pcnt = e.pcnt /\ fsm'.rst_hold = e.rst_hold /\ fsm'.save_addr = e.save_addr
      <4>1. fsm' = [e EXCEPT !.load_wr = TRUE, !.load_addr = fsm.pcnt, !.load_data = 0, !.pst = "P_RST"]
        BY <1>1, <1>4, <1>16, <2>1, <2>4 DEF Clear, Taken, machine, Fields, Flags, Registers, lastByte
      <4> QED
        BY <1>1, <2>1, <4>1 DEF Taken, machine, Fields, Flags, Registers
    <3>3. FlagMoves(mount, osd, backstop)
      BY <1>1, <1>3, <2>1, <2>4, <3>1, <3>2 DEF machine, Taken, FlagMoves, Flags, Registers
    <3>4. PortMoves
      BY <1>1, <1>3, <2>1, <2>4, <3>1, <3>2 DEF machine, Taken, PortMoves
    <3> QED
      BY <3>3, <3>4
  <2> QED
    BY <2>2, <2>3, <2>4
<1>17. CASE AskReset(e)
  <2>1. machine("P_RST") /\ ~(saveEnds) /\ ~loadEnds /\ \A s : ~begins(s)
    BY <1>17 DEF AskReset, machine, loadEnds, saveEnds, begins
  <2>2. CASE TRUE
    <3>1. successor = "P_IDLE"
      BY <2>1, <2>2 DEF machine, successor, begins
    <3>2. /\ fsm'.pst = "P_IDLE" /\ fsm'.force_reset = TRUE /\ fsm'.rst_hold = Hold
          /\ fsm'.rd = e.rd /\ fsm'.wr_req = e.wr_req /\ fsm'.load_wr = e.load_wr
          /\ fsm'.ena = e.ena /\ fsm'.dirty = e.dirty /\ fsm'.rst_after = e.rst_after
          /\ fsm'.load_pending = e.load_pending /\ fsm'.flush_pending = e.flush_pending
          /\ fsm'.late_load = e.late_load /\ fsm'.ready = e.ready /\ fsm'.old_pack = e.old_pack
          /\ fsm'.load_addr = e.load_addr /\ fsm'.load_data = e.load_data /\ fsm'.pcnt = e.pcnt
          /\ fsm'.save_addr = e.save_addr
      <4>1. fsm' = [e EXCEPT !.force_reset = TRUE, !.rst_hold = Hold, !.pst = "P_IDLE"]
        BY <1>1, <1>4, <1>17, <2>1, <2>2 DEF AskReset, Taken, machine, Fields, Flags, Registers
      <4> QED
        BY <1>1, <2>1, <4>1 DEF Taken, machine, Fields, Flags, Registers
    <3>3. FlagMoves(mount, osd, backstop)
      BY <1>1, <1>3, <2>1, <2>2, <3>1, <3>2 DEF machine, Taken, FlagMoves, Flags, Registers
    <3>4. PortMoves
      BY <1>1, <1>3, <2>1, <2>2, <3>1, <3>2 DEF machine, Taken, PortMoves
    <3> QED
      BY <3>3, <3>4
  <2> QED
    BY <2>2
<1> QED
  BY <1>2, <1>5, <1>6, <1>7, <1>8, <1>9, <1>10, <1>11, <1>12, <1>13, <1>14, <1>15, <1>16, <1>17 DEF Machine

\* One clock, with the machine as the table says.
Step(mount, osd, rf, backstop) ==
  /\ mount \in Files \cup {NoMount}
  /\ {osd, rf, backstop} \subseteq BOOLEAN
  /\ FlagMoves(mount, osd, backstop) /\ PortMoves
  /\ Clk(mount, osd, rf, backstop)

LEMMA NextSteps ==
  ASSUME Shape, Next
  PROVE  \E mount, osd, rf, backstop : Step(mount, osd, rf, backstop)
<1>1. PICK mount \in Files \cup {NoMount}, osd \in BOOLEAN, rf \in BOOLEAN, backstop \in BOOLEAN :
        Clk(mount, osd, rf, backstop)
  BY DEF Next
<1>2. FlagMoves(mount, osd, backstop) /\ PortMoves
  BY <1>1, MachineMoves DEF Clk
<1> QED
  BY <1>1, <1>2 DEF Step

LEMMA Typed ==
  ASSUME Shape
  PROVE  /\ fsm.pst \in States /\ fsm.pcnt \in Addr /\ fsm.load_addr \in Addr
         /\ {fsm.rd, fsm.wr_req, fsm.load_wr, fsm.ena, fsm.dirty, fsm.rst_after, fsm.load_pending,
             fsm.flush_pending, fsm.clr_pending, fsm.late_load, fsm.ready, fsm.force_reset,
             fsm.old_pack} \subseteq BOOLEAN
BY DEF Shape, TypeOK, Flags

LEMMA NoMountIsNone == NoMount \notin Files
BY PramAssumption DEF Files

--------------------------------------------------------------------------------
(* The reset pulse *)

LEMMA PulseLong ==
  ASSUME NEW n \in Nat, NEW h \in Nat, h + 1 >= n, NEW t \in 0 .. n - 1, t # 0
  PROVE  n - t <= h
OBVIOUS

LEMMA StepPulse ==
  ASSUME Shape, PulseCovers, NEW mount, NEW osd, NEW rf, NEW backstop, Step(mount, osd, rf, backstop)
  PROVE  /\ PulseCovers'
         /\ fsm.force_reset /\ ~fsm'.force_reset => ~n_reset'
<1>1. /\ Tick \in Nat \ {0} /\ Hold \in Nat /\ Hold + 1 >= Tick
      /\ tick \in 0 .. Tick - 1 /\ fsm.rst_hold \in 0 .. Hold /\ n_reset \in BOOLEAN
      /\ fsm.force_reset \in BOOLEAN
  BY PramAssumption, Typed DEF Shape, TypeOK
<1>2. /\ tick' = (tick + 1) % Tick
      /\ tick # 0 => n_reset' = n_reset
      /\ tick = 0 /\ fsm.force_reset => ~n_reset'
  BY DEF Step, Clk, Release, held
<1>3. /\ fsm'.force_reset = (machine("P_RST") \/ (fsm.force_reset /\ fsm.rst_hold # 0))
      /\ fsm'.rst_hold = IF machine("P_RST") THEN Hold
                         ELSE IF fsm.force_reset /\ fsm.rst_hold # 0 THEN fsm.rst_hold - 1 ELSE fsm.rst_hold
  BY DEF Step, FlagMoves
<1>4. fsm.force_reset /\ n_reset => tick = 0 \/ Tick - tick <= fsm.rst_hold
  BY DEF PulseCovers
<1>5. tick' \in 0 .. Tick - 1 /\ (tick' = 0 \/ tick' = tick + 1)
  BY <1>1, <1>2
<1>6. fsm'.force_reset /\ n_reset' => tick' = 0 \/ Tick - tick' <= fsm'.rst_hold
  <2>1. CASE machine("P_RST")
    <3>1. fsm'.rst_hold = Hold
      BY <1>3, <2>1
    <3>2. tick' # 0 => Tick - tick' <= Hold
      BY <1>1, <1>5, PulseLong
    <3> QED
      BY <3>1, <3>2
  <2>2. CASE ~machine("P_RST") /\ fsm'.force_reset /\ n_reset' /\ tick' # 0
    <3>1. fsm.force_reset /\ fsm'.rst_hold = fsm.rst_hold - 1
      BY <1>3, <2>2
    <3>2. tick # 0 /\ Tick - tick <= fsm.rst_hold
      BY <1>2, <1>4, <2>2, <3>1
    <3>3. tick' = tick + 1
      BY <1>5, <2>2
    <3>4. Tick - tick' <= fsm.rst_hold - 1
      BY <1>1, <3>2, <3>3
    <3> QED
      BY <3>1, <3>4
  <2> QED
    BY <2>1, <2>2
<1>7. fsm.force_reset /\ ~fsm'.force_reset => ~n_reset'
  BY <1>1, <1>2, <1>3, <1>4
<1> QED
  BY <1>6, <1>7 DEF PulseCovers

--------------------------------------------------------------------------------
(* Windows *)

\* hps_io as a table.
lastWord == hps.at = Words - 1
Opens    == /\ hps.window = "closed" /\ (fsm.rd \/ fsm.wr_req)
            /\ hps'.window = (IF fsm.rd THEN "read" ELSE "write") /\ hps'.at = 0
            /\ hps'.strobe = fsm.rd /\ hps'.valid = FALSE /\ file' = file
Streams  == /\ hps.window = "read" /\ hps.strobe /\ hps'.window = "read" /\ file' = file
            /\ hps'.at = (IF lastWord THEN hps.at ELSE hps.at + 1) /\ hps'.strobe = ~lastWord
Settles  == /\ hps.window = "write" /\ ~hps.valid /\ file' = file
            /\ hps'.window = "write" /\ hps'.at = hps.at /\ hps'.valid = TRUE /\ hps'.strobe = hps.strobe
Collects == /\ hps.window = "write" /\ hps.valid
            /\ file' = IF mounted = "none" THEN file ELSE [file EXCEPT ![mounted][hps.at] = pbuf_q]
            /\ IF lastWord THEN hps' = closed
               ELSE /\ hps'.window = "write" /\ hps'.at = hps.at + 1
                    /\ hps'.valid = FALSE /\ hps'.strobe = hps.strobe
Closes   == hps.window = "read" /\ ~hps.strobe /\ hps' = closed /\ file' = file
Waits    == hps.window = "closed" /\ hps' = hps /\ file' = file

LEMMA HpsMoves ==
  ASSUME Shape, Hps
  PROVE  Opens \/ Streams \/ Settles \/ Collects \/ Closes \/ Waits
<1>1. /\ hps \in [window : {"closed", "read", "write"}, at : Index, strobe : BOOLEAN, valid : BOOLEAN]
      /\ Words \in Nat \ {0}
  BY PramAssumption DEF Shape, TypeOK
<1>2. hps.at \in Index /\ (hps.at < Words - 1) = ~lastWord
  BY <1>1 DEF lastWord, Index
<1>3. CASE HpsOpen
  BY <1>1, <1>3 DEF HpsOpen, Opens
<1>4. CASE HpsStream
  <2>1. IF lastWord THEN hps' = [hps EXCEPT !.strobe = FALSE] ELSE hps' = [hps EXCEPT !.at = @ + 1]
    BY <1>2, <1>4 DEF HpsStream
  <2> QED
    BY <1>1, <1>4, <2>1 DEF HpsStream, Streams
<1>5. CASE HpsSettle
  BY <1>1, <1>5 DEF HpsSettle, Settles
<1>6. CASE HpsCollect
  <2>1. IF lastWord THEN hps' = closed ELSE hps' = [hps EXCEPT !.at = @ + 1, !.valid = FALSE]
    BY <1>2, <1>6 DEF HpsCollect
  <2> QED
    BY <1>1, <1>6, <2>1 DEF HpsCollect, Collects
<1>7. CASE HpsClose \/ HpsWait
  BY <1>7 DEF HpsClose, HpsWait, Closes, Waits
<1> QED
  BY <1>3, <1>4, <1>5, <1>6, <1>7 DEF Hps

LEMMA ClosedIs ==
  closed.window = "closed" /\ closed.at = 0 /\ closed.strobe = FALSE /\ closed.valid = FALSE
BY DEF closed

\* Where each state is entered from, and when.
LEMMA Predecessors ==
  ASSUME Shape
  PROVE  /\ (successor = "P_LD_RD") <=> (begins("P_LD_RD") \/ (machine("P_LD_RD") /\ ~pram_ack))
         /\ (successor = "P_LD_DAT") <=> ((machine("P_LD_RD") /\ pram_ack) \/ (machine("P_LD_DAT") /\ ~windowEnds))
         /\ (successor = "P_LD_ADDR") <=> ((machine("P_LD_DAT") /\ windowEnds) \/ (machine("P_LD_B1") /\ ~loadEnds))
         /\ (successor = "P_LD_B0") <=> (machine("P_LD_ADDR"))
         /\ (successor = "P_LD_B1") <=> (machine("P_LD_B0"))
         /\ (successor = "P_FILL") <=> (begins("P_FILL") \/ (machine("P_FILL3") /\ ~lastByte))
         /\ (successor = "P_FILL2") <=> (machine("P_FILL"))
         /\ (successor = "P_FILL3") <=> (machine("P_FILL2"))
         /\ (successor = "P_SV_WR") <=> ((fsm.pst \in {"P_FILL3", "P_CLR"} /\ lastByte /\ (machine("P_FILL3") \/ fsm.ena)) \/ (machine("P_SV_WR") /\ ~pram_ack))
         /\ (successor = "P_SV_DAT") <=> ((machine("P_SV_WR") /\ pram_ack) \/ (machine("P_SV_DAT") /\ ~windowEnds))
         /\ (successor = "P_CLR") <=> (begins("P_CLR") \/ (machine("P_CLR") /\ ~lastByte))
         /\ (successor = "P_RST") <=> ((loadEnds /\ fsm.late_load) \/ (saveEnds /\ fsm.rst_after) \/ (machine("P_CLR") /\ lastByte /\ ~fsm.ena))
         /\ (successor = "P_IDLE") <=> ((loadEnds /\ ~fsm.late_load) \/ (saveEnds /\ ~fsm.rst_after) \/ machine("P_RST") \/ begins("P_IDLE"))
<1>0. fsm.pst \in States
  BY Typed
<1>1. (successor = "P_LD_RD") <=> (begins("P_LD_RD") \/ (machine("P_LD_RD") /\ ~pram_ack))
  BY <1>0 DEF States, machine, successor, begins, loadEnds, saveEnds
<1>2. (successor = "P_LD_DAT") <=> ((machine("P_LD_RD") /\ pram_ack) \/ (machine("P_LD_DAT") /\ ~windowEnds))
  BY <1>0 DEF States, machine, successor, begins, loadEnds, saveEnds
<1>3. (successor = "P_LD_ADDR") <=> ((machine("P_LD_DAT") /\ windowEnds) \/ (machine("P_LD_B1") /\ ~loadEnds))
  BY <1>0 DEF States, machine, successor, begins, loadEnds, saveEnds
<1>4. (successor = "P_LD_B0") <=> (machine("P_LD_ADDR"))
  BY <1>0 DEF States, machine, successor, begins, loadEnds, saveEnds
<1>5. (successor = "P_LD_B1") <=> (machine("P_LD_B0"))
  BY <1>0 DEF States, machine, successor, begins, loadEnds, saveEnds
<1>6. (successor = "P_FILL") <=> (begins("P_FILL") \/ (machine("P_FILL3") /\ ~lastByte))
  BY <1>0 DEF States, machine, successor, begins, loadEnds, saveEnds
<1>7. (successor = "P_FILL2") <=> (machine("P_FILL"))
  BY <1>0 DEF States, machine, successor, begins, loadEnds, saveEnds
<1>8. (successor = "P_FILL3") <=> (machine("P_FILL2"))
  BY <1>0 DEF States, machine, successor, begins, loadEnds, saveEnds
<1>9. (successor = "P_SV_WR") <=> ((fsm.pst \in {"P_FILL3", "P_CLR"} /\ lastByte /\ (machine("P_FILL3") \/ fsm.ena)) \/ (machine("P_SV_WR") /\ ~pram_ack))
  BY <1>0 DEF States, machine, successor, begins, loadEnds, saveEnds
<1>10. (successor = "P_SV_DAT") <=> ((machine("P_SV_WR") /\ pram_ack) \/ (machine("P_SV_DAT") /\ ~windowEnds))
  BY <1>0 DEF States, machine, successor, begins, loadEnds, saveEnds
<1>11. (successor = "P_CLR") <=> (begins("P_CLR") \/ (machine("P_CLR") /\ ~lastByte))
  BY <1>0 DEF States, machine, successor, begins, loadEnds, saveEnds
<1>12. (successor = "P_RST") <=> ((loadEnds /\ fsm.late_load) \/ (saveEnds /\ fsm.rst_after) \/ (machine("P_CLR") /\ lastByte /\ ~fsm.ena))
  BY <1>0 DEF States, machine, successor, begins, loadEnds, saveEnds
<1>13. (successor = "P_IDLE") <=> ((loadEnds /\ ~fsm.late_load) \/ (saveEnds /\ ~fsm.rst_after) \/ machine("P_RST") \/ begins("P_IDLE"))
  BY <1>0 DEF States, machine, successor, begins, loadEnds, saveEnds
<1> QED
  BY <1>1, <1>2, <1>3, <1>4, <1>5, <1>6, <1>7, <1>8, <1>9, <1>10, <1>11, <1>12, <1>13

LEMMA StepHandshake ==
  ASSUME Shape, Handshake, NEW mount, NEW osd, NEW rf, NEW backstop, Step(mount, osd, rf, backstop)
  PROVE  Handshake'
<1>1. /\ fsm.pst \in States /\ {fsm.rd, fsm.wr_req, fsm.load_wr, fsm.old_pack} \subseteq BOOLEAN
      /\ hps.window \in {"closed", "read", "write"} /\ hps.strobe \in BOOLEAN
  BY Typed DEF Shape, TypeOK
<1>2. /\ fsm'.pst = successor /\ fsm'.old_pack = pram_ack
      /\ fsm'.rd = (begins("P_LD_RD") \/ (fsm.rd /\ ~(machine("P_LD_RD") /\ pram_ack)))
      /\ fsm'.wr_req = IF machine("P_SV_WR") THEN ~pram_ack ELSE fsm.wr_req
      /\ fsm'.load_wr = (machine("P_LD_B0") \/ machine("P_LD_B1") \/ machine("P_CLR"))
  BY DEF Step, FlagMoves, PortMoves
<1>3. Opens \/ Streams \/ Settles \/ Collects \/ Closes \/ Waits
  BY HpsMoves DEF Step, Clk
<1>4. fsm'.rd => fsm'.pst = "P_LD_RD"
  BY <1>1, <1>2 DEF Handshake, machine, begins, successor
<1>5. fsm'.wr_req => fsm'.pst = "P_SV_WR"
  BY <1>1, <1>2 DEF Handshake, machine, successor
<1>6. fsm'.pst \in Filling \cup {"P_SV_DAT"} => ~fsm'.load_wr
  BY <1>1, <1>2 DEF machine, successor, Filling
<1>7. hps'.strobe => hps'.window = "read"
  BY <1>1, <1>3, ClosedIs DEF Handshake, Opens, Streams, Settles, Collects, Closes, Waits
<1>8. hps'.window = "read" => fsm'.pst \in Fetching
  <2>1. hps'.window = "read" => (hps.window = "read" \/ (hps.window = "closed" /\ fsm.rd))
    BY <1>1, <1>3, ClosedIs DEF Opens, Streams, Settles, Collects, Closes, Waits
  <2> QED
    BY <1>1, <1>2, <2>1 DEF Handshake, machine, successor, Fetching, pram_ack, windowEnds
<1>9. hps'.window = "write" => fsm'.pst \in Saving
  <2>1. hps'.window = "write" => (hps.window = "write" \/ (hps.window = "closed" /\ ~fsm.rd /\ fsm.wr_req))
    BY <1>1, <1>3, ClosedIs DEF Opens, Streams, Settles, Collects, Closes, Waits
  <2> QED
    BY <1>1, <1>2, <2>1 DEF Handshake, machine, successor, Saving, pram_ack, windowEnds
<1>10. fsm'.pst \in {"P_LD_DAT", "P_SV_DAT"} /\ hps'.window = "closed" => fsm'.old_pack
  <2>1. \/ machine("P_LD_RD") /\ pram_ack
        \/ machine("P_SV_WR") /\ pram_ack
        \/ fsm.pst \in {"P_LD_DAT", "P_SV_DAT"} /\ ~windowEnds
        \/ fsm'.pst \notin {"P_LD_DAT", "P_SV_DAT"}
    BY <1>2, Predecessors DEF machine
  <2>2. fsm.pst \in {"P_LD_DAT", "P_SV_DAT"} /\ ~windowEnds => pram_ack
    BY DEF Handshake, pram_ack, windowEnds
  <2> QED
    BY <1>2, <2>1, <2>2
<1> QED
  BY <1>4, <1>5, <1>6, <1>7, <1>8, <1>9, <1>10 DEF Handshake, machine

--------------------------------------------------------------------------------
(* Late loads and refused disks *)

\* A mount that counts as quiet found the machine at rest, with nothing to do.
LEMMA QuietMoves ==
  ASSUME NEW mount, NEW osd, NEW rf, NEW backstop, Step(mount, osd, rf, backstop)
  PROVE  /\ mount = NoMount => (quiet' => quiet) /\ (live' => live) /\ mounted' = mounted
         /\ mount # NoMount =>
              /\ quiet' => /\ machine("P_IDLE") /\ successor = "P_IDLE"
                           /\ ~fsm.load_pending /\ ~fsm'.flush_pending
              /\ live' => n_reset
              /\ mounted' = mount /\ hps.window = "closed"
<1>1. /\ quiet' = IF mount = NoMount THEN quiet
                  ELSE machine("P_IDLE") /\ fsm'.pst = "P_IDLE" /\ ~fsm.load_pending /\ ~fsm'.flush_pending
      /\ live' = (n_reset' /\ IF mount = NoMount THEN live ELSE n_reset)
  BY DEF Step, Clk, History
<1>2. fsm'.pst = successor
  BY DEF Step, FlagMoves
<1>3. IF mount = NoMount THEN UNCHANGED mounted
      ELSE hps.window = "closed" /\ mounted' = mount
  BY DEF Step, Clk, Mount
<1>4. CASE mount = NoMount
  BY <1>1, <1>3, <1>4
<1>5. CASE mount # NoMount
  BY <1>1, <1>2, <1>3, <1>5
<1> QED
  BY <1>4, <1>5

LEMMA StepLate ==
  ASSUME Shape, LateIsKnown, NEW mount, NEW osd, NEW rf, NEW backstop, Step(mount, osd, rf, backstop)
  PROVE  LateIsKnown'
<1>1. /\ fsm.pst \in States
      /\ {fsm.load_pending, fsm.late_load, fsm.ready, n_reset} \subseteq BOOLEAN
      /\ mount \in Files \cup {NoMount}
  BY Typed DEF Shape, TypeOK, Step
<1>2. /\ fsm'.pst = successor
      /\ fsm'.ready = (fsm.ready \/ mount \in Others \/ backstop \/ loadEnds)
      /\ fsm'.late_load = IF loadEnds THEN FALSE ELSE IF mount \in Nvrs THEN fsm.ready ELSE fsm.late_load
      /\ fsm'.load_pending = ((fsm.load_pending \/ mount \in Nvrs) /\ ~begins("P_LD_RD"))
  BY DEF Step, FlagMoves
<1>3. n_reset' => fsm'.ready
  <2>1. n_reset' => n_reset \/ fsm.ready
    BY <1>1 DEF Step, Clk, Release, held
  <2> QED
    BY <1>1, <1>2, <2>1 DEF LateIsKnown
<1>4. ASSUME quiet', live'
      PROVE  /\ fsm'.pst \in Fetching \cup Storing => ~fsm'.load_pending
             /\ fsm'.load_pending \/ fsm'.pst \in Fetching \cup Storing => fsm'.late_load
  <2>1. CASE mount = NoMount
    <3>1. quiet /\ live /\ mount \notin Nvrs
      BY <1>4, <2>1, QuietMoves, NoMountIsNone DEF Files
    <3>2. fsm'.pst \in Fetching \cup Storing =>
            begins("P_LD_RD") \/ (fsm.pst \in Fetching \cup Storing /\ ~loadEnds)
      BY <1>1, <1>2, Predecessors DEF Fetching, Storing, machine, loadEnds
    <3>3. begins("P_LD_RD") => fsm.load_pending /\ ~loadEnds
      BY DEF begins, successor, machine, loadEnds
    <3>4. loadEnds => ~fsm.load_pending /\ fsm'.pst \notin Fetching \cup Storing
      BY <1>2, <3>1 DEF LateIsKnown, loadEnds, machine, successor, Fetching, Storing
    <3> QED
      BY <1>1, <1>2, <3>1, <3>2, <3>3, <3>4 DEF LateIsKnown
  <2>2. CASE mount # NoMount
    <3>1. machine("P_IDLE") /\ successor = "P_IDLE" /\ ~fsm.load_pending /\ n_reset
      BY <1>4, <2>2, QuietMoves
    <3>2. ~loadEnds /\ fsm'.pst \notin Fetching \cup Storing
      BY <1>2, <3>1 DEF loadEnds, machine, Fetching, Storing
    <3> QED
      BY <1>1, <1>2, <3>1, <3>2 DEF LateIsKnown
  <2> QED
    BY <2>1, <2>2
<1> QED
  BY <1>3, <1>4 DEF LateIsKnown

LEMMA StepRefused ==
  ASSUME Shape, Handshake, Refused, NEW mount, NEW osd, NEW rf, NEW backstop, Step(mount, osd, rf, backstop)
  PROVE  Refused'
<1>1. /\ fsm.pst \in States
      /\ {fsm.load_pending, fsm.flush_pending, fsm.ena, fsm.rst_after} \subseteq BOOLEAN
      /\ mount \in Files \cup {NoMount} /\ Nvrs \cap Others = {}
  BY Typed, PramAssumption DEF Step
<1>2. /\ fsm'.pst = successor
      /\ fsm'.ena = (loadEnds \/ mount \in Nvrs \/ (fsm.ena /\ mount \notin Others))
      /\ fsm'.load_pending = ((fsm.load_pending \/ mount \in Nvrs) /\ ~begins("P_LD_RD"))
      /\ fsm'.flush_pending = ((fsm.flush_pending \/ (osd /\ fsm.dirty /\ fsm.ena)) /\ ~begins("P_FILL"))
  BY DEF Step, FlagMoves
<1>3. SUFFICES ASSUME quiet', mounted' \in Others
      PROVE  /\ ~fsm'.load_pending /\ ~fsm'.flush_pending /\ ~fsm'.ena
             /\ fsm'.pst \in {"P_IDLE", "P_CLR", "P_RST"}
  BY DEF Refused
<1>4. CASE mount = NoMount
  <2>1. /\ ~fsm.load_pending /\ ~fsm.flush_pending /\ ~fsm.ena /\ mount \notin Nvrs
        /\ fsm.pst \in {"P_IDLE", "P_CLR", "P_RST"}
    BY <1>3, <1>4, QuietMoves, NoMountIsNone DEF Files, Refused
  <2>2. ~loadEnds /\ successor \in {"P_IDLE", "P_CLR", "P_RST"}
    BY <2>1 DEF loadEnds, machine, successor
  <2> QED
    BY <1>2, <2>1, <2>2
<1>5. CASE mount # NoMount
  <2>1. /\ machine("P_IDLE") /\ successor = "P_IDLE" /\ ~fsm.load_pending /\ ~fsm'.flush_pending
        /\ mount \in Others /\ mount \notin Nvrs
    BY <1>1, <1>3, <1>5, QuietMoves
  <2>2. ~loadEnds
    BY <2>1 DEF loadEnds, machine
  <2> QED
    BY <1>2, <2>1, <2>2
<1> QED
  BY <1>4, <1>5

ControlInv == Shape /\ Handshake /\ PulseCovers /\ LateIsKnown /\ Refused

LEMMA InitControl == Init => ControlInv
<1> SUFFICES ASSUME Init PROVE ControlInv
  OBVIOUS
<1>1. Shape
  BY InitTypes
<1>2. /\ fsm.pst = "P_IDLE" /\ ~fsm.rd /\ ~fsm.wr_req /\ ~fsm.load_wr /\ ~fsm.force_reset
      /\ ~fsm.load_pending /\ ~fsm.flush_pending /\ ~fsm.ena
  BY DEF Init, Flags, Registers
<1>3. hps.window = "closed" /\ hps.strobe = FALSE /\ n_reset = FALSE /\ live = FALSE
  BY ClosedIs DEF Init
<1> QED
  BY <1>1, <1>2, <1>3 DEF ControlInv, Handshake, PulseCovers, LateIsKnown, Refused, machine, Fetching,
     Storing, Filling

LEMMA StepControl == ControlInv /\ [Next]_vars => ControlInv'
<1> SUFFICES ASSUME ControlInv, [Next]_vars PROVE ControlInv'
  OBVIOUS
<1>1. Shape'
  BY StepTypes DEF ControlInv
<1>2. CASE Next
  <2>1. PICK mount, osd, rf, backstop : Step(mount, osd, rf, backstop)
    BY <1>2, NextSteps DEF ControlInv
  <2> QED
    BY <1>1, <2>1, StepHandshake, StepPulse, StepLate, StepRefused DEF ControlInv
<1>3. CASE UNCHANGED vars
  BY <1>1, <1>3 DEF vars, ramVars, ControlInv, Handshake, PulseCovers, LateIsKnown, Refused, machine
<1> QED
  BY <1>2, <1>3

\* The reset pulse of the load and save machine reaches the Mac, for every rate
\* of clk8_en_p that the pulse is as long as.
THEOREM ResetsAreTaken == Spec => ResetIsTaken
<1>1. ControlInv /\ [Next]_vars => [fsm.force_reset /\ ~fsm'.force_reset => ~n_reset']_vars
  <2> SUFFICES ASSUME ControlInv, Next PROVE fsm.force_reset /\ ~fsm'.force_reset => ~n_reset'
    BY DEF vars
  <2>1. PICK mount, osd, rf, backstop : Step(mount, osd, rf, backstop)
    BY NextSteps DEF ControlInv
  <2> QED
    BY <2>1, StepPulse DEF ControlInv
<1> QED
  BY <1>1, InitControl, StepControl, PTL DEF Spec, ResetIsTaken

\* A load that ends on a Mac which has been running since before the image came
\* goes on to the reset, whatever is mounted, opened or written meanwhile.
THEOREM LateLoadsReboot == Spec => LateLoadReboots
<1>1. ControlInv /\ [Next]_vars => [loadEnds /\ quiet /\ live => fsm'.pst = "P_RST"]_vars
  <2> SUFFICES ASSUME ControlInv, Next, loadEnds, quiet, live PROVE fsm'.pst = "P_RST"
    BY DEF vars
  <2>1. PICK mount, osd, rf, backstop : Step(mount, osd, rf, backstop)
    BY NextSteps DEF ControlInv
  <2>2. fsm.late_load /\ fsm'.pst = successor
    BY <2>1 DEF ControlInv, LateIsKnown, Storing, loadEnds, machine, Step, FlagMoves
  <2> QED
    BY <2>2, Predecessors DEF ControlInv
<1> QED
  BY <1>1, InitControl, StepControl, PTL DEF Spec, LateLoadReboots

\* No step writes the first sector of a disk that was mounted into the slot at
\* rest and refused.
THEOREM RefusedStay == Spec => RefusedIsLeft
<1>1. ControlInv /\ [Next]_vars => [quiet /\ mounted \in Others => file'[mounted] = file[mounted]]_vars
  <2> SUFFICES ASSUME ControlInv, Next, quiet, mounted \in Others PROVE file'[mounted] = file[mounted]
    BY DEF vars
  <2>1. Opens \/ Streams \/ Settles \/ Collects \/ Closes \/ Waits
    BY HpsMoves DEF Next, Clk, ControlInv
  <2>2. hps.window # "write"
    BY DEF ControlInv, Handshake, Refused, Saving
  <2> QED
    BY <2>1, <2>2 DEF Opens, Streams, Settles, Collects, Closes, Waits
<1> QED
  BY <1>1, InitControl, StepControl, PTL DEF Spec, RefusedIsLeft

--------------------------------------------------------------------------------
(* Parameter RAM, staging buffer and image *)

LEMMA Numbers ==
  ASSUME NEW n \in Addr
  PROVE  /\ n \in Nat /\ n \div 2 \in Index /\ n \div 2 \in Nat
         /\ n % 2 = 0 => n = 2 * (n \div 2) /\ (n + 1) \div 2 = n \div 2 /\ (n + 1) % 2 = 1
                         /\ (n + 2) % 2 = 0
         /\ n % 2 = 1 => n = 2 * (n \div 2) + 1 /\ (n + 1) \div 2 = n \div 2 + 1 /\ (n + 1) % 2 = 0
         /\ n % 2 \in {0, 1} /\ (n + 2) \div 2 = n \div 2 + 1
BY PramAssumption DEF Addr, Index

LEMMA Doubles ==
  ASSUME NEW w \in Index
  PROVE  /\ w \in Nat /\ 2 * w \in Addr /\ 2 * w + 1 \in Addr /\ (2 * w) \div 2 = w
         /\ \A v \in Index : /\ 2 * w = 2 * v <=> w = v
                             /\ 2 * w + 1 = 2 * v + 1 <=> w = v
                             /\ 2 * w # 2 * v + 1
BY PramAssumption DEF Addr, Index

\* A clock in which the Mac does not write lands the machine's write, and what
\* the machine writes next is on its way.
LEMMA LandedMoves ==
  ASSUME Shape, NEW mount, NEW osd, NEW rf, NEW backstop, Step(mount, osd, rf, backstop), ~ser.we
  PROVE  /\ \A a \in Addr : /\ pram'[a] = landed(a)
                            /\ landed(a)' = IF fsm'.load_wr /\ fsm'.load_addr = a THEN fsm'.load_data
                                            ELSE landed(a)
         /\ save_q' = pram[bAddr]
<1>1. Memory
  BY DEF Step, Clk
<1>2. \A a : ~serAt(a)
  BY DEF serAt
<1>3. \A a \in Addr : pram'[a] = landed(a)
  BY <1>1, <1>2 DEF Memory, landed
<1>4. save_q' = pram[bAddr]
  BY <1>1, <1>2 DEF Memory
<1>5. ASSUME NEW a \in Addr
      PROVE landed(a)' = IF fsm'.load_wr /\ fsm'.load_addr = a THEN fsm'.load_data ELSE landed(a)
  BY <1>3 DEF landed, loadAt
<1> QED
  BY <1>3, <1>4, <1>5

\* An operation that nothing has raced so far: the Mac does not write now.
LEMMA RacedMoves ==
  ASSUME NEW mount, NEW osd, NEW rf, NEW backstop, Step(mount, osd, rf, backstop), raced' = "nothing"
  PROVE  /\ ~machine("P_IDLE") => raced = "nothing" /\ ~ser.we
         /\ machine("P_IDLE") /\ successor # "P_IDLE" => ~ser.we
         /\ machine("P_IDLE") /\ successor = "P_IDLE" => raced = "nothing"
<1>1. /\ raced' = CASE ~machine("P_IDLE")                       -> IF ser.we THEN meets(fsm.pst) ELSE raced
                    [] machine("P_IDLE") /\ fsm'.pst = "P_IDLE" -> raced
                    [] OTHER                                    -> meets(fsm'.pst)
      /\ fsm'.pst = successor
  BY DEF Step, Clk, History, FlagMoves
<1> QED
  BY <1>1 DEF meets

LEMMA FreshMoves ==
  ASSUME Shape, NEW mount, NEW osd, NEW rf, NEW backstop, Step(mount, osd, rf, backstop), fresh'
  PROVE  begins("P_LD_RD") \/ (fresh /\ mount = NoMount /\ mounted' = mounted)
<1>1. /\ fsm'.load_pending = ((fsm.load_pending \/ mount \in Nvrs) /\ ~begins("P_LD_RD"))
      /\ fsm.load_pending \in BOOLEAN
  BY Typed DEF Step, FlagMoves
<1>2. /\ mount = NoMount => mounted' = mounted
      /\ mount # NoMount => mounted' = mount
  BY QuietMoves
<1>3. mounted' \in Nvrs /\ ~fsm'.load_pending
  BY DEF fresh
<1>4. mount \in Nvrs => begins("P_LD_RD")
  BY <1>1, <1>3
<1>5. mount # NoMount => begins("P_LD_RD")
  BY <1>2, <1>3, <1>4
<1> QED
  BY <1>1, <1>2, <1>3, <1>5 DEF fresh

\* The staging buffer's write port as a table.
LEMMA BufferMoves ==
  ASSUME Shape, Handshake, NEW mount, NEW osd, NEW rf, NEW backstop, Step(mount, osd, rf, backstop)
  PROVE  /\ hps.strobe => fsm.pst \in Fetching /\ buf' = [buf EXCEPT ![hps.at] = file[mounted][hps.at]]
         /\ machine("P_FILL3") => buf' = IF fsm.pcnt % 2 = 1
                                         THEN [buf EXCEPT ![fsm.pcnt \div 2] = <<fill_lo, save_q>>] ELSE buf
         /\ machine("P_CLR")   => buf' = [buf EXCEPT ![fsm.pcnt \div 2] = Zero]
         /\ ~hps.strobe /\ ~machine("P_FILL3") /\ ~machine("P_CLR") => buf' = buf
<1>1. /\ BufferWrite
      /\ hps.strobe \in BOOLEAN
  BY DEF Step, Clk, Buffer, Shape, TypeOK
<1>2. hps.strobe => fsm.pst \in Fetching
  BY DEF Handshake
<1>3. hps.strobe => buf' = [buf EXCEPT ![hps.at] = file[mounted][hps.at]]
  BY <1>1, <1>2 DEF BufferWrite, machine, Fetching
<1>4. ~hps.strobe =>
        buf' = CASE machine("P_FILL3") /\ fsm.pcnt % 2 = 1 -> [buf EXCEPT ![fsm.pcnt \div 2] = <<fill_lo, save_q>>]
                 [] machine("P_CLR") -> [buf EXCEPT ![fsm.pcnt \div 2] = Zero]
                 [] OTHER -> buf
  BY <1>1 DEF BufferWrite
<1>5. machine("P_FILL3") \/ machine("P_CLR") => ~hps.strobe
  BY <1>2 DEF machine, Fetching
<1> QED
  BY <1>2, <1>3, <1>4, <1>5 DEF machine

\* Outside of saves no file changes, and only a fetch has a read window.
LEMMA FileStays ==
  ASSUME Shape, Handshake, NEW mount, NEW osd, NEW rf, NEW backstop, Step(mount, osd, rf, backstop)
  PROVE  /\ hps.window # "write" => file' = file
         /\ hps.window # "closed" => mount = NoMount /\ mounted' = mounted
         /\ fsm.pst \notin Fetching \cup Saving => hps.window = "closed" /\ ~hps.strobe
<1>1. Opens \/ Streams \/ Settles \/ Collects \/ Closes \/ Waits
  BY HpsMoves DEF Step, Clk
<1>2. hps.window \in {"closed", "read", "write"}
  BY DEF Shape, TypeOK
<1> QED
  BY <1>1, <1>2, QuietMoves DEF Opens, Streams, Settles, Collects, Closes, Waits, Handshake

LEMMA StepFetched ==
  ASSUME Shape, Handshake, Fetched, NEW mount, NEW osd, NEW rf, NEW backstop,
         Step(mount, osd, rf, backstop), Handshake'
  PROVE  Fetched'
<1> SUFFICES ASSUME fresh'
             PROVE  /\ hps'.window = "read" => copied(IF hps.strobe THEN hps.at ELSE Words)'
                    /\ fsm'.pst = "P_LD_DAT" /\ hps'.window = "closed" => copied(Words)'
                    /\ fsm'.pst \in Storing => copied(Words)'
  BY DEF Fetched, machine
<1>1. /\ Opens \/ Streams \/ Settles \/ Collects \/ Closes \/ Waits
      /\ fsm'.pst = successor
  BY HpsMoves DEF Step, Clk, FlagMoves
<1>2. /\ hps.window \in {"closed", "read", "write"} /\ hps.strobe \in BOOLEAN /\ hps.at \in Index
      /\ fsm.pst \in States /\ fsm.rd \in BOOLEAN /\ Words \in Nat \ {0}
      /\ buf \in [Index -> Values \X Values]
  BY Typed, PramAssumption DEF Shape, TypeOK
<1>3. CASE begins("P_LD_RD")
  <2>1. machine("P_IDLE") /\ fsm'.pst = "P_LD_RD" /\ ~fsm.rd /\ ~fsm.wr_req /\ hps.window = "closed"
    BY <1>1, <1>2, <1>3, FileStays DEF begins, machine, Handshake, Fetching, Saving
  <2>2. hps'.window = "closed"
    BY <1>1, <2>1 DEF Opens, Streams, Settles, Collects, Closes, Waits
  <2> QED
    BY <2>1, <2>2 DEF Storing
<1>4. CASE fresh /\ mounted' = mounted /\ ~begins("P_LD_RD")
  <2>1. CASE fsm.pst \in Saving
    <3>1. fsm'.pst \notin Fetching \cup Storing
      BY <1>1, <2>1 DEF successor, machine, Saving, Fetching, Storing
    <3> QED
      BY <3>1 DEF Handshake, Fetching
  <2>2. CASE fsm.pst \notin Saving
    <3>1. hps.window # "write" /\ file' = file
      BY <2>2, FileStays DEF Handshake
    <3>2. ASSUME hps'.window = "read"
          PROVE  copied(IF hps.strobe THEN hps.at ELSE Words)'
      <4>1. (Opens /\ fsm.rd) \/ Streams
        BY <1>1, <1>2, <3>1, <3>2, ClosedIs DEF Opens, Streams, Settles, Collects, Closes, Waits
      <4>2. CASE Opens /\ fsm.rd
        <5>1. hps'.strobe /\ hps'.at = 0
          BY <4>2 DEF Opens
        <5>2. \A w \in Index : ~(w < 0)
          BY <1>2 DEF Index
        <5> QED
          BY <5>1, <5>2 DEF copied
      <4>3. CASE Streams
        <5>1. /\ buf' = [buf EXCEPT ![hps.at] = file[mounted][hps.at]]
              /\ \A w \in Index : w < hps.at => buf[w] = file[mounted][w]
          BY <1>4, <4>3, BufferMoves DEF Streams, Fetched, copied
        <5>2. \A w \in Index : w < hps.at + 1 => buf'[w] = file'[mounted'][w]
          BY <1>2, <1>4, <3>1, <5>1 DEF Index
        <5>3. CASE lastWord
          <6>1. ~hps'.strobe
            BY <4>3, <5>3 DEF Streams
          <6>2. hps.at = Words - 1
            BY <5>3 DEF lastWord
          <6>3. \A w \in Index : w < hps.at + 1
            BY <1>2, <6>2 DEF Index
          <6> QED
            BY <5>2, <6>1, <6>3 DEF copied
        <5>4. CASE ~lastWord
          BY <4>3, <5>2, <5>4 DEF Streams, copied
        <5> QED
          BY <5>3, <5>4
      <4> QED
        BY <4>1, <4>2, <4>3
    <3>3. ASSUME hps'.window = "closed", fsm'.pst = "P_LD_DAT"
          PROVE  copied(Words)'
      <4>1. machine("P_LD_DAT") \/ machine("P_LD_RD")
        BY <1>1, <3>3, Predecessors
      <4>2. hps.window = "read"
        <5>1. hps.window # "closed"
          BY <1>1, <3>3, Predecessors DEF Handshake, machine, pram_ack, windowEnds
        <5> QED
          BY <1>2, <3>1, <5>1
      <4>3. Closes
        BY <1>1, <3>3, <4>2 DEF Opens, Streams, Settles, Collects, Closes, Waits
      <4>4. copied(Words) /\ buf' = buf
        BY <1>4, <4>1, <4>2, <4>3, BufferMoves DEF Closes, Fetched, machine
      <4> QED
        BY <1>4, <3>1, <4>4 DEF copied
    <3>4. ASSUME fsm'.pst \in Storing
          PROVE  copied(Words)'
      <4>1. (machine("P_LD_DAT") /\ hps.window = "closed") \/ fsm.pst \in Storing
        BY <1>1, <1>2, <3>4, Predecessors DEF Storing, machine, windowEnds, pram_ack
      <4>2. copied(Words)
        BY <1>4, <4>1 DEF Fetched
      <4>3. ~hps.strobe
        BY <1>2, <4>1 DEF Handshake, Storing, Fetching
      <4>4. buf' = buf
        BY <4>1, <4>3, BufferMoves DEF machine, Storing
      <4> QED
        BY <1>4, <3>1, <4>2, <4>4 DEF copied
    <3> QED
      BY <3>2, <3>3, <3>4
  <2> QED
    BY <2>1, <2>2
<1> QED
  BY <1>3, <1>4, FreshMoves

LEMMA LandedType ==
  ASSUME Shape, NEW a \in Addr
  PROVE  landed(a) \in Values
BY DEF Shape, TypeOK, landed

LEMMA LastWord ==
  ASSUME NEW n \in Addr, n \div 2 = Words - 1, NEW w \in Index
  PROVE  w < n \div 2 \/ w = n \div 2
BY PramAssumption DEF Addr, Index

\* The clock that stores a word's second byte completes it.
LEMMA HighCompletes ==
  ASSUME Shape, Handshake, Fetched, Stored, NEW mount, NEW osd, NEW rf, NEW backstop,
         Step(mount, osd, rf, backstop), machine("P_LD_B1"), fresh, raced = "nothing", ~ser.we,
         NEW w \in Index, w < fsm.pcnt \div 2 \/ w = fsm.pcnt \div 2
  PROVE  packed(w)' = file[mounted][w]
<1> DEFINE h == fsm.pcnt \div 2
<1>1. /\ fsm.pcnt \in Addr /\ fsm.pcnt % 2 = 0 /\ h \in Index /\ fsm.pcnt = 2 * h
      /\ pbuf_q = buf[h] /\ buf[h] = file[mounted][h]
      /\ \A v \in Index : v < h => packed(v) = file[mounted][v]
      /\ landed(fsm.pcnt) = file[mounted][h][1]
  <2>1. fsm.pcnt \in Addr /\ fsm.pcnt % 2 = 0
    BY Typed DEF Stored, Storing, machine
  <2>2. h \in Index /\ fsm.pcnt = 2 * h
    BY <2>1, Numbers
  <2>3. h < Words
    BY <2>2, PramAssumption DEF Index
  <2> QED
    BY <2>1, <2>2, <2>3 DEF Stored, Storing, machine, Fetched, copied
<1>2. fsm'.load_wr /\ fsm'.load_addr = 2 * h + 1 /\ fsm'.load_data = pbuf_q[2]
  BY DEF Step, PortMoves, machine
<1>3. \A a \in Addr : landed(a)' = IF a = 2 * h + 1 THEN pbuf_q[2] ELSE landed(a)
  BY <1>2, LandedMoves
<1>4. file[mounted][h] = <<file[mounted][h][1], file[mounted][h][2]>>
  BY <1>1 DEF Shape, TypeOK
<1> HIDE DEF h
<1>5. CASE w = h
  <2>1. landed(2 * w)' = file[mounted][h][1] /\ landed(2 * w + 1)' = file[mounted][h][2]
    BY <1>1, <1>3, <1>5, Doubles
  <2> QED
    BY <1>4, <1>5, <2>1 DEF packed
<1>6. CASE w < h
  <2>1. w # h
    BY <1>1, <1>6, Doubles
  <2>2. landed(2 * w)' = landed(2 * w) /\ landed(2 * w + 1)' = landed(2 * w + 1)
    BY <1>1, <1>3, <2>1, Doubles
  <2> QED
    BY <1>1, <1>6, <2>2 DEF packed
<1> QED
  BY <1>5, <1>6 DEF h

LEMMA StepStored ==
  ASSUME Shape, Handshake, Fetched, Stored, NEW mount, NEW osd, NEW rf, NEW backstop,
         Step(mount, osd, rf, backstop)
  PROVE  Stored'
<1> SUFFICES ASSUME fsm'.pst \in Storing
             PROVE  /\ fsm'.pcnt % 2 = 0
                    /\ fsm'.pst \in {"P_LD_B0", "P_LD_B1"} => pbuf_q' = buf'[fsm'.pcnt \div 2]
                    /\ fresh' /\ raced' = "nothing" =>
                         /\ \A w \in Index : w < fsm'.pcnt \div 2 => packed(w)' = file'[mounted'][w]
                         /\ fsm'.pst = "P_LD_B1" => landed(fsm.pcnt)' = file'[mounted'][fsm'.pcnt \div 2][1]
                                                    /\ fsm'.pcnt = fsm.pcnt
  BY DEF Stored, machine, landed, loadAt
<1>1. /\ fsm'.pst = successor /\ PortMoves /\ BufferRead
      /\ fsm.pcnt \in Addr /\ fsm.pst \in States
  BY Typed DEF Step, FlagMoves, Clk, Buffer
<1>2. /\ file' = file /\ buf' = buf
  <2>1. fsm.pst \in Storing \/ (machine("P_LD_DAT") /\ hps.window = "closed")
    BY <1>1, Predecessors DEF Storing, machine, windowEnds, pram_ack
  <2>2. hps.window = "closed" /\ ~hps.strobe
    BY <2>1, FileStays DEF Storing, Fetching, Saving, Handshake, machine
  <2> QED
    BY <2>1, <2>2, FileStays, BufferMoves DEF Storing, machine
<1>3. CASE machine("P_LD_DAT")
  <2>1. windowEnds /\ fsm'.pst = "P_LD_ADDR" /\ fsm'.pcnt = 0
    BY <1>1, <1>3 DEF successor, machine, Storing, PortMoves, begins
  <2>2. 0 \div 2 = 0 /\ 0 % 2 = 0 /\ \A w \in Index : ~(w < 0)
    BY PramAssumption DEF Index
  <2> QED
    BY <2>1, <2>2
<1>4. ASSUME fsm.pst \in Storing, fresh', raced' = "nothing"
      PROVE  fresh /\ raced = "nothing" /\ mounted' = mounted /\ ~ser.we
  BY <1>4, FreshMoves, RacedMoves DEF Storing, machine, begins
<1>5. CASE machine("P_LD_ADDR")
  <2>1. /\ fsm'.pst = "P_LD_B0" /\ fsm'.pcnt = fsm.pcnt /\ ~fsm'.load_wr
    BY <1>1, <1>5 DEF successor, machine, PortMoves, begins
  <2>2. fsm'.pcnt % 2 = 0 /\ pbuf_q' = buf'[fsm'.pcnt \div 2]
    BY <1>1, <1>2, <1>5, <2>1 DEF Stored, Storing, machine, BufferRead
  <2>3. ASSUME fresh', raced' = "nothing", NEW w \in Index, w < fsm'.pcnt \div 2
        PROVE  packed(w)' = file'[mounted'][w]
    <3>1. packed(w)' = packed(w)
      BY <1>4, <1>5, <2>1, <2>3, LandedMoves, Doubles DEF packed, Storing, machine
    <3> QED
      BY <1>2, <1>4, <1>5, <2>1, <2>3, <3>1 DEF Stored, Storing, machine
  <2> QED
    BY <2>1, <2>2, <2>3
<1>6. CASE machine("P_LD_B0")
  <2> DEFINE h == fsm.pcnt \div 2
  <2>1. /\ fsm'.pst = "P_LD_B1" /\ fsm'.pcnt = fsm.pcnt
        /\ fsm'.load_wr /\ fsm'.load_addr = 2 * h /\ fsm'.load_data = pbuf_q[1]
    BY <1>1, <1>6 DEF successor, machine, PortMoves, begins
  <2>2. fsm'.pcnt % 2 = 0 /\ pbuf_q' = buf'[h] /\ pbuf_q = buf[h] /\ h \in Index /\ fsm.pcnt = 2 * h
    BY <1>1, <1>2, <1>6, <2>1, Numbers DEF Stored, Storing, machine, BufferRead
  <2>3. ASSUME fresh', raced' = "nothing"
        PROVE  \A a \in Addr : landed(a)' = IF a = 2 * h THEN pbuf_q[1] ELSE landed(a)
    BY <1>4, <1>6, <2>1, <2>3, LandedMoves DEF Storing, machine
  <2> HIDE DEF h
  <2>4. ASSUME fresh', raced' = "nothing", NEW w \in Index, w < h
        PROVE  packed(w)' = file'[mounted'][w]
    <3>1. w # h
      BY <2>2, <2>4, Doubles
    <3>2. landed(2 * w)' = landed(2 * w) /\ landed(2 * w + 1)' = landed(2 * w + 1)
      BY <2>2, <2>3, <2>4, <3>1, Doubles
    <3>3. packed(w) = file[mounted][w]
      BY <1>4, <1>6, <2>4 DEF Stored, Storing, machine, h
    <3> QED
      BY <1>2, <1>4, <1>6, <2>4, <3>2, <3>3 DEF packed, Storing, machine
  <2>5. ASSUME fresh', raced' = "nothing"
        PROVE  landed(fsm.pcnt)' = file'[mounted'][h][1]
    <3>1. h < Words
      BY <2>2, PramAssumption DEF Index
    <3>2. buf[h] = file[mounted][h]
      BY <1>4, <1>6, <2>2, <2>5, <3>1 DEF Fetched, copied, Storing, machine
    <3>3. landed(fsm.pcnt)' = pbuf_q[1]
      <4>1. PICK a \in Addr : a = fsm.pcnt
        BY <1>1
      <4>2. landed(a)' = pbuf_q[1]
        BY <2>2, <2>3, <2>5, <4>1
      <4> QED
        BY <2>1, <4>1, <4>2 DEF landed, loadAt
    <3> QED
      BY <1>2, <1>4, <1>6, <2>2, <2>5, <3>2, <3>3 DEF Storing, machine
  <2> QED
    BY <2>1, <2>2, <2>4, <2>5 DEF h
<1>7. CASE machine("P_LD_B1")
  <2>1. ~loadEnds /\ fsm'.pst = "P_LD_ADDR" /\ fsm'.pcnt = fsm.pcnt + 2
    BY <1>1, <1>7 DEF successor, machine, PortMoves, begins, Storing
  <2>2. fsm.pcnt % 2 = 0
    BY <1>7 DEF Stored, Storing, machine
  <2>3. fsm'.pcnt % 2 = 0 /\ fsm'.pcnt \div 2 = fsm.pcnt \div 2 + 1 /\ fsm.pcnt \div 2 \in Nat
    BY <1>1, <2>1, <2>2, Numbers
  <2>4. ASSUME fresh', raced' = "nothing", NEW w \in Index, w < fsm'.pcnt \div 2
        PROVE  packed(w)' = file'[mounted'][w]
    <3>1. w < fsm.pcnt \div 2 \/ w = fsm.pcnt \div 2
      BY <2>3, <2>4, Doubles
    <3>2. fresh /\ raced = "nothing" /\ mounted' = mounted /\ ~ser.we
      BY <1>4, <1>7, <2>4 DEF Storing, machine
    <3> QED
      BY <1>2, <1>7, <3>1, <3>2, HighCompletes
  <2> QED
    BY <2>1, <2>3, <2>4
<1> QED
  BY <1>1, <1>3, <1>5, <1>6, <1>7, Predecessors DEF Storing

LEMMA StepFilled ==
  ASSUME Shape, Handshake, Filled, NEW mount, NEW osd, NEW rf, NEW backstop,
         Step(mount, osd, rf, backstop)
  PROVE  Filled'
<1> SUFFICES ASSUME fsm'.pst \in Filling
             PROVE  /\ ~fsm'.rst_after
                    /\ raced' = "nothing" =>
                         /\ \A w \in Index : w < fsm'.pcnt \div 2 => buf'[w] = packed(w)'
                         /\ fsm'.pcnt % 2 = 1 => fill_lo' = landed(fsm.pcnt - 1)'
                         /\ fsm'.pst = "P_FILL2" => fsm'.save_addr = fsm'.pcnt
                         /\ fsm'.pst = "P_FILL3" => save_q' = landed(fsm.pcnt)'
  BY DEF Filled, machine
<1>1. /\ fsm'.pst = successor /\ PortMoves
      /\ fsm'.rst_after = IF begins("P_FILL") \/ saveEnds THEN FALSE
                          ELSE fsm.rst_after \/ (machine("P_CLR") /\ lastByte /\ fsm.ena)
      /\ fill_lo' = IF machine("P_FILL3") /\ fsm.pcnt % 2 = 0 THEN save_q ELSE fill_lo
      /\ fsm.pcnt \in Addr /\ fsm.pst \in States /\ buf \in [Index -> Values \X Values]
  BY Typed DEF Step, FlagMoves, Clk, Buffer, Shape, TypeOK
<1>2. begins("P_FILL") \/ fsm.pst \in Filling
  BY <1>1, Predecessors DEF Filling, machine
<1>3. CASE begins("P_FILL")
  <2>1. ~fsm'.rst_after /\ fsm'.pst = "P_FILL" /\ fsm'.pcnt = 0
    <3>1. machine("P_IDLE") /\ fsm'.pst = "P_FILL" /\ ~fsm'.rst_after
      BY <1>1, <1>3 DEF begins
    <3> QED
      BY <1>1, <1>3, <3>1 DEF PortMoves, machine
  <2>2. 0 \div 2 = 0 /\ 0 % 2 = 0 /\ \A w \in Index : ~(w < 0)
    BY PramAssumption DEF Index
  <2> QED
    BY <2>1, <2>2
<1>4. CASE fsm.pst \in Filling
  <2>1. ~fsm'.rst_after /\ ~begins("P_FILL") /\ ~begins("P_CLR")
    BY <1>1, <1>4 DEF begins, machine, Filling, Filled
  <2>2. ASSUME raced' = "nothing"
        PROVE  /\ \A w \in Index : w < fsm'.pcnt \div 2 => buf'[w] = packed(w)'
               /\ fsm'.pcnt % 2 = 1 => fill_lo' = landed(fsm.pcnt - 1)'
               /\ fsm'.pst = "P_FILL2" => fsm'.save_addr = fsm'.pcnt
               /\ fsm'.pst = "P_FILL3" => save_q' = landed(fsm.pcnt)'
    <3>1. raced = "nothing" /\ ~ser.we /\ ~fsm.load_wr /\ ~fsm'.load_wr
      BY <1>1, <1>4, <2>2, RacedMoves DEF Filling, machine, Handshake, PortMoves
    <3>2. (\A a \in Addr : landed(a)' = landed(a) /\ landed(a) = pram[a]) /\ save_q' = pram[fsm.save_addr]
      BY <3>1, LandedMoves DEF landed, loadAt, bAddr
    <3>3. \A w \in Index : packed(w)' = packed(w)
      BY <3>2, Doubles DEF packed
    <3>4. /\ \A w \in Index : w < fsm.pcnt \div 2 => buf[w] = packed(w)
          /\ fsm.pcnt % 2 = 1 => fill_lo = landed(fsm.pcnt - 1)
          /\ machine("P_FILL2") => fsm.save_addr = fsm.pcnt
          /\ machine("P_FILL3") => save_q = landed(fsm.pcnt)
      BY <1>4, <3>1 DEF Filled
    <3>5. PICK n \in Addr : n = fsm.pcnt
      BY <1>1
    <3>6. n % 2 = 1 => n - 1 \in Addr
      BY PramAssumption DEF Addr
    <3>7. CASE machine("P_FILL") \/ machine("P_FILL2")
      <4>1. /\ fsm'.pcnt = n /\ buf' = buf /\ fill_lo' = fill_lo
            /\ machine("P_FILL") => fsm'.save_addr = n /\ fsm'.pst = "P_FILL2"
            /\ machine("P_FILL2") => fsm'.pst = "P_FILL3" /\ save_q' = pram[n]
        <5>1. ~hps.strobe
          BY <3>7, FileStays DEF Fetching, Saving, machine
        <5> QED
          BY <1>1, <2>1, <3>2, <3>4, <3>5, <3>7, <5>1, BufferMoves DEF machine, successor, PortMoves
      <4>2. n % 2 = 1 => fill_lo' = landed(n - 1)'
        BY <3>2, <3>4, <3>5, <3>6, <4>1
      <4>3. machine("P_FILL2") => save_q' = landed(n)'
        BY <3>2, <4>1
      <4>4. \A w \in Index : w < n \div 2 => buf'[w] = packed(w)'
        BY <3>3, <3>4, <3>5, <4>1
      <4> QED
        BY <3>7, <4>1, <4>2, <4>3, <4>4 DEF landed, loadAt, machine
    <3>8. CASE machine("P_FILL3")
      <4>1. fsm'.pst = "P_FILL" /\ fsm'.pcnt = n + 1
        BY <1>1, <2>1, <3>5, <3>8 DEF machine, successor, PortMoves, Filling
      <4>2. CASE n % 2 = 0
        <5>1. (n + 1) \div 2 = n \div 2 /\ (n + 1) - 1 = n
          BY <4>2, Numbers
        <5>2. buf' = buf /\ fill_lo' = save_q /\ save_q = landed(n)
          BY <1>1, <3>4, <3>5, <3>8, <4>2, BufferMoves
        <5>3. fill_lo' = landed(n)'
          BY <3>2, <5>2
        <5>4. \A w \in Index : w < n \div 2 => buf'[w] = packed(w)'
          BY <3>3, <3>4, <3>5, <5>2
        <5> QED
          BY <4>1, <5>1, <5>3, <5>4 DEF landed, loadAt
      <4>3. CASE n % 2 = 1
        <5> DEFINE h == n \div 2
        <5>1. /\ n = 2 * h + 1 /\ (n + 1) \div 2 = h + 1 /\ (n + 1) % 2 = 0 /\ h \in Index
              /\ n - 1 = 2 * h /\ h \in Nat
          BY <4>3, Numbers
        <5>2. buf' = [buf EXCEPT ![h] = <<fill_lo, save_q>>]
          BY <3>5, <3>8, <4>3, BufferMoves
        <5>3. <<fill_lo, save_q>> = packed(h)
          BY <3>4, <3>5, <3>8, <4>3, <5>1 DEF packed
        <5> HIDE DEF h
        <5>4. ASSUME NEW w \in Index, w < h + 1 PROVE buf'[w] = packed(w)'
          <6>1. w = h \/ w < h
            BY <5>1, <5>4, Doubles
          <6>2. w < h => w # h
            BY <5>1, Doubles
          <6> QED
            BY <1>1, <3>3, <3>4, <3>5, <5>1, <5>2, <5>3, <6>1, <6>2 DEF h
        <5> QED
          BY <4>1, <5>1, <5>4
      <4> QED
        BY <4>2, <4>3, Numbers
    <3> QED
      BY <1>4, <3>7, <3>8 DEF Filling, machine
  <2> QED
    BY <2>1, <2>2
<1> QED
  BY <1>2, <1>3, <1>4

\* One clock of the erasure, for one byte: its word of the buffer, and itself
\* unless the Mac writes.
LEMMA ClearMoves ==
  ASSUME Shape, Handshake, Cleared, NEW mount, NEW osd, NEW rf, NEW backstop,
         Step(mount, osd, rf, backstop), machine("P_CLR"), NEW a \in Addr, a < fsm.pcnt \/ a = fsm.pcnt
  PROVE  buf'[a \div 2] = Zero /\ (raced' = "nothing" => landed(a)' = 0)
<1>1. /\ fsm.pcnt \in Addr /\ fsm.pcnt \div 2 \in Index /\ a \div 2 \in Index
      /\ buf \in [Index -> Values \X Values]
  BY Typed, Numbers DEF Shape, TypeOK
<1>2. buf' = [buf EXCEPT ![fsm.pcnt \div 2] = Zero]
  BY BufferMoves
<1>3. a < fsm.pcnt => buf[a \div 2] = Zero /\ (raced = "nothing" => landed(a) = 0)
  BY DEF Cleared
<1>4. buf'[a \div 2] = Zero
  BY <1>1, <1>2, <1>3
<1>5. ASSUME raced' = "nothing"
      PROVE  landed(a)' = 0
  <2>1. raced = "nothing" /\ ~ser.we
    BY <1>5, RacedMoves DEF machine
  <2>2. fsm'.load_wr /\ fsm'.load_addr = fsm.pcnt /\ fsm'.load_data = 0
    BY DEF Step, PortMoves, machine
  <2>3. landed(a)' = IF fsm.pcnt = a THEN 0 ELSE landed(a)
    BY <2>1, <2>2, LandedMoves
  <2> QED
    BY <1>3, <2>1, <2>3
<1> QED
  BY <1>4, <1>5

LEMMA LastByte ==
  ASSUME Shape, lastByte, NEW a \in Addr
  PROVE  a < fsm.pcnt \/ a = fsm.pcnt
BY PramAssumption DEF lastByte, Addr

\* In a save, and where it is entered from an erasure or goes on, nothing but
\* the landing of the last write happens to memory and buffer.
LEMMA SavingStays ==
  ASSUME Shape, Handshake, NEW mount, NEW osd, NEW rf, NEW backstop,
         Step(mount, osd, rf, backstop), fsm.pst \in Saving
  PROVE  /\ buf' = buf
         /\ raced' = "nothing" => raced = "nothing" /\ \A a \in Addr : landed(a)' = landed(a)
<1>1. ~hps.strobe
  BY DEF Handshake, Saving, Fetching
<1>2. ~fsm'.load_wr
  BY DEF Step, PortMoves, Saving, machine
<1>3. raced' = "nothing" => raced = "nothing" /\ ~ser.we
  BY RacedMoves DEF Saving, machine
<1> QED
  BY <1>1, <1>2, <1>3, BufferMoves, LandedMoves DEF Saving, machine

LEMMA StepCleared ==
  ASSUME Shape, Handshake, Filled, Cleared, NEW mount, NEW osd, NEW rf, NEW backstop,
         Step(mount, osd, rf, backstop)
  PROVE  Cleared'
<1>1. /\ fsm'.pst = successor /\ PortMoves
      /\ fsm'.rst_after = IF begins("P_FILL") \/ saveEnds THEN FALSE
                          ELSE fsm.rst_after \/ (machine("P_CLR") /\ lastByte /\ fsm.ena)
      /\ fsm.pcnt \in Addr /\ fsm.pst \in States /\ fsm.rst_after \in BOOLEAN
  BY Typed DEF Step, FlagMoves
<1>2. ASSUME fsm'.pst = "P_CLR", NEW a \in Addr, a < fsm'.pcnt
      PROVE  buf'[a \div 2] = Zero /\ (raced' = "nothing" => landed(a)' = 0)
  <2>1. CASE begins("P_CLR")
    <3>1. fsm'.pcnt = 0
      BY <1>1, <2>1 DEF begins, machine, PortMoves
    <3>2. ~(a < 0)
      BY DEF Addr
    <3> QED
      BY <1>2, <3>1, <3>2
  <2>2. CASE machine("P_CLR") /\ ~lastByte
    <3>1. fsm'.pcnt = fsm.pcnt + 1
      BY <1>1, <2>2 DEF begins, machine, PortMoves
    <3>2. a < fsm.pcnt \/ a = fsm.pcnt
      BY <1>1, <1>2, <3>1 DEF Addr
    <3> QED
      BY <2>2, <3>2, ClearMoves
  <2> QED
    BY <1>1, <1>2, <2>1, <2>2, Predecessors
<1>3. ASSUME fsm'.pst \in Saving, fsm'.rst_after, NEW a \in Addr
      PROVE  buf'[a \div 2] = Zero /\ (raced' = "nothing" => landed(a)' = 0)
  <2>1. CASE machine("P_CLR") /\ lastByte
    BY <2>1, ClearMoves, LastByte
  <2>2. CASE machine("P_FILL3")
    <3>1. ~fsm.rst_after /\ ~machine("P_CLR")
      BY <2>2 DEF Filled, Filling, machine
    <3> QED
      BY <1>1, <1>3, <3>1
  <2>3. CASE fsm.pst \in Saving
    <3>1. fsm.rst_after
      BY <1>1, <1>3, <2>3 DEF Saving, machine
    <3> QED
      BY <2>3, <3>1, SavingStays DEF Cleared
  <2> QED
    BY <1>1, <1>3, <2>1, <2>2, <2>3, Predecessors DEF Saving, machine
<1> QED
  BY <1>2, <1>3 DEF Cleared, machine

\* The clock that collects a word brings the image one word further, the last
\* one to its end.
LEMMA CollectMoves ==
  ASSUME Shape, Handshake, Saved, NEW mount, NEW osd, NEW rf, NEW backstop,
         Step(mount, osd, rf, backstop), Collects
  PROVE  /\ buf' = buf /\ mounted' = mounted
         /\ ~lastWord => hps'.at = hps.at + 1 /\ written(hps.at)'
         /\ lastWord => written(Words)'
<1>1. /\ fsm.pst \in Saving /\ buf' = buf /\ mounted' = mounted
      /\ hps.at \in Index /\ mounted \in Files /\ file \in [Files -> [Index -> Values \X Values]]
  BY SavingStays, FileStays DEF Collects, Handshake, Shape, TypeOK
<1>2. written(hps.at) /\ pbuf_q = buf[hps.at]
  BY <1>1 DEF Collects, Saved
<1>3. ASSUME mounted # "none", NEW w \in Index, w < hps.at + 1
      PROVE  file'[mounted][w] = buf[w]
  <2>1. file' = [file EXCEPT ![mounted][hps.at] = pbuf_q]
    BY <1>3 DEF Collects
  <2>2. file'[mounted] = [file[mounted] EXCEPT ![hps.at] = pbuf_q]
    BY <1>1, <2>1
  <2>3. w < hps.at \/ w = hps.at
    <3>1. w \in Nat /\ hps.at \in Nat
      BY <1>1, PramAssumption DEF Index
    <3> QED
      BY <1>3, <3>1
  <2>4. file[mounted] \in [Index -> Values \X Values]
    BY <1>1
  <2> QED
    BY <1>1, <1>2, <1>3, <2>2, <2>3, <2>4 DEF written
<1>4. ~lastWord => hps'.at = hps.at + 1
  BY DEF Collects
<1>5. lastWord => \A w \in Index : w < hps.at + 1
  BY PramAssumption DEF lastWord, Index
<1> QED
  BY <1>1, <1>3, <1>4, <1>5 DEF written

LEMMA StepSaved ==
  ASSUME Shape, Handshake, Filled, Cleared, Saved, NEW mount, NEW osd, NEW rf, NEW backstop,
         Step(mount, osd, rf, backstop), Handshake'
  PROVE  Saved'
<1>1. /\ Opens \/ Streams \/ Settles \/ Collects \/ Closes \/ Waits
      /\ fsm'.pst = successor /\ PortMoves
      /\ hps.window \in {"closed", "read", "write"} /\ fsm.pcnt \in Addr /\ fsm.pst \in States
      /\ buf \in [Index -> Values \X Values]
  BY Typed, HpsMoves DEF Step, Clk, FlagMoves, Shape, TypeOK
<1>2. ASSUME fsm'.pst \in Saving, raced' = "nothing", NEW w \in Index
      PROVE  buf'[w] = packed(w)'
  <2>1. CASE machine("P_CLR") /\ lastByte
    <3>1. \A a \in Addr : buf'[a \div 2] = Zero /\ landed(a)' = 0
      BY <1>2, <2>1, ClearMoves, LastByte
    <3> QED
      BY <3>1, Doubles DEF packed, Zero
  <2>2. CASE machine("P_FILL3") /\ lastByte
    <3>1. raced = "nothing" /\ ~ser.we /\ ~fsm'.load_wr
      BY <1>1, <1>2, <2>2, RacedMoves DEF machine, PortMoves
    <3>2. packed(w)' = packed(w)
      BY <3>1, LandedMoves, Doubles DEF packed
    <3>3. PICK n \in Addr : n = fsm.pcnt /\ n = 2 * Words - 1
      BY <1>1, <2>2 DEF lastByte
    <3> DEFINE h == n \div 2
    <3>4. n % 2 = 1 /\ h = Words - 1
      BY <3>3, PramAssumption DEF Addr
    <3>5. h \in Index /\ n = 2 * h + 1 /\ n - 1 = 2 * h
      BY <3>4, Numbers
    <3>6. w < h \/ w = h
      BY <3>3, <3>4, LastWord
    <3>7. buf' = [buf EXCEPT ![h] = <<fill_lo, save_q>>]
      BY <2>2, <3>3, <3>4, BufferMoves
    <3>8. <<fill_lo, save_q>> = packed(h) /\ (w < h => buf[w] = packed(w))
      BY <2>2, <3>1, <3>3, <3>4, <3>5 DEF Filled, Filling, machine, packed
    <3> HIDE DEF h
    <3> QED
      BY <1>1, <3>2, <3>5, <3>6, <3>7, <3>8
  <2>3. CASE fsm.pst \in Saving
    <3>1. /\ buf' = buf /\ raced = "nothing" /\ \A a \in Addr : landed(a)' = landed(a)
      BY <1>2, <2>3, SavingStays
    <3> QED
      BY <2>3, <3>1, Doubles DEF Saved, packed
  <2> QED
    BY <1>1, <1>2, <2>1, <2>2, <2>3, Predecessors DEF Saving, machine
<1>3. ASSUME fsm'.pst \in Saving, hps'.window = "write"
      PROVE  written(hps.at)' /\ (hps'.valid => pbuf_q' = buf'[hps'.at])
  <2>1. Opens \/ Settles \/ (Collects /\ ~lastWord)
    BY <1>1, <1>3, ClosedIs DEF Opens, Streams, Settles, Collects, Closes, Waits
  <2>2. CASE Opens
    <3>1. hps'.at = 0 /\ hps'.valid = FALSE /\ \A w \in Index : ~(w < 0)
      BY <2>2, PramAssumption DEF Opens, Index
    <3> QED
      BY <3>1 DEF written
  <2>3. CASE Settles
    <3>1. /\ fsm.pst \in Saving /\ buf' = buf /\ mounted' = mounted /\ file' = file /\ hps'.at = hps.at
      BY <2>3, SavingStays, FileStays DEF Settles, Handshake
    <3>2. pbuf_q' = buf[hps.at]
      BY <3>1 DEF Step, Clk, Buffer, BufferRead, Saving
    <3>3. written(hps.at)
      BY <2>3, <3>1 DEF Settles, Saved
    <3> QED
      BY <3>1, <3>2, <3>3 DEF written
  <2>4. CASE Collects /\ ~lastWord
    <3>1. hps'.valid = FALSE
      BY <2>4 DEF Collects
    <3> QED
      BY <2>4, <3>1, CollectMoves
  <2> QED
    BY <2>1, <2>2, <2>3, <2>4
<1>4. ASSUME fsm'.pst = "P_SV_DAT", hps'.window = "closed"
      PROVE  written(Words)'
  <2>1. (machine("P_SV_WR") /\ pram_ack) \/ (machine("P_SV_DAT") /\ ~windowEnds)
    BY <1>1, <1>4, Predecessors
  <2>2. hps.window = "write"
    BY <1>1, <2>1 DEF Handshake, machine, Fetching, pram_ack, windowEnds
  <2>3. Collects /\ lastWord
    BY <1>1, <1>4, <2>2 DEF Opens, Streams, Settles, Collects, Closes, Waits
  <2> QED
    BY <2>3, CollectMoves
<1> QED
  BY <1>2, <1>3, <1>4 DEF Saved, machine

LEMMA StepAgree ==
  ASSUME Shape, Handshake, Fetched, Stored, Saved, Agree, NEW mount, NEW osd, NEW rf, NEW backstop,
         Step(mount, osd, rf, backstop)
  PROVE  Agree'
<1> SUFFICES ASSUME fsm'.pst \in {"P_IDLE", "P_RST"}, raced' = "nothing", fresh', fsm'.ena, ~fsm'.dirty,
                    NEW w \in Index
             PROVE  file'[mounted'][w] = packed(w)'
  BY DEF Agree
<1>1. /\ fsm'.pst = successor /\ PortMoves
      /\ fsm'.ena = (loadEnds \/ mount \in Nvrs \/ (fsm.ena /\ mount \notin Others))
      /\ fsm'.dirty = ((fsm.dirty \/ ser.we) /\ ~loadEnds /\ ~saveEnds)
      /\ {fsm.ena, fsm.dirty} \subseteq BOOLEAN
  BY Typed DEF Step, FlagMoves
<1>2. fresh /\ mount = NoMount /\ mounted' = mounted /\ mounted \in Nvrs
  <2>1. ~begins("P_LD_RD")
    BY <1>1 DEF begins
  <2> QED
    BY <2>1, FreshMoves DEF fresh
<1>3. mount \notin Nvrs /\ mounted # "none"
  BY <1>2, NoMountIsNone, PramAssumption DEF Files
<1>4. CASE loadEnds
  <2>1. /\ machine("P_LD_B1") /\ fsm.pcnt \div 2 = Words - 1 /\ hps.window = "closed"
        /\ raced = "nothing" /\ ~ser.we
    BY <1>4, FileStays, RacedMoves DEF loadEnds, machine, Fetching, Saving
  <2>2. packed(w)' = file[mounted][w]
    BY <1>2, <2>1, HighCompletes, LastWord, Typed
  <2> QED
    BY <1>2, <2>1, <2>2, FileStays
<1>5. CASE saveEnds
  <2>1. fsm.pst \in Saving /\ hps.window = "closed" /\ machine("P_SV_DAT")
    BY <1>5 DEF saveEnds, Saving, machine, windowEnds, pram_ack
  <2>2. /\ raced = "nothing" /\ \A a \in Addr : landed(a)' = landed(a)
    BY <2>1, SavingStays
  <2>3. buf[w] = packed(w) /\ written(Words)
    BY <2>1, <2>2 DEF Saved
  <2>4. file[mounted][w] = buf[w]
    <3>1. w < Words
      BY PramAssumption DEF Index
    <3> QED
      BY <1>3, <2>3, <3>1 DEF written
  <2> QED
    BY <1>2, <2>1, <2>2, <2>3, <2>4, FileStays, Doubles DEF packed
<1>6. CASE ~loadEnds /\ ~saveEnds
  <2>1. fsm.ena /\ ~fsm.dirty /\ ~ser.we
    BY <1>1, <1>3, <1>6
  <2>2. machine("P_RST") \/ begins("P_IDLE")
    BY <1>1, <1>6, <2>1, Predecessors
  <2>3. /\ fsm.pst \in {"P_IDLE", "P_RST"} /\ raced = "nothing" /\ hps.window = "closed"
    BY <2>2, RacedMoves, FileStays DEF begins, machine, Fetching, Saving
  <2>4. ~fsm'.load_wr
    BY <1>1, <2>3 DEF PortMoves, machine
  <2>5. packed(w)' = packed(w)
    BY <2>1, <2>4, LandedMoves, Doubles DEF packed
  <2> QED
    BY <1>2, <2>1, <2>3, <2>5, FileStays DEF Agree
<1> QED
  BY <1>4, <1>5, <1>6

DataInv == ControlInv /\ Fetched /\ Stored /\ Filled /\ Cleared /\ Saved /\ Agree

LEMMA InitData == Init => DataInv
<1> SUFFICES ASSUME Init PROVE DataInv
  OBVIOUS
<1>1. ControlInv
  BY InitControl
<1>2. fsm.pst = "P_IDLE" /\ ~fsm.ena
  BY DEF Init, Flags, Registers
<1>3. hps.window = "closed"
  BY ClosedIs DEF Init
<1> QED
  BY <1>1, <1>2, <1>3 DEF DataInv, Fetched, Stored, Filled, Cleared, Saved, Agree, machine, Storing,
     Filling, Saving

LEMMA StepData == DataInv /\ [Next]_vars => DataInv'
<1> SUFFICES ASSUME DataInv, [Next]_vars PROVE DataInv'
  OBVIOUS
<1>1. ControlInv'
  BY StepControl DEF DataInv
<1>2. CASE Next
  <2>1. PICK mount, osd, rf, backstop : Step(mount, osd, rf, backstop)
    BY <1>2, NextSteps DEF DataInv, ControlInv
  <2>2. Shape /\ Handshake /\ Handshake'
    BY <1>1 DEF DataInv, ControlInv
  <2> QED
    BY <1>1, <2>1, <2>2, StepFetched, StepStored, StepFilled, StepCleared, StepSaved, StepAgree DEF DataInv
<1>3. CASE UNCHANGED vars
  BY <1>1, <1>3 DEF vars, ramVars, DataInv, Fetched, Stored, Filled, Cleared, Saved, Agree, machine,
     fresh, copied, written, packed, landed, loadAt
<1> QED
  BY <1>2, <1>3

\* A machine at rest with nothing marked has an image that holds the parameter
\* RAM byte for byte, for every size of the memory and every sequence of
\* mounts, menus and Mac writes that did not meet its last load or save.
THEOREM CleanIsSaved == Spec => []CleanMeansSaved
<1>1. DataInv => CleanMeansSaved
  <2> SUFFICES ASSUME DataInv, clean, raced = "nothing", NEW w \in Index
               PROVE  file[mounted][w] = <<pram[2 * w], pram[2 * w + 1]>>
    BY DEF CleanMeansSaved, holdsPram
  <2>1. file[mounted][w] = packed(w)
    BY DEF DataInv, Agree, clean, fresh, machine
  <2> QED
    BY <2>1 DEF packed, landed, loadAt, clean
<1> QED
  BY <1>1, InitData, StepData, PTL DEF Spec

\* The reset that follows an erasure finds memory and image erased, the last
\* byte of both among them.
THEOREM ResetsErase == Spec => ResetErases
<1>1. DataInv /\ [Next]_vars =>
        [machine("P_SV_DAT") /\ fsm'.pst = "P_RST" /\ raced' = "nothing"
           => /\ \A a \in Addr : pram'[a] = 0
              /\ mounted # "none" => \A w \in Index : file'[mounted][w] = Zero]_vars
  <2> SUFFICES ASSUME DataInv, Next, machine("P_SV_DAT"), fsm'.pst = "P_RST", raced' = "nothing"
               PROVE  /\ \A a \in Addr : pram'[a] = 0
                      /\ mounted # "none" => \A w \in Index : file'[mounted][w] = Zero
    BY DEF vars
  <2>1. PICK mount, osd, rf, backstop : Step(mount, osd, rf, backstop)
    BY NextSteps DEF DataInv, ControlInv
  <2>2. saveEnds /\ fsm.rst_after
    BY <2>1, Predecessors DEF DataInv, ControlInv, Step, FlagMoves, loadEnds, machine
  <2>3. raced = "nothing" /\ ~ser.we
    BY <2>1, RacedMoves DEF machine
  <2>4. \A a \in Addr : buf[a \div 2] = Zero /\ landed(a) = 0
    BY <2>2, <2>3 DEF DataInv, Cleared, Saving, machine
  <2>5. \A a \in Addr : pram'[a] = 0
    BY <2>1, <2>3, <2>4, LandedMoves DEF DataInv, ControlInv
  <2>6. hps.window = "closed" /\ written(Words) /\ file' = file
    BY <2>1, <2>2, FileStays DEF DataInv, ControlInv, Saved, Saving, saveEnds, windowEnds, pram_ack, machine
  <2>7. ASSUME mounted # "none", NEW w \in Index
        PROVE  file'[mounted][w] = Zero
    <3>1. w < Words
      BY PramAssumption DEF Index
    <3>2. buf[w] = Zero
      BY <2>4, Doubles
    <3> QED
      BY <2>6, <2>7, <3>1, <3>2 DEF written
  <2> QED
    BY <2>5, <2>7
<1> QED
  BY <1>1, InitData, StepData, PTL DEF Spec, ResetErases
=============================================================================
