-------------------------------- MODULE AscFifo --------------------------------
(***************************************************************************)
(* FIFO playback of the sound chip, rtl/asc.sv: two rings of bytes filled  *)
(* by the CPU and emptied by the sample tick, and the interrupt register   *)
(* the driver refills by.                                                  *)
(*                                                                         *)
(* A step is one system clock.  A bus cycle holds its strobes for Cycle    *)
(* clocks; the CPU takes a register's value in the last of them.  A write  *)
(* counts in the first clock, the second byte of a word in the second.     *)
(* The wavetable is left out (its mode is "off" here, which stops FIFO     *)
(* playback as well), and reset, which returns to Init.                    *)
(***************************************************************************)
EXTENDS Naturals, Sequences

CONSTANTS
  Chans,        \* the channels: "A", and "B" that plays in stereo only
  Stereo,       \* what the driver writes to the stereo bit
  Size,         \* bytes in a ring (1024 in the code)
  Byte,         \* what a byte may be
  Div,          \* system clocks between two sample ticks
  Cycle         \* clocks of a bus cycle

ASSUME AscAssumption ==
  /\ "A" \in Chans /\ Chans \subseteq {"A", "B"}
  /\ Size \in Nat /\ Size > 2 /\ Size % 2 = 0 /\ 0 \in Byte /\ Stereo \subseteq BOOLEAN
  /\ Div \in Nat \ {0} /\ Cycle \in Nat /\ Cycle > 2

VARIABLES
  bus,                       \* clocks the cycle has lasted, whether it reads $804
                             \* and, history, what stood there at its start
  byte_write_pending,        \* the second byte of a word, Nothing if none
  asc_mode, ctrl_stereo, asc_fifo_irq, sample_counter,
  ram, rdata,                \* the rings and the registered output of their port A
  wr_ptr, rd_ptr, count,
  queue, clean, owed         \* history: bytes not played yet; no write or clear met
                             \* a tick or a full ring; written with irq_n high, and
                             \* irq_n has not fallen since

ringVars == <<ram, rdata, wr_ptr, rd_ptr, count>>
vars == <<bus, byte_write_pending, asc_mode, ctrl_stereo, asc_fifo_irq,
          sample_counter, ringVars, queue, clean, owed>>

Place == 0 .. Size - 1
Modes == {"off", "fifo"}

--------------------------------------------------------------------------------
(* What a byte written to the chip's window does. *)

Nothing       == [kind |-> "nothing"]
ClearFifos    == [kind |-> "clear"]
SetMode(m)    == [kind |-> "mode", mode |-> m]
SetControl(s) == [kind |-> "control", stereo |-> s]
Data(c, b, p) == [kind |-> "data", chan |-> c, byte |-> b, at |-> p]

\* In FIFO mode the place in the channel's window is not looked at.
At == IF asc_mode = "fifo" THEN {0} ELSE Place

ByteWrites ==
  {ClearFifos} \cup {SetMode(m) : m \in Modes} \cup {SetControl(s) : s \in Stereo}
               \cup {Data(c, b, p) : c \in Chans, b \in Byte, p \in At}
WordWrites ==
  {<<Data(c, b1, p), Data(c, b2, p + 1)>> :
      c \in Chans, b1 \in Byte, b2 \in Byte, p \in {q \in At : q % 2 = 0}}
  \cup {<<Nothing, SetMode(m)>> : m \in Modes}
  \cup {<<SetControl(s), w>> : s \in Stereo, w \in {ClearFifos, Nothing}}

--------------------------------------------------------------------------------
(* One clock of the chip: w is the byte written in it, st tells whether $804   *)
(* is being read.                                                              *)

sample_tick == sample_counter >= Div - 1
playing     == asc_mode = "fifo" /\ sample_tick
enabled(c)  == c = "A" \/ ctrl_stereo
drains(c)   == playing /\ enabled(c) /\ count[c] > 0

into(c, w)   == w.kind = "data" /\ w.chan = c
fills(c, w)  == into(c, w) /\ asc_mode = "fifo"
clears(w)    == w.kind = "clear" \/ (w.kind = "mode" /\ w.mode # asc_mode)

\* Port A of the two rings: the tick before the write before the CPU's address.
Place_a(c, w, a) ==
  CASE playing                  -> rd_ptr[c]
    [] ~playing /\ fills(c, w)  -> wr_ptr[c]
    [] ~playing /\ into(c, w) /\ ~fills(c, w) -> w.at
    [] OTHER                    -> a

Memory(w) ==
  /\ rdata' \in {[c \in Chans |-> ram[c][Place_a(c, w, a)]] : a \in Place}
  /\ ram' = [c \in Chans |-> IF into(c, w) /\ ~playing
                             THEN [ram[c] EXCEPT ![Place_a(c, w, 0)] = w.byte]
                             ELSE ram[c]]

Wrapped(n) == n % Size

\* What the tick does comes last in the code, so it wins over the write.
\* mutant: a clear leaves the read pointer where it is
PointersKeepRead(w) ==
  /\ wr_ptr' = [c \in Chans |-> CASE clears(w)   -> 0
                                  [] fills(c, w) -> Wrapped(wr_ptr[c] + 1)
                                  [] OTHER       -> wr_ptr[c]]
  /\ rd_ptr' = [c \in Chans |-> IF drains(c) THEN Wrapped(rd_ptr[c] + 1) ELSE rd_ptr[c]]
  /\ count'  = [c \in Chans |-> CASE drains(c)                -> count[c] - 1
                                  [] ~drains(c) /\ clears(w)  -> 0
                                  [] ~drains(c) /\ fills(c, w) /\ count[c] < Size -> count[c] + 1
                                  [] OTHER                    -> count[c]]
\* mutant: the count of a full ring goes on
PointersOverfull(w) ==
  /\ wr_ptr' = [c \in Chans |-> CASE clears(w)   -> 0
                                  [] fills(c, w) -> Wrapped(wr_ptr[c] + 1)
                                  [] OTHER       -> wr_ptr[c]]
  /\ rd_ptr' = [c \in Chans |-> CASE drains(c)               -> Wrapped(rd_ptr[c] + 1)
                                  [] ~drains(c) /\ clears(w) -> 0
                                  [] OTHER                   -> rd_ptr[c]]
  /\ count'  = [c \in Chans |-> CASE drains(c)                -> count[c] - 1
                                  [] ~drains(c) /\ clears(w)  -> 0
                                  [] ~drains(c) /\ fills(c, w) -> count[c] + 1
                                  [] OTHER                    -> count[c]]
Pointers(w) ==
  /\ wr_ptr' = [c \in Chans |-> CASE clears(w)   -> 0
                                  [] fills(c, w) -> Wrapped(wr_ptr[c] + 1)
                                  [] OTHER       -> wr_ptr[c]]
  /\ rd_ptr' = [c \in Chans |-> CASE drains(c)               -> Wrapped(rd_ptr[c] + 1)
                                  [] ~drains(c) /\ clears(w) -> 0
                                  [] OTHER                   -> rd_ptr[c]]
  /\ count'  = [c \in Chans |-> CASE drains(c)                -> count[c] - 1
                                  [] ~drains(c) /\ clears(w)  -> 0
                                  [] ~drains(c) /\ fills(c, w) /\ count[c] < Size -> count[c] + 1
                                  [] OTHER                    -> count[c]]

\* The byte the tick hands to the converter, which holds it; nothing reads it back.
played(c) == rdata[c]

raised ==
  {e \in Chans \X {"half", "empty"} :
     playing /\ enabled(e[1]) /\ count[e[1]] = IF e[2] = "half" THEN Size \div 2 ELSE 1}

\* mutant: a read of $804 wins over an event of the same clock
InterruptClearWins(st) ==
  asc_fifo_irq' = IF st THEN {} ELSE asc_fifo_irq \cup raised
Interrupt(st) ==
  asc_fifo_irq' = (IF st THEN {} ELSE asc_fifo_irq) \cup raised

Registers(w) ==
  /\ asc_mode' = IF w.kind = "mode" THEN w.mode ELSE asc_mode
  /\ ctrl_stereo' = IF w.kind = "control" THEN w.stereo ELSE ctrl_stereo
  /\ sample_counter' = IF sample_tick THEN 0 ELSE sample_counter + 1

\* irq_n falls: the edge VIA2 latches at its CB1 input, which it samples every clock.
irq_n == asc_fifo_irq = {}
calls == irq_n /\ ~irq_n'

History(w) ==
  /\ clean' = [c \in Chans |->
       IF clears(w) THEN ~drains(c)
                    ELSE clean[c] /\ ~(fills(c, w) /\ (playing \/ count[c] = Size))]
  /\ queue' = [c \in Chans |->
       IF clears(w) \/ ~clean'[c] THEN << >>
       ELSE LET q == IF drains(c) THEN Tail(queue[c]) ELSE queue[c]
            IN  IF fills(c, w) THEN Append(q, w.byte) ELSE q]
  /\ owed' = [c \in Chans |-> ~clears(w) /\ ~calls /\ (owed[c] \/ (fills(c, w) /\ irq_n))]

Clock(w, st) == Memory(w) /\ Pointers(w) /\ Interrupt(st) /\ Registers(w) /\ History(w)

--------------------------------------------------------------------------------
(* The processor's bus *)

NoCycle == [clocks |-> 0, status |-> FALSE, due |-> {}]

Begin(st, w, w2) ==
  /\ bus = NoCycle
  /\ bus' = [clocks |-> 1, status |-> st, due |-> IF st THEN asc_fifo_irq ELSE {}]
  /\ byte_write_pending' = w2
  /\ Clock(w, st)

WriteByte  == \E w \in ByteWrites : Begin(FALSE, w, Nothing)
WriteWord  == \E w \in WordWrites : Begin(FALSE, w[1], w[2])
ReadStatus == Begin(TRUE, Nothing, Nothing)

\* The strobes are held, and after Cycle clocks away for one.
Held ==
  /\ bus.clocks > 0
  /\ bus' = IF bus.clocks = Cycle THEN NoCycle ELSE [bus EXCEPT !.clocks = @ + 1]
  /\ byte_write_pending' = Nothing
  /\ Clock(byte_write_pending, bus.status /\ bus.clocks < Cycle)

\* No cycle, or one that changes nothing here.
Elsewhere ==
  /\ bus = NoCycle
  /\ UNCHANGED <<bus, byte_write_pending>>
  /\ Clock(Nothing, FALSE)

Init ==
  /\ bus = NoCycle /\ byte_write_pending = Nothing
  /\ asc_mode = "off" /\ ctrl_stereo = FALSE /\ asc_fifo_irq = {} /\ sample_counter = 0
  /\ ram = [c \in Chans |-> [p \in Place |-> 0]] /\ rdata = [c \in Chans |-> 0]
  /\ wr_ptr = [c \in Chans |-> 0] /\ rd_ptr = wr_ptr /\ count = wr_ptr
  /\ queue = [c \in Chans |-> << >>] /\ clean = [c \in Chans |-> TRUE]
  /\ owed = [c \in Chans |-> FALSE]

Next == WriteByte \/ WriteWord \/ ReadStatus \/ Held \/ Elsewhere

\* The clock runs; what the driver does is free.
Spec     == Init /\ [][Next]_vars
FairSpec == Spec /\ WF_vars(Next)

--------------------------------------------------------------------------------
(* Properties *)

\* Every register holds a value of its kind; the pointers stay in the ring and the
\* count never exceeds it, whatever meets the tick.
Writes == {Nothing, ClearFifos} \cup {SetMode(m) : m \in Modes}
            \cup {SetControl(s) : s \in BOOLEAN}
            \cup {Data(c, b, p) : c \in Chans, b \in Byte, p \in Place}
Events == Chans \X {"half", "empty"}
TypeOK ==
  /\ bus \in [clocks : 0 .. Cycle, status : BOOLEAN, due : SUBSET Events]
  /\ byte_write_pending \in Writes /\ asc_mode \in Modes /\ ctrl_stereo \in BOOLEAN
  /\ asc_fifo_irq \subseteq Events /\ sample_counter \in 0 .. Div - 1
  /\ ram \in [Chans -> [Place -> Byte]] /\ rdata \in [Chans -> Byte]
  /\ wr_ptr \in [Chans -> Place] /\ rd_ptr \in [Chans -> Place]
  /\ count \in [Chans -> 0 .. Size] /\ queue \in [Chans -> Seq(Byte)]
  /\ clean \in [Chans -> BOOLEAN] /\ owed \in [Chans -> BOOLEAN]

\* A ring that no tick has met in the clock of a write or a clear, and that was
\* never written while full, holds the bytes written since the last clear and
\* not played yet, in order, and counts them.
holds(c) ==
  /\ count[c] = Len(queue[c]) /\ wr_ptr[c] = Wrapped(rd_ptr[c] + count[c])
  /\ \A i \in 1 .. count[c] : ram[c][Wrapped(rd_ptr[c] + i - 1)] = queue[c][i]
HoldsWritten == \A c \in Chans : clean[c] => holds(c)

\* Bytes written while irq_n is high (asc.sv:124) make it fall sooner or later, once
\* the driver stops writing: no event is lost between the tick, the write of the same
\* clock and the clearing reads of a driver that polls $804 meanwhile (asc.sv:359-364,
\* 458-464).  What such a read returns counts for nothing here (StatusIsRead).  Bytes
\* written while irq_n is still low are not covered: their event makes no edge, and
\* the read that acknowledges the earlier one takes it away.
silent(c)   == owed[c] /\ enabled(c) /\ (bus = NoCycle \/ bus.status)
AsksForMore == \A c \in Chans : []<>~silent(c)

\* "FIFO_IRQ_STATUS (read clears)": the read that clears the register returns
\* the bits that stood in it when the read began.
StatusIsRead == bus.status /\ bus.clocks = Cycle - 1 => bus.due \subseteq asc_fifo_irq

\* "FIFO read - point port A at read pointer": the byte the tick hands to the
\* converter is the oldest one in the ring, with the CPU's bus quiet and the byte
\* long written.
PlaysOldest ==
  \A c \in Chans : drains(c) /\ clean[c] /\ bus = NoCycle => played(c) = Head(queue[c])
================================================================================
