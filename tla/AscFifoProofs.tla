----------------------------- MODULE AscFifoProofs -----------------------------
(***************************************************************************)
(* Proofs about AscFifo, for every ring, set of bytes, rate of the tick    *)
(* and length of a bus cycle: the registers keep their ranges, and a ring  *)
(* that was not disturbed holds what was written, in order.                *)
(***************************************************************************)
EXTENDS AscFifo, SequenceTheorems, TLAPS

--------------------------------------------------------------------------------
(* The inductive invariant *)

\* Outside FIFO mode nothing is written into a ring's queue, so a write to the
\* memory itself disturbs none.
OffIsEmpty == asc_mode = "off" => \A c \in Chans : clean[c] => count[c] = 0

FifoInv == TypeOK /\ HoldsWritten /\ OffIsEmpty

--------------------------------------------------------------------------------
(* Places around the ring *)

(* A sum of two places wraps around at most once. *)
LEMMA WrapOnce ==
  ASSUME NEW x \in Nat, x < 2 * Size
  PROVE Wrapped(x) = IF x < Size THEN x ELSE x - Size
  BY AscAssumption, SMT DEF Wrapped

(* A wrapped sum is a place of the ring. *)
LEMMA WrappedIsPlace ==
  ASSUME NEW x \in Nat, x < 2 * Size PROVE Wrapped(x) \in Place
  BY WrapOnce, AscAssumption, SMT DEF Place

(* One step, then n more. *)
LEMMA WrappedTwice ==
  ASSUME NEW p \in Place, NEW n \in 0 .. Size - 1
  PROVE Wrapped(Wrapped(p + 1) + n) = Wrapped(p + n + 1)
<1>1. Wrapped(p + 1) = IF p + 1 < Size THEN p + 1 ELSE 0
  BY WrapOnce, AscAssumption, SMT DEF Place
<1>2. Wrapped(p + n + 1) = IF p + n + 1 < Size THEN p + n + 1 ELSE p + n + 1 - Size
  BY WrapOnce, AscAssumption, SMT DEF Place
<1>3. CASE p + 1 < Size
  <2>1. Wrapped(p + 1) + n = p + n + 1 BY <1>1, <1>3, AscAssumption, SMT DEF Place
  <2>2. QED BY <2>1
<1>4. CASE ~(p + 1 < Size)
  <2>1. p + 1 = Size /\ Wrapped(p + 1) + n = n BY <1>1, <1>4, AscAssumption, SMT DEF Place
  <2>2. Wrapped(n) = n BY WrapOnce, AscAssumption, SMT
  <2>3. QED BY <2>1, <2>2, <1>2, AscAssumption, SMT DEF Place
<1>5. QED BY <1>3, <1>4

(* The next free place is none of those in use. *)
LEMMA FreeIsApart ==
  ASSUME NEW p \in Place, NEW n \in 0 .. Size - 1, NEW k \in 0 .. n - 1
  PROVE Wrapped(p + k) # Wrapped(p + n)
<1>1. Wrapped(p + k) = IF p + k < Size THEN p + k ELSE p + k - Size
  BY WrapOnce, AscAssumption, SMT DEF Place
<1>2. Wrapped(p + n) = IF p + n < Size THEN p + n ELSE p + n - Size
  BY WrapOnce, AscAssumption, SMT DEF Place
<1>3. QED BY <1>1, <1>2, AscAssumption, SMT DEF Place

--------------------------------------------------------------------------------
(* What a clock does to one ring *)

(* The parts of a byte written. *)
LEMMA WriteParts ==
  ASSUME NEW w \in Writes
  PROVE /\ w.kind = "data" => w.byte \in Byte /\ w.at \in Place
        /\ w.kind = "mode" => w.mode \in Modes
        /\ w.kind = "control" => w.stereo \in BOOLEAN
  BY SMT DEF Writes, Nothing, ClearFifos, SetMode, SetControl, Data

(* Port A of a ring always points into it. *)
LEMMA PortInRing ==
  ASSUME TypeOK, NEW w \in Writes, NEW c \in Chans, NEW a \in Place
  PROVE Place_a(c, w, a) \in Place
<1>1. rd_ptr[c] \in Place /\ wr_ptr[c] \in Place BY DEF TypeOK
<1>2. into(c, w) => w.at \in Place BY WriteParts DEF into
<1>3. QED BY <1>1, <1>2 DEF Place_a

(* The tick takes the oldest byte of an undisturbed ring. *)
LEMMA DrainKeeps ==
  ASSUME FifoInv, NEW w \in Writes, NEW st \in BOOLEAN, Clock(w, st), NEW c \in Chans,
         clean'[c], ~clears(w), drains(c)
  PROVE queue'[c] \in Seq(Byte) /\ holds(c)'
<1>1. clean[c] /\ ~fills(c, w) /\ playing
  BY DEF Clock, History, drains
<1>2. /\ holds(c) /\ queue[c] \in Seq(Byte) /\ rd_ptr[c] \in Place
      /\ count[c] \in 1 .. Size /\ count[c] = Len(queue[c])
  BY <1>1, SMT DEF FifoInv, HoldsWritten, TypeOK, holds, drains
<1>3. /\ count'[c] = count[c] - 1 /\ rd_ptr'[c] = Wrapped(rd_ptr[c] + 1)
      /\ wr_ptr'[c] = wr_ptr[c] /\ queue'[c] = Tail(queue[c]) /\ ram'[c] = ram[c]
  BY <1>1 DEF Clock, History, Pointers, Memory
<1>4. queue[c] # << >> BY <1>2, EmptySeq, SMT
<1>5. /\ queue'[c] \in Seq(Byte) /\ Len(queue'[c]) = Len(queue[c]) - 1
      /\ \A i \in 1 .. Len(queue[c]) - 1 : queue'[c][i] = queue[c][i + 1]
  BY <1>2, <1>3, <1>4, HeadTailProperties
<1>6. \A n \in 0 .. count[c] - 1 : Wrapped(rd_ptr'[c] + n) = Wrapped(rd_ptr[c] + n + 1)
  BY <1>2, <1>3, WrappedTwice, AscAssumption, SMT
<1>7. wr_ptr'[c] = Wrapped(rd_ptr'[c] + count'[c])
  <2>1. Wrapped(rd_ptr'[c] + (count[c] - 1)) = Wrapped(rd_ptr[c] + (count[c] - 1) + 1)
    BY <1>6, <1>2, SMT
  <2>2. rd_ptr[c] + (count[c] - 1) + 1 = rd_ptr[c] + count[c]
    BY <1>2, AscAssumption, SMT DEF Place
  <2>3. QED BY <2>1, <2>2, <1>2, <1>3 DEF holds
<1>8. ASSUME NEW i \in 1 .. count'[c]
      PROVE ram'[c][Wrapped(rd_ptr'[c] + i - 1)] = queue'[c][i]
  <2>1. i \in 1 .. Len(queue[c]) - 1 /\ i - 1 \in 0 .. count[c] - 1 /\ i + 1 \in 1 .. count[c]
    BY <1>2, <1>3, SMT
  <2>2. Wrapped(rd_ptr'[c] + (i - 1)) = Wrapped(rd_ptr[c] + (i - 1) + 1) BY <2>1, <1>6
  <2>3. rd_ptr'[c] \in Nat
    BY <1>2, <1>3, WrapOnce, AscAssumption, SMT DEF Place
  <2>4. rd_ptr'[c] + (i - 1) = rd_ptr'[c] + i - 1 /\ rd_ptr[c] + (i - 1) + 1 = rd_ptr[c] + (i + 1) - 1
    BY <2>1, <2>3, <1>2, AscAssumption, SMT DEF Place
  <2>5. ram[c][Wrapped(rd_ptr[c] + (i + 1) - 1)] = queue[c][i + 1] BY <2>1, <1>2 DEF holds
  <2>6. QED BY <2>1, <2>2, <2>4, <2>5, <1>3, <1>5
<1>9. QED BY <1>2, <1>3, <1>5, <1>7, <1>8 DEF holds

(* A write goes behind the youngest byte of an undisturbed ring. *)
LEMMA FillKeeps ==
  ASSUME FifoInv, NEW w \in Writes, NEW st \in BOOLEAN, Clock(w, st), NEW c \in Chans,
         clean'[c], ~clears(w), fills(c, w)
  PROVE queue'[c] \in Seq(Byte) /\ holds(c)'
<1>1. clean[c] /\ ~playing /\ count[c] # Size /\ ~drains(c)
  BY DEF Clock, History, drains
<1>2. /\ holds(c) /\ queue[c] \in Seq(Byte) /\ rd_ptr[c] \in Place
      /\ count[c] \in 0 .. Size - 1 /\ count[c] = Len(queue[c])
  BY <1>1, AscAssumption, SMT DEF FifoInv, HoldsWritten, TypeOK, holds
<1>3. into(c, w) /\ w.byte \in Byte BY WriteParts DEF fills, into
<1>4. wr_ptr[c] \in Place /\ ram[c] \in [Place -> Byte] BY DEF FifoInv, TypeOK
<1>5. count[c] < Size BY <1>2, AscAssumption, SMT
<1>6. /\ count'[c] = count[c] + 1 /\ rd_ptr'[c] = rd_ptr[c]
      /\ wr_ptr'[c] = Wrapped(wr_ptr[c] + 1) /\ queue'[c] = Append(queue[c], w.byte)
  BY <1>1, <1>5 DEF Clock, History, Pointers
<1>7. ram'[c] = [ram[c] EXCEPT ![wr_ptr[c]] = w.byte]
  BY <1>1, <1>3 DEF Clock, Memory, Place_a
<1>8. /\ queue'[c] \in Seq(Byte) /\ Len(queue'[c]) = Len(queue[c]) + 1
      /\ \A i \in 1 .. Len(queue[c]) : queue'[c][i] = queue[c][i]
      /\ queue'[c][Len(queue[c]) + 1] = w.byte
  BY <1>2, <1>3, <1>6, AppendProperties
<1>9. wr_ptr'[c] = Wrapped(rd_ptr'[c] + count'[c])
  <2>1. wr_ptr[c] = Wrapped(rd_ptr[c] + count[c]) BY <1>2 DEF holds
  <2>2. Wrapped(rd_ptr[c] + count[c]) = IF rd_ptr[c] + count[c] < Size THEN rd_ptr[c] + count[c]
                                        ELSE rd_ptr[c] + count[c] - Size
    BY <1>2, WrapOnce, AscAssumption, SMT DEF Place
  <2>3. Wrapped(rd_ptr[c] + count[c] + 1) =
          IF rd_ptr[c] + count[c] + 1 < Size THEN rd_ptr[c] + count[c] + 1
          ELSE rd_ptr[c] + count[c] + 1 - Size
    BY <1>2, WrapOnce, AscAssumption, SMT DEF Place
  <2>4. Wrapped(wr_ptr[c] + 1) = IF wr_ptr[c] + 1 < Size THEN wr_ptr[c] + 1 ELSE 0
    BY <1>4, WrapOnce, AscAssumption, SMT DEF Place
  <2>5. Wrapped(wr_ptr[c] + 1) = Wrapped(rd_ptr[c] + count[c] + 1)
    BY <2>1, <2>2, <2>3, <2>4, <1>2, AscAssumption, SMT DEF Place
  <2>6. rd_ptr[c] + count[c] + 1 = rd_ptr[c] + (count[c] + 1)
    BY <1>2, AscAssumption, SMT DEF Place
  <2>7. QED BY <2>5, <2>6, <1>6
<1>10. ASSUME NEW i \in 1 .. count'[c]
       PROVE ram'[c][Wrapped(rd_ptr'[c] + i - 1)] = queue'[c][i]
  <2>1. rd_ptr[c] + i - 1 = rd_ptr[c] + (i - 1) /\ i - 1 \in 0 .. count[c]
    BY <1>2, <1>6, AscAssumption, SMT DEF Place
  <2>2. CASE i = count[c] + 1
    <3>1. Wrapped(rd_ptr[c] + i - 1) = wr_ptr[c]
      <4>1. rd_ptr[c] + i - 1 = rd_ptr[c] + count[c] BY <2>2, <1>2, AscAssumption, SMT DEF Place
      <4>2. QED BY <4>1, <1>2 DEF holds
    <3>2. queue'[c][i] = w.byte BY <2>2, <1>2, <1>8
    <3>3. QED BY <3>1, <3>2, <1>4, <1>6, <1>7
  <2>3. CASE i # count[c] + 1
    <3>1. i \in 1 .. count[c] /\ i - 1 \in 0 .. count[c] - 1 BY <2>3, <1>2, <1>6, SMT
    <3>2. Wrapped(rd_ptr[c] + (i - 1)) # Wrapped(rd_ptr[c] + count[c])
      BY <3>1, <1>2, FreeIsApart
    <3>3. Wrapped(rd_ptr[c] + i - 1) # wr_ptr[c] BY <3>2, <2>1, <1>2 DEF holds
    <3>4. Wrapped(rd_ptr[c] + i - 1) \in Place
      <4>1. rd_ptr[c] + i - 1 \in Nat /\ rd_ptr[c] + i - 1 < 2 * Size
        BY <3>1, <1>2, AscAssumption, SMT DEF Place
      <4>2. QED BY <4>1, WrappedIsPlace
    <3>5. ram[c][Wrapped(rd_ptr[c] + i - 1)] = queue[c][i] BY <3>1, <1>2 DEF holds
    <3>6. queue'[c][i] = queue[c][i] BY <3>1, <1>2, <1>8
    <3>7. QED BY <3>3, <3>4, <3>5, <3>6, <1>4, <1>6, <1>7
  <2>4. QED BY <2>2, <2>3
<1>11. QED BY <1>2, <1>6, <1>8, <1>9, <1>10 DEF holds

(* A clear empties a ring, unless the tick takes a byte in the same clock. *)
LEMMA ClearEmpties ==
  ASSUME NEW w, NEW st, Clock(w, st), NEW c \in Chans, clean'[c], clears(w)
  PROVE queue'[c] = << >> /\ count'[c] = 0 /\ holds(c)'
<1>1. ~drains(c) BY DEF Clock, History
<1>2. queue'[c] = << >> /\ count'[c] = 0 /\ rd_ptr'[c] = 0 /\ wr_ptr'[c] = 0
  <2>0. ~fills(c, w) BY DEF clears, fills, into
  <2>1. wr_ptr'[c] = 0 BY <2>0 DEF Clock, Pointers
  <2>2. rd_ptr'[c] = 0 BY <1>1 DEF Clock, Pointers
  <2>3. count'[c] = 0 BY <1>1, <2>0 DEF Clock, Pointers
  <2>4. queue'[c] = << >> BY DEF Clock, History
  <2>5. QED BY <2>1, <2>2, <2>3, <2>4
<1>3. Wrapped(0 + 0) = 0 BY WrapOnce, AscAssumption, SMT
<1>4. Len(queue'[c]) = 0 /\ 1 .. count'[c] = {} BY <1>2, EmptySeq, SMT
<1>5. QED BY <1>2, <1>3, <1>4 DEF holds

(* A clock that neither takes nor adds a byte leaves the ring's bytes alone: a *)
(* write to the memory itself happens outside FIFO mode, when there are none.  *)
LEMMA IdleKeeps ==
  ASSUME FifoInv, NEW w \in Writes, NEW st \in BOOLEAN, Clock(w, st), NEW c \in Chans,
         clean'[c], ~clears(w), ~drains(c), ~fills(c, w)
  PROVE queue'[c] \in Seq(Byte) /\ holds(c)' /\ count'[c] = count[c] /\ clean[c]
<1>1. /\ clean[c] /\ queue'[c] = queue[c] /\ count'[c] = count[c]
      /\ rd_ptr'[c] = rd_ptr[c] /\ wr_ptr'[c] = wr_ptr[c]
  BY DEF Clock, History, Pointers
<1>2. holds(c) /\ queue[c] \in Seq(Byte) BY <1>1 DEF FifoInv, HoldsWritten, TypeOK
<1>3. CASE into(c, w)
  <2>1. asc_mode = "off" BY <1>3 DEF fills, FifoInv, TypeOK, Modes
  <2>2. count[c] = 0 BY <2>1, <1>1 DEF FifoInv, OffIsEmpty
  <2>3. 1 .. count'[c] = {} BY <2>2, <1>1, SMT
  <2>4. QED BY <2>3, <1>1, <1>2 DEF holds
<1>4. CASE ~into(c, w)
  <2>1. ram'[c] = ram[c] BY <1>4 DEF Clock, Memory
  <2>2. QED BY <2>1, <1>1, <1>2 DEF holds
<1>5. QED BY <1>3, <1>4

--------------------------------------------------------------------------------
(* What a clock does to the whole chip *)

(* After any clock an undisturbed ring holds its bytes. *)
LEMMA ClockHolds ==
  ASSUME FifoInv, NEW w \in Writes, NEW st \in BOOLEAN, Clock(w, st)
  PROVE HoldsWritten'
<1>1. SUFFICES ASSUME NEW c \in Chans, clean'[c] PROVE holds(c)' BY DEF HoldsWritten
<1>2. CASE clears(w) BY <1>1, <1>2, ClearEmpties
<1>3. CASE ~clears(w) /\ drains(c) BY <1>1, <1>3, DrainKeeps
<1>4. CASE ~clears(w) /\ fills(c, w) BY <1>1, <1>4, FillKeeps
<1>5. CASE ~clears(w) /\ ~drains(c) /\ ~fills(c, w) BY <1>1, <1>5, IdleKeeps
<1>6. QED BY <1>2, <1>3, <1>4, <1>5

(* FIFO mode is left by a clear only. *)
LEMMA ClockOffIsEmpty ==
  ASSUME FifoInv, NEW w \in Writes, NEW st \in BOOLEAN, Clock(w, st)
  PROVE OffIsEmpty'
<1>1. SUFFICES ASSUME asc_mode' = "off", NEW c \in Chans, clean'[c] PROVE count'[c] = 0
  BY DEF OffIsEmpty
<1>2. CASE clears(w) BY <1>1, <1>2, ClearEmpties
<1>3. CASE ~clears(w)
  <2>1. asc_mode = "off" BY <1>1, <1>3 DEF Clock, Registers, clears
  <2>2. ~drains(c) /\ ~fills(c, w) BY <2>1 DEF drains, playing, fills
  <2>3. count'[c] = count[c] /\ clean[c] BY <1>1, <1>3, <2>2, IdleKeeps
  <2>4. QED BY <2>1, <2>3 DEF FifoInv, OffIsEmpty
<1>4. QED BY <1>2, <1>3

(* The chip's own part of the type. *)
ChipTypeOK ==
  /\ asc_mode \in Modes /\ ctrl_stereo \in BOOLEAN
  /\ asc_fifo_irq \subseteq Events /\ sample_counter \in 0 .. Div - 1
  /\ ram \in [Chans -> [Place -> Byte]] /\ rdata \in [Chans -> Byte]
  /\ wr_ptr \in [Chans -> Place] /\ rd_ptr \in [Chans -> Place]
  /\ count \in [Chans -> 0 .. Size] /\ queue \in [Chans -> Seq(Byte)]
  /\ clean \in [Chans -> BOOLEAN] /\ owed \in [Chans -> BOOLEAN]

(* Any clock keeps the chip's registers in their ranges. *)
LEMMA ClockTypes ==
  ASSUME FifoInv, NEW w \in Writes, NEW st \in BOOLEAN, Clock(w, st)
  PROVE ChipTypeOK'
<1>0. TypeOK BY DEF FifoInv
<1>1. asc_mode' \in Modes /\ ctrl_stereo' \in BOOLEAN
  BY <1>0, WriteParts DEF Clock, Registers, TypeOK
<1>2. asc_fifo_irq' \subseteq Events
  BY <1>0 DEF Clock, Interrupt, raised, Events, TypeOK
<1>3. sample_counter' \in 0 .. Div - 1
  BY <1>0, AscAssumption, SMT DEF Clock, Registers, sample_tick, TypeOK
<1>4. ram' \in [Chans -> [Place -> Byte]]
  <2>1. 0 \in Place BY AscAssumption, SMT DEF Place
  <2>2. \A c \in Chans : Place_a(c, w, 0) \in Place BY <1>0, <2>1, PortInRing
  <2>3. \A c \in Chans : into(c, w) => w.byte \in Byte BY WriteParts DEF into
  <2>4. QED BY <1>0, <2>2, <2>3, SMT DEF Clock, Memory, TypeOK
<1>5. rdata' \in [Chans -> Byte]
  <2>1. PICK a \in Place : rdata' = [c \in Chans |-> ram[c][Place_a(c, w, a)]]
    BY DEF Clock, Memory
  <2>2. \A c \in Chans : Place_a(c, w, a) \in Place BY <1>0, PortInRing
  <2>3. QED BY <1>0, <2>1, <2>2 DEF TypeOK
<1>6. wr_ptr' \in [Chans -> Place] /\ rd_ptr' \in [Chans -> Place]
  <2>1. 0 \in Place BY AscAssumption, SMT DEF Place
  <2>2. ASSUME NEW p \in Place PROVE Wrapped(p + 1) \in Place
    <3>1. p + 1 \in Nat /\ p + 1 < 2 * Size BY AscAssumption, SMT DEF Place
    <3>2. QED BY <3>1, WrappedIsPlace
  <2>3. QED BY <1>0, <2>1, <2>2 DEF Clock, Pointers, TypeOK
<1>7. count' \in [Chans -> 0 .. Size]
  <2>1. \A c \in Chans : count[c] \in 0 .. Size BY <1>0 DEF TypeOK
  <2>2. ASSUME NEW c \in Chans PROVE count'[c] \in 0 .. Size
    BY <2>1, AscAssumption, SMT DEF Clock, Pointers, drains
  <2>3. QED BY <2>2 DEF Clock, Pointers
<1>8. queue' \in [Chans -> Seq(Byte)]
  <2>1. << >> \in Seq(Byte) BY EmptySeq
  <2>2. ASSUME NEW c \in Chans PROVE queue'[c] \in Seq(Byte)
    <3>1. CASE clears(w) \/ ~clean'[c] BY <3>1, <2>1 DEF Clock, History
    <3>2. CASE clean'[c] /\ ~clears(w) /\ drains(c) BY <3>2, DrainKeeps
    <3>3. CASE clean'[c] /\ ~clears(w) /\ fills(c, w) BY <3>3, FillKeeps
    <3>4. CASE clean'[c] /\ ~clears(w) /\ ~drains(c) /\ ~fills(c, w) BY <3>4, IdleKeeps
    <3>5. QED BY <3>1, <3>2, <3>3, <3>4
  <2>3. QED BY <2>2 DEF Clock, History
<1>9. clean' \in [Chans -> BOOLEAN]
  BY <1>0, Zenon DEF Clock, History, TypeOK
<1>10. owed' \in [Chans -> BOOLEAN]
  BY <1>0, Zenon DEF Clock, History, TypeOK
<1>11. QED
  BY <1>1, <1>2, <1>3, <1>4, <1>5, <1>6, <1>7, <1>8, <1>9, <1>10 DEF ChipTypeOK

(* Together. *)
LEMMA ClockKeeps ==
  ASSUME FifoInv, NEW w \in Writes, NEW st \in BOOLEAN, Clock(w, st),
         bus' \in [clocks : 0 .. Cycle, status : BOOLEAN, due : SUBSET Events],
         byte_write_pending' \in Writes
  PROVE FifoInv'
<1>1. ChipTypeOK' /\ HoldsWritten' /\ OffIsEmpty'
  BY ClockTypes, ClockHolds, ClockOffIsEmpty
<1>2. TypeOK' BY <1>1 DEF ChipTypeOK, TypeOK
<1>3. QED BY <1>1, <1>2 DEF FifoInv

--------------------------------------------------------------------------------
(* The processor's side *)

(* Both bytes of a word are bytes written; a word never leaves the window. *)
LEMMA InputsAreWrites ==
  /\ Nothing \in Writes /\ ByteWrites \subseteq Writes
  /\ \A w \in WordWrites : w[1] \in Writes /\ w[2] \in Writes
<1>1. Nothing \in Writes /\ ClearFifos \in Writes
      /\ (\A m \in Modes : SetMode(m) \in Writes)
      /\ \A s \in Stereo : SetControl(s) \in Writes
  BY AscAssumption DEF Writes
<1>2. \A c \in Chans, b \in Byte, p \in Place : Data(c, b, p) \in Writes BY DEF Writes
<1>3. At \subseteq Place BY AscAssumption, SMT DEF At, Place
<1>4. \A p \in At : p % 2 = 0 => p + 1 \in Place
  BY <1>3, AscAssumption, SMT DEF Place
<1>5. ByteWrites \subseteq Writes BY <1>1, <1>2, <1>3 DEF ByteWrites
<1>6. ASSUME NEW w \in WordWrites PROVE w[1] \in Writes /\ w[2] \in Writes
  <2>1. CASE w \in {<<Data(c, b1, p), Data(c, b2, p + 1)>> :
                      c \in Chans, b1 \in Byte, b2 \in Byte, p \in {q \in At : q % 2 = 0}}
    BY <2>1, <1>2, <1>3, <1>4
  <2>2. CASE w \in {<<Nothing, SetMode(m)>> : m \in Modes} BY <2>2, <1>1
  <2>3. CASE w \in {<<SetControl(s), v>> : s \in Stereo, v \in {ClearFifos, Nothing}}
    BY <2>3, <1>1
  <2>4. QED BY <1>6, <2>1, <2>2, <2>3 DEF WordWrites
<1>7. QED BY <1>1, <1>5, <1>6

(* A cycle begins with its first byte. *)
LEMMA BeginKeeps ==
  ASSUME FifoInv, NEW st \in BOOLEAN, NEW w \in Writes, NEW w2 \in Writes, Begin(st, w, w2)
  PROVE FifoInv'
<1>1. Clock(w, st) /\ byte_write_pending' \in Writes BY DEF Begin
<1>2. bus' \in [clocks : 0 .. Cycle, status : BOOLEAN, due : SUBSET Events]
  BY AscAssumption, SMT DEF Begin, FifoInv, TypeOK
<1>3. QED BY <1>1, <1>2, ClockKeeps

LEMMA InitHolds == Init => FifoInv
<1>1. SUFFICES ASSUME Init PROVE FifoInv OBVIOUS
<1>2. << >> \in Seq(Byte) /\ Len(<< >>) = 0 BY EmptySeq
<1>3. Wrapped(0 + 0) = 0 BY WrapOnce, AscAssumption, SMT
<1>4. bus \in [clocks : 0 .. Cycle, status : BOOLEAN, due : SUBSET Events]
  BY <1>1, AscAssumption, SMT DEF Init, NoCycle
<1>5. byte_write_pending \in Writes BY <1>1, InputsAreWrites DEF Init
<1>6. 0 \in Place /\ 0 \in 0 .. Size /\ 0 \in 0 .. Div - 1 /\ 1 .. 0 = {}
  BY AscAssumption, SMT DEF Place
<1>7. TypeOK
  BY <1>1, <1>2, <1>4, <1>5, <1>6, AscAssumption DEF Init, TypeOK, Modes
<1>8. HoldsWritten
  <2>1. SUFFICES ASSUME NEW c \in Chans PROVE holds(c) BY DEF HoldsWritten
  <2>2. count[c] = 0 /\ wr_ptr[c] = 0 /\ rd_ptr[c] = 0 /\ queue[c] = << >>
    BY <1>1 DEF Init
  <2>3. QED BY <2>2, <1>2, <1>3, <1>6 DEF holds
<1>9. OffIsEmpty BY <1>1 DEF Init, OffIsEmpty
<1>10. QED BY <1>7, <1>8, <1>9 DEF FifoInv

LEMMA NextKeeps == FifoInv /\ [Next]_vars => FifoInv'
<1>1. SUFFICES ASSUME FifoInv, [Next]_vars PROVE FifoInv' OBVIOUS
<1>2. CASE WriteByte BY <1>1, <1>2, BeginKeeps, InputsAreWrites DEF WriteByte
<1>3. CASE WriteWord BY <1>1, <1>3, BeginKeeps, InputsAreWrites DEF WriteWord
<1>4. CASE ReadStatus BY <1>1, <1>4, BeginKeeps, InputsAreWrites DEF ReadStatus
<1>5. CASE Held
  <2>1. byte_write_pending \in Writes /\ bus.status \in BOOLEAN /\ bus.clocks \in 0 .. Cycle
        /\ bus \in [clocks : 0 .. Cycle, status : BOOLEAN, due : SUBSET Events]
    BY <1>1 DEF FifoInv, TypeOK
  <2>2. byte_write_pending' \in Writes BY <1>5, InputsAreWrites DEF Held
  <2>3. bus' \in [clocks : 0 .. Cycle, status : BOOLEAN, due : SUBSET Events]
    BY <1>5, <2>1, AscAssumption, SMT DEF Held, NoCycle
  <2>4. (bus.status /\ bus.clocks < Cycle) \in BOOLEAN OBVIOUS
  <2>5. Clock(byte_write_pending, bus.status /\ bus.clocks < Cycle) BY <1>5 DEF Held
  <2>6. QED BY <1>1, <2>1, <2>2, <2>3, <2>4, <2>5, ClockKeeps
<1>6. CASE Elsewhere
  <2>1. bus' = bus /\ byte_write_pending' = byte_write_pending /\ Clock(Nothing, FALSE)
    BY <1>6 DEF Elsewhere
  <2>2. QED BY <1>1, <2>1, InputsAreWrites, ClockKeeps DEF FifoInv, TypeOK
<1>7. CASE UNCHANGED vars
  <2>1. TypeOK' BY <1>1, <1>7 DEF FifoInv, TypeOK, vars, ringVars
  <2>2. HoldsWritten' BY <1>1, <1>7 DEF FifoInv, HoldsWritten, holds, vars, ringVars
  <2>3. OffIsEmpty' BY <1>1, <1>7 DEF FifoInv, OffIsEmpty, vars, ringVars
  <2>4. QED BY <2>1, <2>2, <2>3 DEF FifoInv
<1>8. QED BY <1>1, <1>2, <1>3, <1>4, <1>5, <1>6, <1>7 DEF Next

--------------------------------------------------------------------------------
(* The results *)

(* Whatever the driver writes and whenever the tick falls, every register of *)
(* asc.sv keeps its range: the count stays within the ring.                  *)
THEOREM FifoTypeCorrect == Spec => []TypeOK
<1>1. FifoInv => TypeOK BY DEF FifoInv
<1>2. QED BY InitHolds, NextKeeps, <1>1, PTL DEF Spec

(* A ring that no tick has met in the clock of a write or a clear, and that  *)
(* was never written while full, holds what was written and is still to be   *)
(* played, in order, and counts it: the pointer updates of asc.sv.           *)
THEOREM RingsHoldWritten == Spec => []HoldsWritten
<1>1. FifoInv => HoldsWritten BY DEF FifoInv
<1>2. QED BY InitHolds, NextKeeps, <1>1, PTL DEF Spec
================================================================================
