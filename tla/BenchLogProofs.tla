---------------------------- MODULE BenchLogProofs ----------------------------
(***************************************************************************)
(* Proofs about BenchLog, for every size of sector, batch and file, every  *)
(* set of lines and any number of tests: the file holds what was committed *)
(* and nothing in a wrong place, and no write takes back what it held.     *)
(***************************************************************************)
EXTENDS BenchLog, TLAPS

B == JW_BATCH_BYTES

--------------------------------------------------------------------------------
(* The inductive invariant *)

\* The batch begins at a multiple of its size, inside the file
Aligned ==
  /\ \E k \in 0 .. FileBatches : written = k * B
  /\ written + used <= max_bytes
  /\ pc \in {"test", "emit", "done"} => used < B

\* Until the last flush or a stop
running == pc \in {"test", "emit", "write"}

\* The next character put belongs where the batch goes on, until the file is full
InPlace ==
  running => /\ written + used <= emitted
             /\ written + used < max_bytes => emitted = written + used

\* The batch holds its characters, and a batch being written is padded
BatchIsStream ==
  /\ \A i \in Batch : i < used => sector[i] = written + i
  /\ pc = "write" => /\ used > 0 /\ written + B <= max_bytes
                     /\ io.then = "stay" => used < B
                     /\ io.then = "advance" => used = B \/ io.back = "done"
                     /\ \A i \in Batch : i >= used => sector[i] = Zero

\* The file holds the batches left behind and the sectors written of this one
FileIsPrefix ==
  /\ \A p \in Places : disk[p] = p => p < written + used
  /\ running /\ ~last_err => \A p \in Places : p < written => disk[p] = p
  /\ pc = "write" /\ ~last_err =>
       \A p \in Places : p < written + io.at * SectorBytes /\ p < written + used => disk[p] = p

LogInv == TypeOK /\ Aligned /\ InPlace /\ BatchIsStream /\ NeverElsewhere /\ FileIsPrefix /\ LinesDurable

--------------------------------------------------------------------------------
(* A product with a positive factor divides back. *)
LEMMA DivideBack ==
  ASSUME NEW k \in Nat, NEW b \in Nat \ {0} PROVE (k * b) \div b = k
  BY SMT

(* Multiples are apart by the factor at least. *)
LEMMA MultiplesApart ==
  ASSUME NEW k \in Nat, NEW m \in Nat, NEW b \in Nat, k < m PROVE k * b + b <= m * b
<1>1. k + 1 <= m OBVIOUS
<1>2. (k + 1) * b <= m * b BY <1>1, SMT
<1>3. (k + 1) * b = k * b + b BY SMT
<1>4. QED BY <1>2, <1>3, SMT

(* Plain arithmetic, apart from the Booleans of the state. *)
LEMMA SumAbove ==
  ASSUME NEW x \in Int, NEW y \in Nat PROVE x + y \in Int /\ x <= x + y
  BY SMT

(* The same. *)
LEMMA LessTrans ==
  ASSUME NEW x \in Int, NEW y \in Int, NEW z \in Int, x < y, y <= z PROVE x < z
  BY SMT

(* The sizes are numbers, the file a multiple of the batch. *)
LEMMA Sizes ==
  /\ SectorBytes \in Nat \ {0} /\ BatchSectors \in Nat \ {0} /\ FileBatches \in Nat
  /\ B \in Nat \ {0} /\ max_bytes \in Nat /\ max_bytes = FileBatches * B
  /\ B = BatchSectors * SectorBytes
<1>1. B \in Nat \ {0} BY BenchLogAssumption, SMT DEF B, JW_BATCH_BYTES
<1>2. QED BY <1>1, BenchLogAssumption, SMT DEF B, JW_BATCH_BYTES, max_bytes

(* The batch's place on the disk is where the writer counts it to be. *)
LEMMA BatchPlace ==
  ASSUME TypeOK, Aligned PROVE batch_idx * JW_BATCH_BYTES = written
<1>1. PICK k \in 0 .. FileBatches : written = k * B BY DEF Aligned
<1>2. k \in Nat BY <1>1, Sizes, SMT
<1>3. written \div B = k BY <1>1, <1>2, DivideBack, Sizes
<1>4. QED BY <1>1, <1>3 DEF batch_idx, B

(* A batch that holds a character lies inside the file. *)
LEMMA BatchInside ==
  ASSUME TypeOK, Aligned, written < max_bytes PROVE written + B <= max_bytes
<1>1. PICK k \in 0 .. FileBatches : written = k * B BY DEF Aligned
<1>2. k \in Nat /\ k < FileBatches BY <1>1, Sizes, SMT
<1>3. QED BY <1>1, <1>2, MultiplesApart, Sizes

(* And so does the one it makes room for. *)
LEMMA NextAligned ==
  ASSUME TypeOK, Aligned, written + B <= max_bytes
  PROVE \E k \in 0 .. FileBatches : written + B = k * B
<1>1. PICK k \in 0 .. FileBatches : written = k * B BY DEF Aligned
<1>2. k \in Nat BY <1>1, Sizes, SMT
<1>3. k < FileBatches
  <2>1. CASE k = FileBatches BY <2>1, <1>1, Sizes, SMT
  <2>2. QED BY <2>1, <1>1, <1>2, Sizes, SMT
<1>4. (k + 1) * B = k * B + B BY <1>2, Sizes, SMT
<1>5. QED BY <1>1, <1>2, <1>3, <1>4, Sizes, SMT

(* An empty batch and an untouched file satisfy the invariant. *)
LEMMA InitInv == Init => LogInv
<1>1. 0 \in 0 .. FileBatches /\ 0 = 0 * B BY Sizes, SMT
<1>2. QED
  <2> SUFFICES ASSUME Init PROVE LogInv OBVIOUS
  <2>1. TypeOK
    <3>1. disk \in [Places -> Int] /\ sector \in [Batch -> Int] BY SMT DEF Init, Zero, Before
    <3>2. io \in [at : 0 .. BatchSectors, then : {"advance", "stay"}, back : {"test", "emit", "done"}]
      BY Sizes, SMT DEF Init
    <3>3. 0 \in 0 .. JW_BATCH_BYTES BY Sizes, SMT DEF B
    <3>4. Tests \in 0 .. Tests BY BenchLogAssumption, SMT
    <3>5. 0 \in 0 .. 0 /\ 0 \in Nat BY SMT
    <3>6. QED BY <3>1, <3>2, <3>3, <3>4, <3>5 DEF Init, TypeOK
  <2>2. Aligned /\ InPlace BY <1>1, Sizes, SMT DEF Init, Aligned, InPlace
  <2>3. BatchIsStream BY SMT DEF Init, BatchIsStream, Batch
  <2>4. NeverElsewhere /\ LinesDurable
    BY Sizes, SMT DEF Init, NeverElsewhere, LinesDurable, Zero, Before
  <2>5. FileIsPrefix BY Sizes, SMT DEF Init, FileIsPrefix, Places, Before
  <2>6. QED BY <2>1, <2>2, <2>3, <2>4, <2>5 DEF LogInv

--------------------------------------------------------------------------------
(* The steps.  What starts a write is alike in three of them. *)

(* write_current_batch hands the driver the batch with its tail cleared. *)
LEMMA WriteBegins ==
  ASSUME TypeOK, NEW s \in [Batch -> Int], NEW n \in 0 .. B, NEW then \in {"advance", "stay"},
         NEW back \in {"test", "emit", "done"}, BeginWrite(s, n, then, back)
  PROVE /\ sector' \in [Batch -> Int]
        /\ \A i \in Batch : sector'[i] = IF i < n THEN s[i] ELSE Zero
        /\ pc' = "write" /\ io' = [at |-> 0, then |-> then, back |-> back]
        /\ io' \in [at : 0 .. BatchSectors, then : {"advance", "stay"},
                    back : {"test", "emit", "done"}]
  BY Sizes, SMT DEF BeginWrite, Padded, Zero, Batch, B

(* jw_putc keeps the invariant: a full file takes nothing, a full batch is written. *)
LEMMA PutcStep == ASSUME LogInv, Putc PROVE LogInv'
<1>0. TypeOK /\ Aligned /\ InPlace /\ BatchIsStream /\ NeverElsewhere /\ FileIsPrefix /\ LinesDurable
      /\ pc = "emit" BY DEF LogInv, Putc
<1>1. CASE full
  <2>1. UNCHANGED <<pc, per_line, tests, writer, io, disk, committed>> /\ emitted' = emitted + 1
        /\ left' = left - 1 /\ left > 0
    BY <1>1 DEF Putc, writer
  <2>2. QED
    BY <1>0, <1>1, <2>1, Sizes, SMT
    DEF LogInv, TypeOK, Aligned, InPlace, BatchIsStream, NeverElsewhere, FileIsPrefix, LinesDurable,
        running, full, writer
<1>2. CASE ~full
  <2> DEFINE s == [sector EXCEPT ![used] = emitted]
  <2>1. /\ written < max_bytes /\ used < B /\ used \in Batch /\ emitted = written + used
        /\ written + used + 1 <= max_bytes
    BY <1>0, <1>2, Sizes, SMT DEF TypeOK, Aligned, InPlace, running, full, Batch, B
  <2>2. s \in [Batch -> Int] /\ \A i \in Batch : i < used + 1 => s[i] = written + i
    <3>1. sector \in [Batch -> Int] /\ emitted \in Int /\ used \in Nat BY <1>0, SMT DEF TypeOK
    <3>2. s \in [Batch -> Int] BY <3>1
    <3>3. ASSUME NEW i \in Batch, i < used + 1 PROVE s[i] = written + i
      <4>1. CASE i = used BY <4>1, <2>1, <3>1
      <4>2. CASE i # used
        <5>1. i < used BY <4>2, <3>1, <3>3, SMT DEF Batch
        <5>2. s[i] = sector[i] BY <4>2, <3>1
        <5>3. QED BY <5>1, <5>2, <1>0 DEF BatchIsStream
      <4>3. QED BY <4>1, <4>2
    <3>4. QED BY <3>2, <3>3
  <2>3. /\ used' = used + 1 /\ emitted' = emitted + 1 /\ left' = left - 1 /\ left > 0
        /\ UNCHANGED <<per_line, tests, written, last_err, disk, committed>>
    BY <1>2 DEF Putc
  <2>4. CASE used + 1 = JW_BATCH_BYTES
    <3>1. BeginWrite(s, used + 1, "advance", "emit") BY <1>2, <2>4 DEF Putc
    <3>2. written + B <= max_bytes BY <1>0, <2>1, BatchInside
    <3> HIDE DEF s
    <3>3. /\ sector' \in [Batch -> Int]
          /\ \A i \in Batch : sector'[i] = IF i < used + 1 THEN s[i] ELSE Zero
          /\ pc' = "write" /\ io' = [at |-> 0, then |-> "advance", back |-> "emit"]
          /\ io' \in [at : 0 .. BatchSectors, then : {"advance", "stay"},
                      back : {"test", "emit", "done"}]
      <4>1. used + 1 \in 0 .. B BY <2>4, Sizes, SMT DEF B
      <4>2. QED BY <1>0, <2>2, <3>1, <4>1, WriteBegins
    <3>4. TypeOK' BY <1>0, <2>1, <2>3, <3>3, Sizes, SMT DEF TypeOK, Batch, B
    <3>5. Aligned' /\ InPlace' BY <1>0, <2>1, <2>3, <3>3, Sizes, SMT DEF TypeOK, Aligned, InPlace, running
    <3>6. BatchIsStream'
      BY <1>0, <2>1, <2>2, <2>3, <2>4, <3>2, <3>3, Sizes, SMT DEF TypeOK, BatchIsStream, Batch, B
    <3>7. NeverElsewhere' /\ LinesDurable' BY <1>0, <2>3, SMT DEF NeverElsewhere, LinesDurable, Places, max_bytes, JW_BATCH_BYTES, Zero, Before
    <3>8. FileIsPrefix'
      BY <1>0, <2>1, <2>3, <3>3, Sizes, SMT DEF TypeOK, FileIsPrefix, running, Places
    <3>9. QED BY <3>4, <3>5, <3>6, <3>7, <3>8 DEF LogInv
  <2>5. CASE used + 1 # JW_BATCH_BYTES
    <3>1. sector' = s /\ UNCHANGED <<pc, io>> BY <1>2, <2>5 DEF Putc
    <3> HIDE DEF s
    <3>2. TypeOK' BY <1>0, <2>1, <2>2, <2>3, <2>5, <3>1, Sizes, SMT DEF TypeOK, Batch, B
    <3>3. Aligned' /\ InPlace'
      BY <1>0, <2>1, <2>3, <2>5, <3>1, Sizes, SMT DEF TypeOK, Aligned, InPlace, running, B
    <3>4. BatchIsStream' BY <1>0, <2>1, <2>2, <2>3, <3>1, SMT DEF BatchIsStream
    <3>5. NeverElsewhere' /\ LinesDurable' BY <1>0, <2>3, SMT DEF NeverElsewhere, LinesDurable, Places, max_bytes, JW_BATCH_BYTES, Zero, Before
    <3>6. FileIsPrefix'
      BY <1>0, <2>1, <2>3, <3>1, Sizes, SMT DEF TypeOK, FileIsPrefix, running, Places
    <3>7. QED BY <3>2, <3>3, <3>4, <3>5, <3>6 DEF LogInv
  <2>6. QED BY <2>4, <2>5
<1>3. QED BY <1>1, <1>2

(* Actions that touch neither the batch nor the disk, but may start a write *)
LEMMA StayStep ==
  ASSUME LogInv, pc = "test" \/ pc = "emit", NEW then \in {"advance", "stay"},
         NEW back \in {"test", "done"}, then = "advance" => back = "done",
         used > 0, BeginWrite(sector, used, then, back),
         UNCHANGED <<per_line, tests, left, used, written, last_err, disk, emitted, committed>>
  PROVE LogInv'
<1>0. TypeOK /\ Aligned /\ InPlace /\ BatchIsStream /\ NeverElsewhere /\ FileIsPrefix /\ LinesDurable
  BY DEF LogInv
<1>1. used < B /\ used \in 0 .. B /\ sector \in [Batch -> Int] /\ written < max_bytes
  BY <1>0, Sizes, SMT DEF TypeOK, Aligned, B
<1>2. written + B <= max_bytes BY <1>0, <1>1, BatchInside
<1>3. /\ sector' \in [Batch -> Int]
      /\ \A i \in Batch : sector'[i] = IF i < used THEN sector[i] ELSE Zero
      /\ pc' = "write" /\ io' = [at |-> 0, then |-> then, back |-> back]
      /\ io' \in [at : 0 .. BatchSectors, then : {"advance", "stay"},
                  back : {"test", "emit", "done"}]
  BY <1>0, <1>1, WriteBegins
<1>4. TypeOK' BY <1>0, <1>3 DEF TypeOK
<1>5. Aligned' /\ InPlace' BY <1>0, <1>3, Sizes, SMT DEF Aligned, InPlace, running
<1>6. BatchIsStream'
  BY <1>0, <1>1, <1>2, <1>3, Sizes, SMT DEF TypeOK, BatchIsStream, Batch, B
<1>7. NeverElsewhere' /\ LinesDurable'
  BY <1>0, SMT DEF NeverElsewhere, LinesDurable, Places, max_bytes, JW_BATCH_BYTES, Zero, Before
<1>8. FileIsPrefix' BY <1>0, <1>3, Sizes, SMT DEF TypeOK, FileIsPrefix, running, Places
<1>9. QED BY <1>4, <1>5, <1>6, <1>7, <1>8 DEF LogInv

\* A commit that has nothing to write returns with everything in the file
LEMMA NothingToWrite ==
  ASSUME LogInv, pc = "test" \/ pc = "emit", used = 0, pc' \in {"test", "done"},
         committed' \in {committed, emitted},
         UNCHANGED <<per_line, sector, io, tests, left, used, written, last_err, disk, emitted>>
  PROVE LogInv'
<1>0. TypeOK /\ Aligned /\ InPlace /\ BatchIsStream /\ NeverElsewhere /\ FileIsPrefix /\ LinesDurable
  BY DEF LogInv
<1>1. TypeOK' BY <1>0, SMT DEF TypeOK
<1>2. Aligned' /\ InPlace' BY <1>0, Sizes, SMT DEF Aligned, InPlace, running
<1>3. BatchIsStream' BY <1>0, SMT DEF BatchIsStream
<1>4. NeverElsewhere' BY <1>0, SMT DEF NeverElsewhere, Places, max_bytes, JW_BATCH_BYTES, Zero, Before
<1>5. FileIsPrefix' BY <1>0, Sizes, SMT DEF TypeOK, FileIsPrefix, running, Places
<1>6. LinesDurable'
  <2>1. ASSUME ~last_err, NEW p \in 0 .. max_bytes - 1, p < emitted PROVE disk[p] = p
    <3>1. p < written
      <4>1. p \in Nat /\ p < max_bytes /\ written \in Nat /\ emitted \in Nat
        BY <1>0, <2>1, Sizes, SMT DEF TypeOK
      <4>2. written < max_bytes => emitted = written
        BY <1>0, <4>1, SMT DEF InPlace, running
      <4>3. QED BY <4>1, <4>2, <2>1, Sizes, SMT
    <3>2. p \in Places BY Sizes, SMT DEF Places, B
    <3>3. QED BY <3>1, <3>2, <2>1, <1>0 DEF FileIsPrefix, running
  <2>2. CASE committed' = emitted
    BY <2>1, <2>2, <1>0, SMT DEF LinesDurable, max_bytes, JW_BATCH_BYTES
  <2>3. CASE committed' = committed
    BY <2>3, <1>0, SMT DEF LinesDurable, max_bytes, JW_BATCH_BYTES
  <2>4. QED BY <2>2, <2>3
<1>7. QED BY <1>1, <1>2, <1>3, <1>4, <1>5, <1>6 DEF LogInv

\* The bench moves on between two calls of the writer, or stops
LEMMA TurnStep ==
  ASSUME LogInv, UNCHANGED <<writer, io, disk, emitted, committed, per_line>>,
         tests' \in 0 .. Tests, left' \in Nat,
         (pc \in {"test", "emit"} /\ pc' \in {"test", "emit"}) \/ pc' = "down"
  PROVE LogInv'
<1>1. TypeOK' BY SMT DEF LogInv, TypeOK, writer
<1>2. Aligned' /\ InPlace' BY Sizes, SMT DEF LogInv, Aligned, InPlace, running, writer
<1>3. BatchIsStream' BY SMT DEF LogInv, BatchIsStream, writer
<1>4. NeverElsewhere' /\ LinesDurable'
  <2>1. UNCHANGED <<disk, last_err, committed>> /\ NeverElsewhere /\ LinesDurable BY DEF LogInv, writer
  <2>2. NeverElsewhere'
    BY <2>1, SMT DEF NeverElsewhere, Places, max_bytes, JW_BATCH_BYTES, Zero, Before
  <2>3. LinesDurable' BY <2>1, SMT DEF LinesDurable, max_bytes, JW_BATCH_BYTES
  <2>4. QED BY <2>2, <2>3
<1>5. FileIsPrefix' BY Sizes, SMT DEF LogInv, TypeOK, FileIsPrefix, running, Places, writer
<1>6. QED BY <1>1, <1>2, <1>3, <1>4, <1>5 DEF LogInv

(* jw_commit_line keeps the invariant, in the benches that call it and those that do not. *)
LEMMA LineEndsStep == ASSUME LogInv, LineEnds PROVE LogInv'
<1>1. pc = "emit" BY DEF LineEnds
<1>2. UNCHANGED <<per_line, tests, left, used, written, last_err, disk, emitted>> BY DEF LineEnds
<1>3. CASE per_line /\ used > 0
  <2>1. BeginWrite(sector, used, "stay", "test") /\ UNCHANGED committed BY <1>3 DEF LineEnds
  <2>2. QED BY <1>1, <1>2, <1>3, <2>1, StayStep
<1>4. CASE per_line /\ ~(used > 0)
  <2>1. used = 0 BY <1>4, SMT DEF LogInv, TypeOK
  <2>2. pc' = "test" /\ UNCHANGED <<sector, io>> /\ committed' = emitted BY <1>4 DEF LineEnds
  <2>3. QED BY <1>1, <1>2, <2>1, <2>2, NothingToWrite
<1>5. CASE ~per_line
  <2>1. pc' = "test" /\ UNCHANGED <<sector, io, committed>> BY <1>5 DEF LineEnds
  <2>2. tests' \in 0 .. Tests /\ left' \in Nat BY <1>2, SMT DEF LogInv, TypeOK
  <2>3. QED BY <1>1, <1>2, <2>1, <2>2, TurnStep DEF writer
<1>6. QED BY <1>3, <1>4, <1>5

(* jw_flush keeps the invariant. *)
LEMMA FlushStep == ASSUME LogInv, Flush PROVE LogInv'
<1>1. pc = "test" BY DEF Flush
<1>2. UNCHANGED <<per_line, tests, left, used, written, last_err, disk, emitted>> BY DEF Flush
<1>3. CASE used > 0
  <2>1. BeginWrite(sector, used, "advance", "done") /\ UNCHANGED committed BY <1>3 DEF Flush
  <2>2. QED BY <1>1, <1>2, <1>3, <2>1, StayStep
<1>4. CASE ~(used > 0)
  <2>1. used = 0 BY <1>4, SMT DEF LogInv, TypeOK
  <2>2. pc' = "done" /\ UNCHANGED <<sector, io>> /\ committed' = emitted BY <1>4 DEF Flush
  <2>3. QED BY <1>1, <1>2, <2>1, <2>2, NothingToWrite
<1>5. QED BY <1>3, <1>4

(* A test that ends, however it ends, touches no file. *)
LEMMA TestEndsStep == ASSUME LogInv, TestEnds PROVE LogInv'
<1>1. tests' \in 0 .. Tests /\ left' \in Nat
  BY BenchLogAssumption, SMT DEF TestEnds, LogInv, TypeOK
<1>2. QED BY <1>1, TurnStep DEF TestEnds

(* Nor does a hang or a loss of power. *)
LEMMA StopsStep == ASSUME LogInv, Stops PROVE LogInv'
<1>1. tests' \in 0 .. Tests /\ left' \in Nat BY SMT DEF Stops, LogInv, TypeOK
<1>2. QED BY <1>1, TurnStep DEF Stops

--------------------------------------------------------------------------------
(* The steps of the disk *)

(* A sector still to be written lies inside the batch. *)
LEMMA SectorFits ==
  ASSUME TypeOK, io.at < BatchSectors
  PROVE /\ io.at \in Nat /\ io.at * SectorBytes \in Nat
        /\ io.at * SectorBytes + SectorBytes <= B
        /\ (io.at + 1) * SectorBytes = io.at * SectorBytes + SectorBytes
<1>1. io.at \in Nat BY Sizes, SMT DEF TypeOK
<1>2. io.at * SectorBytes + SectorBytes <= BatchSectors * SectorBytes BY <1>1, Sizes, MultiplesApart
<1>3. QED BY <1>1, <1>2, Sizes, SMT

\* What one sector changes on the disk
LEMMA SectorContents ==
  ASSUME LogInv, WriteSector, NEW p \in Places
  PROVE /\ p \in Int
        /\ ~(written + io.at * SectorBytes <= p /\ p < written + io.at * SectorBytes + SectorBytes)
             => disk'[p] = disk[p]
        /\ written + io.at * SectorBytes <= p /\ p < written + io.at * SectorBytes + SectorBytes
             => /\ p < max_bytes
                /\ p < written + used => disk'[p] = p
                /\ ~(p < written + used) => disk'[p] = Zero
<1> DEFINE a == io.at * SectorBytes
<1>0. TypeOK /\ Aligned /\ BatchIsStream /\ pc = "write" /\ io.at < BatchSectors
  BY DEF LogInv, WriteSector
<1>1. a \in Nat /\ a + SectorBytes <= B BY <1>0, SectorFits
<1>2. batch_idx * JW_BATCH_BYTES = written /\ start = written + a BY <1>0, BatchPlace DEF start
<1> HIDE DEF a
<1>3. p \in Int /\ written \in Nat /\ used \in Nat BY <1>0, Sizes, SMT DEF Places, TypeOK
<1>4. disk'[p] = IF p \in written + a .. written + a + SectorBytes - 1
                 THEN sector[p - written] ELSE disk[p]
  BY <1>2 DEF WriteSector
<1>5. CASE written + a <= p /\ p < written + a + SectorBytes
  <2>1. p \in written + a .. written + a + SectorBytes - 1 BY <1>5, <1>1, <1>3, Sizes, SMT
  <2>2. disk'[p] = sector[p - written] BY <1>4, <2>1
  <2>3. p - written \in Batch /\ p < written + B
    BY <1>5, <1>1, <1>3, Sizes, SMT DEF Batch, B
  <2>4. written + B <= max_bytes /\ p < max_bytes
    BY <1>0, <2>3, <1>3, Sizes, SMT DEF BatchIsStream
  <2>5. p < written + used => sector[p - written] = p
    <3>1. p - written < used => sector[p - written] = written + (p - written)
      BY <1>0, <2>3 DEF BatchIsStream
    <3>2. QED BY <3>1, <1>3, SMT
  <2>6. ~(p < written + used) => sector[p - written] = Zero
    <3>1. p - written >= used => sector[p - written] = Zero BY <1>0, <2>3 DEF BatchIsStream
    <3>2. QED BY <3>1, <1>3, SMT
  <2>7. QED BY <1>3, <1>5, <2>2, <2>4, <2>5, <2>6 DEF a
<1>6. CASE ~(written + a <= p /\ p < written + a + SectorBytes)
  <2>1. p \notin written + a .. written + a + SectorBytes - 1 BY <1>6, <1>1, <1>3, Sizes, SMT
  <2>2. QED BY <1>3, <1>4, <1>6, <2>1 DEF a
<1>7. QED BY <1>5, <1>6

(* One sector of the _Write keeps the invariant. *)
LEMMA SectorStep == ASSUME LogInv, WriteSector PROVE LogInv'
<1> DEFINE a == io.at * SectorBytes
<1>0. TypeOK /\ Aligned /\ InPlace /\ BatchIsStream /\ NeverElsewhere /\ FileIsPrefix /\ LinesDurable
      /\ pc = "write" /\ io.at < BatchSectors
  BY DEF LogInv, WriteSector
<1>1. /\ UNCHANGED <<pc, per_line, tests, left, sector, used, written, last_err, emitted, committed>>
      /\ io' = [io EXCEPT !.at = @ + 1]
  BY DEF WriteSector, writer
<1>2. a \in Nat /\ io'.at * SectorBytes = a + SectorBytes /\ io'.then = io.then /\ io'.back = io.back
      /\ io' \in [at : 0 .. BatchSectors, then : {"advance", "stay"}, back : {"test", "emit", "done"}]
  <2>1. io.at \in Nat /\ (io.at + 1) * SectorBytes = a + SectorBytes /\ a \in Nat BY <1>0, SectorFits
  <2>2. io \in [at : 0 .. BatchSectors, then : {"advance", "stay"}, back : {"test", "emit", "done"}]
    BY <1>0 DEF TypeOK
  <2>3. io'.at = io.at + 1 /\ io'.then = io.then /\ io'.back = io.back BY <1>1, <2>2
  <2>4. io.at + 1 \in 0 .. BatchSectors BY <1>0, <2>1, Sizes, SMT
  <2>5. QED BY <1>1, <2>1, <2>2, <2>3, <2>4
<1>3. \A p \in Places :
        /\ p \in Int
        /\ ~(written + a <= p /\ p < written + a + SectorBytes) => disk'[p] = disk[p]
        /\ written + a <= p /\ p < written + a + SectorBytes
             => /\ p < max_bytes
                /\ p < written + used => disk'[p] = p
                /\ ~(p < written + used) => disk'[p] = Zero
  BY SectorContents
<1> HIDE DEF a
<1>4. written \in Nat /\ used \in Nat /\ emitted \in Nat /\ committed \in Nat /\ committed <= emitted
  BY <1>0, SMT DEF TypeOK
<1>5. \A p \in Places : disk'[p] \in Int
  BY <1>0, <1>3, SMT DEF TypeOK, Zero
<1>6. TypeOK'
  <2>1. disk' \in [Places -> Int]
    <3>1. disk' = [p \in Places |-> disk'[p]] BY DEF WriteSector
    <3>2. QED BY <3>1, <1>5
  <2>2. QED BY <1>0, <1>1, <1>2, <2>1 DEF TypeOK
<1>7. Aligned' /\ InPlace' BY <1>0, <1>1, SMT DEF Aligned, InPlace, running
<1>8. BatchIsStream' BY <1>0, <1>1, <1>2, SMT DEF BatchIsStream
<1>9. NeverElsewhere'
  <2>1. ASSUME NEW p \in Places
        PROVE disk'[p] \in IF p < max_bytes THEN {p, Zero, Before} ELSE {Before}
    BY <1>0, <1>3, <2>1 DEF NeverElsewhere
  <2>2. QED BY <2>1, SMT DEF NeverElsewhere, Places, max_bytes, JW_BATCH_BYTES, Zero, Before
<1>10. \A p \in Places : disk[p] = p => disk'[p] = p
  BY <1>0, <1>3 DEF FileIsPrefix
<1>11. LinesDurable'
  <2>1. ASSUME ~last_err, NEW p \in 0 .. max_bytes - 1, p < committed PROVE disk'[p] = p
    <3>1. disk[p] = p BY <1>0, <2>1 DEF LinesDurable
    <3>2. p \in Places BY Sizes, SMT DEF Places, B
    <3>3. QED BY <3>1, <3>2, <1>10
  <2>2. QED BY <1>1, <2>1, SMT DEF LinesDurable, max_bytes, JW_BATCH_BYTES
<1>12. FileIsPrefix'
  <2>1. ASSUME NEW p \in Places, disk'[p] = p PROVE p < written + used
    <3>1. p >= 0 BY SMT DEF Places
    <3>2. CASE written + a <= p /\ p < written + a + SectorBytes
      BY <3>1, <3>2, <2>1, <1>3, SMT DEF Zero
    <3>3. CASE ~(written + a <= p /\ p < written + a + SectorBytes)
      <4>1. disk[p] = p BY <3>3, <2>1, <1>3
      <4>2. QED BY <4>1, <1>0 DEF FileIsPrefix
    <3>4. QED BY <3>2, <3>3
  <2>2. ASSUME ~last_err, NEW p \in Places, p < written PROVE disk'[p] = p
    <3>1. disk[p] = p BY <1>0, <2>2 DEF FileIsPrefix, running
    <3>2. QED BY <3>1, <1>10
  <2>3. ASSUME ~last_err, NEW p \in Places, p < written + (a + SectorBytes), p < written + used
        PROVE disk'[p] = p
    <3>1. CASE p < written + a
      <4>1. disk[p] = p BY <1>0, <2>3, <3>1 DEF FileIsPrefix, a
      <4>2. QED BY <4>1, <1>10
    <3>2. CASE ~(p < written + a)
      <4>1. written + a <= p /\ p < written + a + SectorBytes
        BY <3>2, <2>3, <1>2, <1>3, <1>4, Sizes, SMT
      <4>2. QED BY <4>1, <2>3, <1>3
    <3>3. QED BY <3>1, <3>2
  <2>4. QED
    BY <1>1, <1>2, <2>1, <2>2, <2>3, SMT DEF FileIsPrefix, running, Places, max_bytes, JW_BATCH_BYTES
<1>13. QED BY <1>6, <1>7, <1>8, <1>9, <1>11, <1>12 DEF LogInv

\* What remains to be done when the trap returns, with or without an error
LEMMA ReturnStep ==
  ASSUME LogInv, pc = "write", WriteReturns,
         last_err' \in {last_err, TRUE}, last_err' = last_err => io.at = BatchSectors \/ last_err
  PROVE LogInv'
<1>0. TypeOK /\ Aligned /\ InPlace /\ BatchIsStream /\ NeverElsewhere /\ FileIsPrefix /\ LinesDurable
  BY DEF LogInv
<1>1. UNCHANGED <<sector, tests, left, io, disk, emitted, per_line>> /\ pc' = io.back
      /\ committed' \in {committed, emitted}
      /\ (io.then = "advance" => used' = 0 /\ written' = written + B)
      /\ (io.then = "stay" => used' = used /\ written' = written)
  BY SMT DEF WriteReturns, B
<1>2. /\ io.then \in {"advance", "stay"} /\ io.back \in {"test", "emit", "done"} /\ last_err \in BOOLEAN
      /\ written \in Nat /\ used \in 0 .. B /\ emitted \in Nat
  BY <1>0, SMT DEF TypeOK, B
<1>3. /\ used > 0 /\ written + B <= max_bytes /\ (io.then = "stay" => used < B)
      /\ (io.then = "advance" => used = B \/ io.back = "done")
  BY <1>0 DEF BatchIsStream
<1>4. written' \in Nat /\ used' \in 0 .. B /\ used' < B /\ written' + used' <= max_bytes
      /\ written + used <= written' + used'
  BY <1>0, <1>1, <1>2, <1>3, Sizes, SMT DEF Aligned
<1>5. running' => written + used = written' + used'
  BY <1>1, <1>2, <1>3, Sizes, SMT DEF running
<1>6. TypeOK'
  <2>1. committed' \in 0 .. emitted BY <1>0, <1>1, SMT DEF TypeOK
  <2>2. last_err' \in BOOLEAN BY <1>2
  <2>3. pc' \in {"test", "emit", "write", "done", "down"} BY <1>1, <1>2
  <2>4. QED BY <1>0, <1>1, <1>4, <2>1, <2>2, <2>3 DEF TypeOK, B
<1>7. Aligned'
  <2>1. \E k \in 0 .. FileBatches : written' = k * B
    <3>1. CASE io.then = "advance" BY <3>1, <1>0, <1>1, <1>3, NextAligned
    <3>2. CASE io.then = "stay" BY <3>2, <1>0, <1>1 DEF Aligned
    <3>3. QED BY <3>1, <3>2, <1>2
  <2>2. QED BY <2>1, <1>4, SMT DEF Aligned, max_bytes, JW_BATCH_BYTES, B
<1>8. InPlace'
  <2>1. QED BY <1>5, <1>0, <1>1, SMT DEF InPlace, running, max_bytes, JW_BATCH_BYTES
<1>9. BatchIsStream'
  <2>1. pc' # "write" BY <1>1, <1>2
  <2>2. \A i \in Batch : i < used' => sector'[i] = written' + i
    <3>1. CASE io.then = "advance" BY <3>1, <1>1, SMT DEF Batch
    <3>2. CASE io.then = "stay" BY <3>2, <1>0, <1>1 DEF BatchIsStream
    <3>3. QED BY <3>1, <3>2, <1>2
  <2>3. QED BY <2>1, <2>2, SMT DEF BatchIsStream, Batch, JW_BATCH_BYTES
<1>10. NeverElsewhere'
  BY <1>0, <1>1, SMT DEF NeverElsewhere, Places, max_bytes, JW_BATCH_BYTES, Zero, Before
<1>11. ASSUME ~last_err', NEW p \in Places, p < written + used PROVE disk[p] = p
  <2>1. ~last_err /\ io.at = BatchSectors BY <1>11, <1>2
  <2>2. p < written + io.at * SectorBytes
    BY <1>2, <1>11, <2>1, Sizes, SMT DEF Places
  <2>3. QED BY <1>0, <1>11, <2>1, <2>2 DEF FileIsPrefix
<1>12. FileIsPrefix'
  <2>1. ASSUME NEW p \in Places, disk[p] = p PROVE p < written' + used'
    <3>1. p < written + used BY <2>1, <1>0 DEF FileIsPrefix
    <3>2. p \in Int BY Sizes, SMT DEF Places, B
    <3>3. written + used \in Int /\ written' + used' \in Int BY <1>2, <1>4, Sizes, SMT
    <3>4. written + used <= written' + used' BY <1>4
    <3>5. QED BY <3>1, <3>2, <3>3, <3>4, LessTrans
  <2>2. ASSUME running', ~last_err', NEW p \in Places, p < written' PROVE disk[p] = p
    <3>1. p \in Int BY Sizes, SMT DEF Places, B
    <3>2. written' \in Int /\ used' \in Nat BY <1>4, Sizes, SMT
    <3>3. written' + used' \in Int /\ written' <= written' + used' BY <3>2, SumAbove
    <3>4. p < written' + used' BY <3>1, <3>2, <3>3, <2>2, LessTrans
    <3>5. p < written + used BY <3>4, <2>2, <1>5
    <3>6. QED BY <3>5, <2>2, <1>11
  <2>3. pc' # "write" BY <1>1, <1>2
  <2>4. QED BY <1>1, <2>1, <2>2, <2>3, SMT DEF FileIsPrefix, Places, max_bytes, JW_BATCH_BYTES
<1>13. LinesDurable'
  <2>1. ASSUME ~last_err', NEW p \in 0 .. max_bytes - 1, p < emitted PROVE disk[p] = p
    <3>1. p < written + used
      <4>1. written + used < max_bytes => emitted = written + used BY <1>0 DEF InPlace, running
      <4>2. QED BY <4>1, <2>1, <1>2, Sizes, SMT
    <3>2. p \in Places BY Sizes, SMT DEF Places, B
    <3>3. QED BY <3>1, <3>2, <2>1, <1>11
  <2>2. CASE committed' = emitted
    BY <2>1, <2>2, <1>1, SMT DEF LinesDurable, max_bytes, JW_BATCH_BYTES
  <2>3. CASE committed' = committed
    <3>1. ~last_err' => ~last_err BY <1>2
    <3>2. QED BY <3>1, <2>3, <1>0, <1>1, SMT DEF LinesDurable, max_bytes, JW_BATCH_BYTES
  <2>4. QED BY <2>2, <2>3, <1>1
<1>14. QED BY <1>6, <1>7, <1>8, <1>9, <1>10, <1>12, <1>13 DEF LogInv

--------------------------------------------------------------------------------
(* Every step keeps it. *)
LEMMA NextInv == LogInv /\ [Next]_vars => LogInv'
<1> SUFFICES ASSUME LogInv, [Next]_vars PROVE LogInv' OBVIOUS
<1>1. CASE TestEnds BY <1>1, TestEndsStep
<1>2. CASE Putc BY <1>2, PutcStep
<1>3. CASE LineEnds BY <1>3, LineEndsStep
<1>4. CASE Flush BY <1>4, FlushStep
<1>5. CASE WriteSector BY <1>5, SectorStep
<1>6. CASE WriteDone
  <2>1. pc = "write" /\ WriteReturns /\ last_err' = last_err /\ io.at = BatchSectors
    BY <1>6 DEF WriteDone
  <2>2. QED BY <2>1, ReturnStep
<1>7. CASE WriteFails
  <2>1. pc = "write" /\ WriteReturns /\ last_err' = TRUE BY <1>7 DEF WriteFails
  <2>2. QED BY <2>1, ReturnStep
<1>8. CASE Stops BY <1>8, StopsStep
<1>9. CASE UNCHANGED vars
  BY <1>9, SMT DEF vars, writer, LogInv, TypeOK, Aligned, InPlace, BatchIsStream, NeverElsewhere,
     FileIsPrefix, LinesDurable, running, Batch, Places, max_bytes, JW_BATCH_BYTES, Zero, Before, B
<1>10. QED BY <1>1, <1>2, <1>3, <1>4, <1>5, <1>6, <1>7, <1>8, <1>9 DEF Next

(* Whatever line lengths, errors and stops, what a commit has returned for is *)
(* in the file as long as no write failed (jsonl_writer.c, jw_commit_line).   *)
THEOREM CommittedIsDurable == Spec => []LinesDurable
<1>1. Spec => []LogInv BY InitInv, NextInv, PTL DEF Spec
<1>2. LogInv => LinesDurable BY DEF LogInv
<1>3. QED BY <1>1, <1>2, PTL

(* No character is ever in another's place, and nothing behind the file is   *)
(* written, also after failed writes (driver_write_sector's offset).         *)
THEOREM PlacesAreRight == Spec => []NeverElsewhere
<1>1. Spec => []LogInv BY InitInv, NextInv, PTL DEF Spec
<1>2. LogInv => NeverElsewhere BY DEF LogInv
<1>3. QED BY <1>1, <1>2, PTL

(* Rewriting a batch takes back none of its characters, sector by sector     *)
(* (write_current_batch clears only the tail that was never filled).         *)
THEOREM RewritingKeeps == Spec => NothingUnwritten
<1>1. Spec => []LogInv BY InitInv, NextInv, PTL DEF Spec
<1>2. LogInv /\ [Next]_vars => [\A p \in Places : disk[p] = p => disk'[p] = p]_vars
  <2> SUFFICES ASSUME LogInv, Next, NEW p \in Places, disk[p] = p PROVE disk'[p] = p OBVIOUS
  <2>1. CASE WriteSector
    <3>1. p < written + used BY DEF LogInv, FileIsPrefix
    <3>2. QED BY <2>1, <3>1, SectorContents
  <2>2. CASE ~WriteSector
    <3>1. UNCHANGED disk
      BY <2>2 DEF Next, TestEnds, Putc, LineEnds, Flush, WriteDone, WriteFails, WriteReturns, Stops
    <3>2. QED BY <3>1
  <2>3. QED BY <2>1, <2>2
<1>3. QED BY <1>1, <1>2, PTL DEF Spec, NothingUnwritten
=============================================================================
