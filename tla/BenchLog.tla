------------------------------- MODULE BenchLog -------------------------------
(***************************************************************************)
(* The results file of the test benches that run on the bare Mac: the      *)
(* batch writer (preboot/common/runtime/jsonl_writer.c), the loop of tests *)
(* that feeds it (bench_main.c, cpu_fpu_bench_main.c, diskio_main.c), and  *)
(* the disk below, which may fail or stop in the middle of a write.        *)
(*                                                                         *)
(* A line is as many characters as it has; the n-th character put is the   *)
(* number n, so that a place of the file shows whose character it holds.   *)
(***************************************************************************)
EXTENDS Integers

CONSTANTS
  SectorBytes,   \* bytes of a disk sector (512 in the code)
  BatchSectors,  \* sectors of a batch (JW_BATCH_BYTES is 32 of them)
  FileBatches,   \* batches of the file set aside on the disk (25)
  LineLengths,   \* lengths of a line
  Tests          \* tests the bench runs

ASSUME BenchLogAssumption ==
  /\ SectorBytes \in Nat \ {0} /\ BatchSectors \in Nat \ {0} /\ FileBatches \in Nat
  /\ LineLengths \subseteq Nat /\ Tests \in Nat

VARIABLES
  pc, per_line,                       \* where the bench is, whether it commits every line
  tests, left,                        \* tests to run, characters left of the line
  sector, used, written, last_err,    \* the JsonlWriter
  io,                                 \* the _Write under way: next sector, and what follows it
  disk,                               \* the file's bytes and those after it
  emitted, committed                  \* history: characters put, put when a commit last returned

writer == <<sector, used, written, last_err>>
vars == <<pc, per_line, tests, left, writer, io, disk, emitted, committed>>

JW_BATCH_BYTES == BatchSectors * SectorBytes
\* The writer's bound.  That the image sets as many bytes aside is up to the script
\* that builds it; iotest/build_dsk.sh:17 does not (16384 against diskio_main.c:557).
max_bytes == FileBatches * JW_BATCH_BYTES
Batch  == 0 .. JW_BATCH_BYTES - 1
Zero   == -1   \* a byte of padding
Before == -2   \* what was on the disk before
\* The file and a batch beyond it, which belongs to others
Places == 0 .. max_bytes + JW_BATCH_BYTES - 1

--------------------------------------------------------------------------------
\* The test under way ends, by itself or by an exception the recovery catches,
\* and its line is begun.
TestEnds ==
  /\ pc = "test" /\ tests > 0
  /\ tests' = tests - 1 /\ left' \in LineLengths
  /\ pc' = "emit"
  /\ UNCHANGED <<writer, io, disk, emitted, committed, per_line>>

\* The batch with its unused tail cleared
Padded(s, n) == [i \in Batch |-> IF i < n THEN s[i] ELSE Zero]

\* write_current_batch up to the _Write trap: `then` says whether the batch is
\* left afterwards (flush_sector) or filled on (jw_commit_line)
BeginWrite(s, n, then, back) ==
  /\ sector' = Padded(s, n)
  /\ pc' = "write" /\ io' = [at |-> 0, then |-> then, back |-> back]

full == written + used >= max_bytes

\* mutant: the test for a full file is left out
PutcUnbounded ==
  /\ pc = "emit" /\ left > 0
  /\ left' = left - 1 /\ emitted' = emitted + 1
  /\ used' = used + 1
  /\ LET s == [sector EXCEPT ![used] = emitted] IN
       IF used + 1 = JW_BATCH_BYTES
       THEN BeginWrite(s, used + 1, "advance", "emit")
       ELSE sector' = s /\ UNCHANGED <<pc, io>>
  /\ UNCHANGED <<tests, written, last_err, disk, committed, per_line>>
\* jw_putc
Putc ==
  /\ pc = "emit" /\ left > 0
  /\ left' = left - 1 /\ emitted' = emitted + 1
  /\ IF full THEN UNCHANGED <<sector, used, pc, io>>
     ELSE LET s == [sector EXCEPT ![used] = emitted] IN
          /\ used' = used + 1
          /\ IF used + 1 = JW_BATCH_BYTES
             THEN BeginWrite(s, used + 1, "advance", "emit")
             ELSE sector' = s /\ UNCHANGED <<pc, io>>
  /\ UNCHANGED <<tests, written, last_err, disk, committed, per_line>>

\* The line is complete.  jw_commit_line, in the benches that call it
LineEnds ==
  /\ pc = "emit" /\ left = 0
  /\ IF per_line /\ used > 0
     THEN BeginWrite(sector, used, "stay", "test") /\ UNCHANGED committed
     ELSE /\ pc' = "test" /\ UNCHANGED <<sector, io>>
          /\ committed' = IF per_line THEN emitted ELSE committed
  /\ UNCHANGED <<tests, left, used, written, last_err, disk, emitted, per_line>>

\* jw_flush, after the last test
Flush ==
  /\ pc = "test" /\ tests = 0
  /\ IF used > 0
     THEN BeginWrite(sector, used, "advance", "done") /\ UNCHANGED committed
     ELSE pc' = "done" /\ committed' = emitted /\ UNCHANGED <<sector, io>>
  /\ UNCHANGED <<tests, left, used, written, last_err, disk, emitted, per_line>>

--------------------------------------------------------------------------------
(* The disk takes a batch sector by sector. *)

batch_idx == written \div JW_BATCH_BYTES
start == batch_idx * JW_BATCH_BYTES + io.at * SectorBytes

WriteSector ==
  /\ pc = "write" /\ io.at < BatchSectors
  /\ disk' = [p \in Places |-> IF p \in start .. start + SectorBytes - 1
                               THEN sector[p - batch_idx * JW_BATCH_BYTES] ELSE disk[p]]
  /\ io' = [io EXCEPT !.at = @ + 1]
  /\ UNCHANGED <<pc, tests, left, writer, emitted, committed, per_line>>

\* mutant: a commit starts the batch over without going on to the next
WriteReturnsOver ==
  /\ used' = 0
  /\ written' = IF io.then = "advance" THEN written + JW_BATCH_BYTES ELSE written
  /\ pc' = io.back
  /\ committed' = IF io.back # "emit" THEN emitted ELSE committed
  /\ UNCHANGED <<sector, tests, left, io, disk, emitted, per_line>>
\* The rest of flush_sector, or of jw_commit_line, after the trap
WriteReturns ==
  /\ IF io.then = "advance"
     THEN used' = 0 /\ written' = written + JW_BATCH_BYTES
     ELSE UNCHANGED <<used, written>>
  /\ pc' = io.back
  /\ committed' = IF io.back # "emit" THEN emitted ELSE committed
  /\ UNCHANGED <<sector, tests, left, io, disk, emitted, per_line>>

WriteDone ==
  /\ pc = "write" /\ io.at = BatchSectors
  /\ WriteReturns /\ UNCHANGED last_err

\* mutant: the error is remembered only when the batch is left
WriteFailsForgotten ==
  /\ pc = "write" /\ io.at < BatchSectors
  /\ WriteReturns /\ last_err' = (last_err \/ io.then = "advance")
\* The driver gives up in front of any sector; last_err keeps the first error
WriteFails ==
  /\ pc = "write" /\ io.at < BatchSectors
  /\ WriteReturns /\ last_err' = TRUE

\* A test hangs, the driver never returns, or the power goes
Stops ==
  /\ pc \notin {"done", "down"}
  /\ pc' = "down"
  /\ UNCHANGED <<tests, left, writer, io, disk, emitted, committed, per_line>>

Init ==
  /\ pc = "test" /\ per_line \in BOOLEAN /\ tests = Tests /\ left = 0
  /\ sector = [i \in Batch |-> Zero] /\ used = 0 /\ written = 0 /\ last_err = FALSE
  /\ io = [at |-> 0, then |-> "stay", back |-> "test"]
  /\ disk = [p \in Places |-> Before]
  /\ emitted = 0 /\ committed = 0

Next == TestEnds \/ Putc \/ LineEnds \/ Flush \/ WriteSector \/ WriteDone \/ WriteFails \/ Stops

Spec == Init /\ [][Next]_vars

--------------------------------------------------------------------------------
TypeOK ==
  /\ pc \in {"test", "emit", "write", "done", "down"} /\ per_line \in BOOLEAN
  /\ tests \in 0 .. Tests /\ left \in Nat /\ emitted \in Nat /\ committed \in 0 .. emitted
  /\ sector \in [Batch -> Int] /\ used \in 0 .. JW_BATCH_BYTES /\ written \in Nat
  /\ last_err \in BOOLEAN
  /\ io \in [at : 0 .. BatchSectors, then : {"advance", "stay"}, back : {"test", "emit", "done"}]
  /\ disk \in [Places -> Int]

(* "Every JSONL line emitted before the hang is on disk" (jsonl_writer.c): as  *)
(* long as no write failed, what had been put when a commit last returned is   *)
(* in the file, up to its size, whatever was written after it and wherever it  *)
(* stopped: a commit rewrites, sector by sector, lines that were safe.         *)
LinesDurable ==
  ~last_err => \A p \in 0 .. max_bytes - 1 : p < committed => disk[p] = p

(* A character is on the disk in its own place or not at all, also after       *)
(* failed writes, a full file and a stop in the middle of a batch; and what    *)
(* lies after the file is never touched.                                       *)
NeverElsewhere ==
  \A p \in Places : disk[p] \in IF p < max_bytes THEN {p, Zero, Before} ELSE {Before}

(* No later write takes back a character the file already holds: rewriting     *)
(* the batch with its tail cleared clears only what was never filled.          *)
NothingUnwritten ==
  [][\A p \in Places : disk[p] = p => disk'[p] = p]_vars
=============================================================================
