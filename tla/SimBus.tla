-------------------------------- MODULE SimBus --------------------------------
(***************************************************************************)
(* The file loader of the Verilator bench (verilator/sim/sim_bus.cpp): a   *)
(* queue of files, streamed one word at a time over the download port      *)
(* before every rising clock the core does not hold back.                  *)
(*                                                                         *)
(* A file is a record: its name, the port index it is loaded under, its    *)
(* words, whether its last byte is half a word, and whether it opens.      *)
(***************************************************************************)
EXTENDS Integers, Sequences

CONSTANTS Startup,  \* the files queued before the first clock, in order
          Menu      \* files the menu may load later

\* The names of the indices the core tells apart
ROM == 0
NuBus == 1
Internal == 2
External == 3

File == [name : STRING, index : {ROM, NuBus, Internal, External}, words : Nat,
         odd : BOOLEAN, opens : BOOLEAN]
ASSUME FileAssumption == /\ Startup \in Seq(File)
                         /\ Menu \subseteq {f \in File : f.index = ROM}

NoFile == [name |-> "none"]
word(f, k) == <<f.name, k>>

--------------------------------------------------------------------------------
(* One call of BeforeEval.  b is the loader. *)

\* The next file is taken when none is open; every caller asks for the
\* addresses to start again
Take(b) ==
  IF b.file = NoFile /\ b.queue # <<>>
  THEN LET f == Head(b.queue)
       IN [b EXCEPT !.queue = Tail(@), !.next = 0, !.addr = 0, !.index = f.index,
                    !.eof = FALSE, !.file = IF f.opens THEN f ELSE NoFile]
  ELSE b

\* One word; the read that meets the end of the file leaves the last one driven
ReadFile(b) ==
  IF b.next < b.file.words
  THEN [b EXCEPT !.download = TRUE, !.addr = b.next, !.dout = word(b.file, b.next), !.wr = TRUE,
                 !.next = @ + 1, !.eof = b.file.odd /\ b.next + 1 = b.file.words]
  ELSE [b EXCEPT !.download = TRUE, !.eof = TRUE]

Close(b) == [b EXCEPT !.file = NoFile, !.download = FALSE, !.wr = FALSE]

Stream(b, wait) ==
  CASE b.file = NoFile -> [b EXCEPT !.download = FALSE, !.wr = FALSE]
    [] b.file # NoFile /\ wait -> b
    [] b.file # NoFile /\ ~wait /\ b.eof -> Close(b)
    [] OTHER -> ReadFile(b)

LoaderStep(b, wait) == Stream(Take(b), wait)

QueueDownload(b, f) == [b EXCEPT !.queue = Append(@, f)]

LoaderInit == [queue |-> Startup, file |-> NoFile, eof |-> FALSE, next |-> 0, addr |-> 0,
               index |-> 0, dout |-> word(NoFile, 0), wr |-> FALSE, download |-> FALSE]
=============================================================================
