------------------------------ MODULE HpsDevice ------------------------------
(***************************************************************************)
(* The block device behind hps_io (the HPS), as the target sees it: it     *)
(* polls io_rd and io_wr, takes the sector address it sees at that moment, *)
(* and some time later opens an acknowledge window in which it strobes the *)
(* sector into the buffer, or copies it out.  Once it has taken a request  *)
(* it completes it, whatever the target does meanwhile.                    *)
(***************************************************************************)
EXTENDS ScsiTarget

CONSTANT MaxEmpty   \* bound: acknowledge windows that carry no data

VARIABLES
  commands,  \* dialogs started: the device remembers whose request it holds
  empties    \* windows without data so far

ASSUME EmptyAssumption == MaxEmpty \in Nat

\* The request the device holds moves on to st
HpsAt(st, done) == [st |-> st, op |-> hps.op, lba |-> hps.lba, done |-> done,
                    owner |-> hps.owner]

HpsQuiet == UNCHANGED <<hps, disk, empties>> /\ sd_buff_wr' = FALSE

HpsPoll ==
  /\ hps.st = "idle" /\ (io_rd \/ io_wr)
  /\ hps' = [st |-> "taken", op |-> IF io_wr THEN "write" ELSE "read",
             lba |-> lba, done |-> FALSE, owner |-> commands]
  /\ sd_buff_wr' = FALSE /\ UNCHANGED <<disk, empties>>

HpsOpenWindow ==
  /\ hps.st = "taken"
  /\ hps' = HpsAt("ack", FALSE)
  /\ sd_buff_wr' = FALSE /\ UNCHANGED <<disk, empties>>

HpsStream ==
  /\ hps.st = "ack" /\ hps.op = "read" /\ ~hps.done
  /\ hps' = HpsAt("ack", TRUE)
  /\ sd_buff_wr' = TRUE /\ UNCHANGED <<disk, empties>>

\* The device copies the slot the target shows it to the sector it took.
HpsCollect ==
  /\ hps.st = "ack" /\ hps.op = "write" /\ ~hps.done
  /\ hps' = HpsAt("ack", TRUE)
  /\ disk' = IF hps.lba \in Lba THEN [disk EXCEPT ![hps.lba] = buf[hps_slot]] ELSE disk
  /\ sd_buff_wr' = FALSE /\ UNCHANGED empties

\* The window closes after the data, or, when the image is not attached yet,
\* without any.
HpsCloseWindow ==
  /\ hps.st = "ack" /\ ~sd_buff_wr
  /\ \/ hps.done /\ UNCHANGED empties
     \/ ~hps.done /\ hps.op = "read" /\ empties < MaxEmpty /\ empties' = empties + 1
  /\ hps' = HpsAt("idle", hps.done)
  /\ sd_buff_wr' = FALSE /\ UNCHANGED disk

HpsMove == HpsPoll \/ HpsOpenWindow \/ HpsStream \/ HpsCollect \/ HpsCloseWindow
HpsClk  == HpsQuiet \/ HpsMove

\* The contents of the image before anything is written
image(l) == [o \in Offset |-> DiskByte(l, o)]

HpsInit ==
  /\ hps = [st |-> "idle", op |-> "read", lba |-> 0, done |-> TRUE, owner |-> 0]
  /\ sd_buff_wr = FALSE /\ disk = [l \in Lba |-> image(l)]
  /\ commands = 0 /\ empties = 0
=============================================================================
