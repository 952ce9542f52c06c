-------------------------------- MODULE MCScsi --------------------------------
(***************************************************************************)
(* Instances of ScsiBus for TLC: sectors of a few bytes, one-byte command  *)
(* blocks, short transfers.                                                *)
(***************************************************************************)
EXTENDS ScsiBus

MCLba == 0 .. 4

Cdb(o, l, n, b) == [op |-> o, bytes |-> 1, lba |-> l, len |-> [blk |-> n, off |-> b]]

MCReads    == {Cdb("read", 0, 3, 0), Cdb("read", 3, 1, 0), Cdb("reply", 0, 0, 1)}
MCWrites   == {Cdb("write", 0, 3, 0), Cdb("write", 3, 1, 0), Cdb("write", 1, 0, 0)}
MCOthers   == {Cdb("none", 0, 0, 0), Cdb("bad", 0, 0, 0), Cdb("param", 0, 0, 1),
               Cdb("reply", 0, 0, 0)}
\* a CDB of the groups 3, 4, 6 and 7, whose bytes never make a complete command
MCEndless  == {[Cdb("bad", 0, 0, 0) EXCEPT !.bytes = NoEnd]}
MCAll      == MCReads \cup MCWrites \cup MCOthers \cup MCEndless
=============================================================================
