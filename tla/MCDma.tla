-------------------------------- MODULE MCDma --------------------------------
(***************************************************************************)
(* Instances of ScsiDma for TLC: sectors of four bytes.                    *)
(***************************************************************************)
EXTENDS ScsiDma

MCLba == 0 .. 3

Cdb(o, l, n) == [op |-> o, bytes |-> 1, lba |-> l, len |-> [blk |-> n, off |-> 0]]

MCBoth     == {Cdb(o, p[1], p[2]) : o \in {"read", "write"}, p \in {<<0, 1>>, <<1, 3>>}}
MCWrite    == {Cdb("write", 0, 1)}

\* Every unit that stays inside its sector; written words at even places, or
\* anywhere.
Inside(o)  == {u \in {o} \X {1, 2, 4} \X Offset : u[2] + u[3] <= SectorBytes}
Bytes(s)   == {u \in s : u[2] = 1}
Words(s)   == {u \in s : u[2] = 2}
MCOddWords == Bytes(Inside("write")) \cup Words(Inside("write"))
MCEven     == Inside("read") \cup {u \in MCOddWords : u[2] = 1 \/ u[3] % 2 = 0}
=============================================================================
