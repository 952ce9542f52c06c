------------------------------- MODULE MCCpuBus -------------------------------
(***************************************************************************)
(* An instance of CpuBus for TLC: one word each of RAM, ROM, the frame     *)
(* buffer and a floppy image, at rows and columns such that an address     *)
(* mixed from two of them is a third one.                                  *)
(***************************************************************************)
EXTENDS CpuBus

MCRam  == {<<1, 1>>}
MCRom  == {<<0, 1>>}
MCVideo == {<<0, 0>>}
MCDisk == {<<1, 0>>}
MCIo   == <<0, 2>>

\* Two words that differ in both lanes, in a pattern that no neighbour shares.
MCWord(n) == [b \in Lanes |-> IF b = "upper" THEN n ELSE 1 - n]
MCData    == {MCWord(0), MCWord(1)}
MCImages  == {[l \in Location |-> MCWord(l[1])]}
=============================================================================
