----------------------------- MODULE MCSimBench -------------------------------
(***************************************************************************)
(* An instance of SimBench for TLC: two images, a ROM, a NuBus ROM and two *)
(* floppies, the internal one large enough to reach the NuBus ROM's window *)
(***************************************************************************)
EXTENDS SimBench

F(n, i, w, odd, opens) == [name |-> n, index |-> i, words |-> w, odd |-> odd, opens |-> opens]

MCStartup == <<F("boot0", ROM, 2, FALSE, TRUE), F("boot2", NuBus, 1, TRUE, TRUE),
               F("floppy0", Internal, 3, FALSE, TRUE), F("floppy1", External, 1, TRUE, TRUE)>>
MCMenu    == {F("other", ROM, 1, FALSE, TRUE), F("missing", ROM, 1, FALSE, FALSE)}
=============================================================================
