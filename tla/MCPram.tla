------------------------------- MODULE MCPram -------------------------------
(* PramStore with two words, one image and one disk. *)
EXTENDS PramStore
=============================================================================
