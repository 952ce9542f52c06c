------------------------------ MODULE MCBenchLog ------------------------------
(* BenchLog with two batches of two sectors of two bytes. *)
EXTENDS BenchLog
=============================================================================
