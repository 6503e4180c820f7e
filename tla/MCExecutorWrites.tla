------------------------- MODULE MCExecutorWrites -------------------------
(* ExecutorWrites for TLC. *)
EXTENDS ExecutorWrites
CONSTANTS c1, c2
=============================================================================
