--------------------------- MODULE MCV3Processes ---------------------------
(* V3Processes for TLC. *)
EXTENDS V3Processes
MCChains == UNION {[1..n -> {"pass", "retry", "timeout"}] : n \in 0..3}
=============================================================================
