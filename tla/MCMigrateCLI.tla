---------------------------- MODULE MCMigrateCLI ----------------------------
(* MigrateCLI for TLC. *)
EXTENDS MigrateCLI, TLC

CONSTANTS p1, p2
Symmetry == Permutations({p1, p2})
=============================================================================
