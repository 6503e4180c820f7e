-------------------------- MODULE MigrationLedger --------------------------
(***************************************************************************)
(* What the migration history promises, without processes, statements or   *)
(* transactions: a migration's SQL and its row change in one step.         *)
(***************************************************************************)
EXTENDS Integers

CONSTANT Names

VARIABLES row, effect

Init ==
  /\ row = [m \in Names |-> "absent"]
  /\ effect = [m \in Names |-> 0]

\* apply, deploy, dev --apply
ApplyOne(m) ==
  /\ row[m] = "absent"
  /\ row' = [row EXCEPT ![m] = "applied"]
  /\ effect' = [effect EXCEPT ![m] = @ + 1]

\* rollback: only what is applied and not rolled back yet
UndoOne(m) ==
  /\ row[m] = "applied"
  /\ row' = [row EXCEPT ![m] = "rolledback"]
  /\ effect' = [effect EXCEPT ![m] = @ - 1]

\* resolve: the row alone, by hand
Forget(m) == row' = [row EXCEPT ![m] = "absent"] /\ UNCHANGED effect
Declare(m) == row[m] = "absent" /\ row' = [row EXCEPT ![m] = "applied"] /\ UNCHANGED effect

Next == \E m \in Names : ApplyOne(m) \/ UndoOne(m) \/ Forget(m) \/ Declare(m)

Spec == Init /\ [][Next]_<<row, effect>>
=============================================================================
