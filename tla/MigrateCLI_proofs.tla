-------------------------- MODULE MigrateCLI_proofs --------------------------
(***************************************************************************)
(* Proofs about MigrateCLI, for any number of processes and migrations and *)
(* with no bound on the commands: type correctness; the history table      *)
(* tells the truth about every transactional migration; nothing is         *)
(* recorded before it has been executed; deploy and rollback do not claim  *)
(* what they have not done; and one process at a time implements the       *)
(* ledger.                                                                 *)
(***************************************************************************)
EXTENDS MigrateCLI, TLAPS

-----------------------------------------------------------------------------
(* Type correctness.                                                       *)

\* A command that starts leaves its process's variables well typed.
LEMMA StartTypes ==
  ASSUME TypeOK, NEW p \in Procs, NEW W \in SUBSET Names, NEW label \in Labels,
         Start(p, W, label), UNCHANGED outcome
  PROVE  ProgressTypes' /\ CursorTypes'
  BY DEF TypeOK, DatabaseTypes, ProgressTypes, CursorTypes, Start, Goto

\* So does one that ends at once.
LEMMA ReportTypes ==
  ASSUME TypeOK, NEW p \in Procs, NEW o \in Outcomes, StartAndReport(p, o)
  PROVE  ProgressTypes' /\ CursorTypes'
<1>1. "idle" \in Labels
  BY DEF Labels
<1> QED
  BY <1>1 DEF TypeOK, DatabaseTypes, ProgressTypes, CursorTypes, StartAndReport, Start, Goto

\* And the end of an iteration of the loop over the migrations.
LEMMA NextMigrationTypes ==
  ASSUME TypeOK, NEW p \in Procs, NEW m \in Names, NEW ok \in BOOLEAN, NEW loop \in Labels,
         NextMigration(p, m, ok, loop)
  PROVE  ProgressTypes'
<1> DEFINE bad == failed[p] \/ ~ok
           last == todo[p] \subseteq {m}
<1>1. (IF last THEN "idle" ELSE loop) \in Labels
  BY DEF Labels
<1>2. (IF ~last THEN outcome[p] ELSE IF bad THEN "failed" ELSE "success") \in Outcomes
  BY DEF TypeOK, ProgressTypes, Outcomes
<1>3. bad \in BOOLEAN
  BY DEF TypeOK, ProgressTypes
<1> HIDE DEF bad, last
<1>4. /\ todo' = [todo EXCEPT ![p] = todo[p] \ {m}]
      /\ failed' = [failed EXCEPT ![p] = bad]
      /\ pc' = [pc EXCEPT ![p] = IF last THEN "idle" ELSE loop]
      /\ outcome' = [outcome EXCEPT ![p] =
                       IF ~last THEN outcome[p] ELSE IF bad THEN "failed" ELSE "success"]
      /\ UNCHANGED <<plan, seen>>
  BY DEF NextMigration, Goto, local, bad, last
<1> QED
  BY <1>1, <1>2, <1>3, <1>4 DEF TypeOK, ProgressTypes

\* A jump to another statement.
LEMMA GotoTypes ==
  ASSUME TypeOK, NEW p \in Procs, NEW label \in Labels, Goto(p, label),
         UNCHANGED <<local, todo, failed, outcome>>
  PROVE  ProgressTypes'
  BY DEF TypeOK, ProgressTypes, Goto, local

\* The initial state is well typed.
LEMMA TypeInit == Init => TypeOK
<1> SUFFICES ASSUME Init PROVE TypeOK
  OBVIOUS
<1>1. {"none"} \cup RollbackKinds \subseteq {"none", "sql", "comment", "missing"}
  BY RollbackKindsAssumption
<1>2. dir \in [Names -> {"none", "sql", "comment", "missing"}]
  <2>1. dir \in [Names -> {"none"} \cup RollbackKinds]
    BY DEF Init
  <2> QED BY <1>1, <2>1
<1> QED
  BY NAssumption, <1>2
     DEF Init, TypeOK, DatabaseTypes, ProgressTypes, CursorTypes, Names, Labels, Outcomes

\* Every command and statement keeps the variables in their sets.
LEMMA TypeStep == TypeOK /\ [Next]_vars => TypeOK'
<1> SUFFICES ASSUME TypeOK, [Next]_vars PROVE TypeOK'
  OBVIOUS
<1>0. /\ {"idle", "confirmDeploy", "confirmRollback", "migrate", "record", "commit",
          "check", "undo", "mark", "commitUndo", "insert", "delete"} \subseteq Labels
      /\ {"success", "up_to_date", "unreadable", "nothing", "aborted", "killed"} \subseteq Outcomes
  BY DEF Labels, Outcomes
<1> USE <1>0
<1>1. ASSUME NEW p \in Procs, NEW m \in Names, NEW a \in BOOLEAN, Dev(p, m, a) PROVE TypeOK'
  <2>1. DatabaseTypes'
    BY <1>1, RollbackKindsAssumption DEF Dev, TypeOK, DatabaseTypes, history
  <2>2. ProgressTypes' /\ CursorTypes'
    <3>1. CASE a
      BY <1>1, <3>1, StartTypes DEF Dev
    <3>2. CASE ~a
      BY <1>1, <3>2, ReportTypes DEF Dev
    <3> QED BY <3>1, <3>2
  <2> QED BY <2>1, <2>2 DEF TypeOK
<1>2. ASSUME NEW p \in Procs, NEW m \in Names, Apply(p, m) PROVE TypeOK'
  <2>1. ProgressTypes' /\ CursorTypes'
    BY <1>2, StartTypes DEF Apply
  <2> QED BY <1>2, <2>1 DEF Apply, TypeOK, DatabaseTypes, history
<1>3. ASSUME NEW p \in Procs, Deploy(p) PROVE TypeOK'
  <2> DEFINE pending == {m \in Names : dir[m] # "none"} \ Recorded
  <2>1. pending \in SUBSET Names
    OBVIOUS
  <2> HIDE DEF pending
  <2>2. \/ StartAndReport(p, "unreadable")
        \/ StartAndReport(p, "up_to_date")
        \/ Start(p, pending, "confirmDeploy") /\ UNCHANGED outcome
    BY <1>3 DEF Deploy, pending
  <2>3. ProgressTypes' /\ CursorTypes'
    <3>1. CASE StartAndReport(p, "unreadable")
      BY <3>1, ReportTypes
    <3>2. CASE StartAndReport(p, "up_to_date")
      BY <3>2, ReportTypes
    <3>3. CASE Start(p, pending, "confirmDeploy") /\ UNCHANGED outcome
      BY <2>1, <3>3, StartTypes
    <3> QED BY <2>2, <3>1, <3>2, <3>3
  <2> QED BY <1>3, <2>3 DEF Deploy, TypeOK, DatabaseTypes, history
<1>4. ASSUME NEW p \in Procs, NEW T \in SUBSET Names, RollbackOf(p, T) PROVE TypeOK'
  <2>1. ProgressTypes' /\ CursorTypes'
    <3>1. CASE StartAndReport(p, "unreadable")
      BY <3>1, ReportTypes
    <3>2. CASE StartAndReport(p, "nothing")
      BY <3>2, ReportTypes
    <3>3. CASE Start(p, T, "confirmRollback") /\ UNCHANGED outcome
      BY <3>3, StartTypes
    <3> QED BY <1>4, <3>1, <3>2, <3>3 DEF RollbackOf
  <2> QED BY <1>4, <2>1 DEF RollbackOf, TypeOK, DatabaseTypes, history
<1>5. ASSUME NEW p \in Procs, NEW m \in Names, NEW a, Resolve(p, m, a) PROVE TypeOK'
  <2>1. ProgressTypes' /\ CursorTypes'
    <3>1. CASE StartAndReport(p, "unreadable")
      BY <3>1, ReportTypes
    <3>2. CASE StartAndReport(p, "success")
      BY <3>2, ReportTypes
    <3>3. CASE Start(p, {m}, "insert") /\ UNCHANGED outcome
      BY <3>3, StartTypes
    <3>4. CASE Start(p, {m}, "delete") /\ UNCHANGED outcome
      BY <3>4, StartTypes
    <3> QED BY <1>5, <3>1, <3>2, <3>3, <3>4 DEF Resolve
  <2> QED BY <1>5, <2>1 DEF Resolve, TypeOK, DatabaseTypes, history
<1>6. ASSUME NEW p \in Procs, NEW yes \in BOOLEAN, Answer(p, yes) PROVE TypeOK'
  <2>1. ProgressTypes'
    BY <1>6 DEF Answer, TypeOK, ProgressTypes, Goto, local
  <2> QED BY <1>6, <2>1 DEF Answer, TypeOK, DatabaseTypes, CursorTypes, history
<1>7. ASSUME NEW p \in Procs, NEW ok \in BOOLEAN, ExecuteSQL(p, ok) PROVE TypeOK'
  <2> PICK m \in todo[p] :
        /\ cur' = [cur EXCEPT ![p] = m]
        /\ IF ok THEN Goto(p, "record") /\ UNCHANGED <<local, todo, failed, outcome>>
                 ELSE NextMigration(p, m, FALSE, "migrate")
        /\ effect' = IF ok /\ ~Transactional(m) THEN [effect EXCEPT ![m] = @ + 1] ELSE effect
    BY <1>7 DEF ExecuteSQL
  <2>1. m \in Names
    BY DEF TypeOK, ProgressTypes
  <2>2. ProgressTypes'
    BY <2>1, GotoTypes, NextMigrationTypes
  <2> QED
    BY <1>7, <2>1, <2>2 DEF ExecuteSQL, TypeOK, DatabaseTypes, CursorTypes, history
<1>8. ASSUME NEW p \in Procs, NEW ok \in BOOLEAN, RecordMigration(p, ok) PROVE TypeOK'
  <2>1. cur[p] \in Names
    BY DEF TypeOK, CursorTypes
  <2>2. ProgressTypes'
    BY <1>8, <2>1, GotoTypes, NextMigrationTypes DEF RecordMigration
  <2> QED BY <1>8, <2>1, <2>2 DEF RecordMigration, TypeOK, DatabaseTypes, CursorTypes
<1>9. ASSUME NEW p \in Procs, NEW ok \in BOOLEAN, CommitMigration(p, ok) PROVE TypeOK'
  <2>1. cur[p] \in Names
    BY DEF TypeOK, CursorTypes
  <2>2. ProgressTypes'
    BY <1>9, <2>1, NextMigrationTypes DEF CommitMigration
  <2> QED BY <1>9, <2>1, <2>2 DEF CommitMigration, TypeOK, DatabaseTypes, CursorTypes
<1>10. ASSUME NEW p \in Procs, CheckApplied(p) PROVE TypeOK'
  <2> PICK m \in todo[p] :
        /\ cur' = [cur EXCEPT ![p] = m]
        /\ IF dir[m] \in {"sql", "comment"} /\ MayRollBack(m)
             THEN Goto(p, "undo") /\ UNCHANGED <<local, todo, failed, outcome>>
             ELSE NextMigration(p, m, FALSE, "check")
    BY <1>10 DEF CheckApplied
  <2>1. m \in Names
    BY DEF TypeOK, ProgressTypes
  <2>2. ProgressTypes'
    BY <2>1, GotoTypes, NextMigrationTypes
  <2> QED BY <1>10, <2>1, <2>2 DEF CheckApplied, TypeOK, DatabaseTypes, CursorTypes, history
<1>11. ASSUME NEW p \in Procs, NEW ok \in BOOLEAN, ExecuteRollbackSQL(p, ok) PROVE TypeOK'
  <2>1. cur[p] \in Names
    BY DEF TypeOK, CursorTypes
  <2>2. ProgressTypes'
    BY <1>11, <2>1, GotoTypes, NextMigrationTypes DEF ExecuteRollbackSQL
  <2> QED
    BY <1>11, <2>1, <2>2
       DEF ExecuteRollbackSQL, TypeOK, DatabaseTypes, CursorTypes, history, Undone
<1>12. ASSUME NEW p \in Procs, NEW ok \in BOOLEAN, MarkRolledBack(p, ok) PROVE TypeOK'
  <2>1. cur[p] \in Names
    BY DEF TypeOK, CursorTypes
  <2>2. ProgressTypes'
    BY <1>12, <2>1, GotoTypes, NextMigrationTypes DEF MarkRolledBack
  <2> QED BY <1>12, <2>1, <2>2 DEF MarkRolledBack, TypeOK, DatabaseTypes, CursorTypes
<1>13. ASSUME NEW p \in Procs, NEW ok \in BOOLEAN, CommitRollback(p, ok) PROVE TypeOK'
  <2>1. cur[p] \in Names
    BY DEF TypeOK, CursorTypes
  <2>2. ProgressTypes'
    BY <1>13, <2>1, NextMigrationTypes DEF CommitRollback
  <2> QED BY <1>13, <2>1, <2>2 DEF CommitRollback, TypeOK, DatabaseTypes, CursorTypes, Undone
<1>14. ASSUME NEW p \in Procs, ResolveInsert(p) PROVE TypeOK'
  <2> PICK m \in todo[p] :
        /\ IF row[m] = "absent"
             THEN /\ row' = [row EXCEPT ![m] = "applied"]
                  /\ stamp' = [stamp EXCEPT ![m] = clock + 1]
                  /\ clock' = clock + 1
                  /\ resolved' = resolved \cup {m} /\ untimed' = untimed \cup {m}
             ELSE UNCHANGED <<history, resolved, untimed>>
        /\ NextMigration(p, m, row[m] = "absent", "insert")
    BY <1>14 DEF ResolveInsert
  <2>1. m \in Names
    BY DEF TypeOK, ProgressTypes
  <2>2. ProgressTypes'
    BY <2>1, NextMigrationTypes
  <2> QED BY <1>14, <2>1, <2>2 DEF ResolveInsert, TypeOK, DatabaseTypes, CursorTypes, history
<1>15. ASSUME NEW p \in Procs, ResolveDelete(p) PROVE TypeOK'
  <2> PICK m \in todo[p] :
        /\ row' = [row EXCEPT ![m] = "absent"]
        /\ resolved' = resolved \cup {m} /\ untimed' = untimed \ {m}
        /\ NextMigration(p, m, TRUE, "delete")
    BY <1>15 DEF ResolveDelete
  <2>1. m \in Names
    BY DEF TypeOK, ProgressTypes
  <2>2. ProgressTypes'
    BY <2>1, NextMigrationTypes
  <2> QED BY <1>15, <2>1, <2>2 DEF ResolveDelete, TypeOK, DatabaseTypes, CursorTypes
<1>16. ASSUME NEW p \in Procs, Kill(p) PROVE TypeOK'
  BY <1>16 DEF Kill, TypeOK, DatabaseTypes, ProgressTypes, CursorTypes, Goto, history, local
<1>17. ASSUME UNCHANGED vars PROVE TypeOK'
  BY <1>17 DEF vars, TypeOK, DatabaseTypes, ProgressTypes, CursorTypes
<1>18. \A k : LastRows(k) \in SUBSET Names
  BY DEF LastRows, Recorded
<1>19. \A m \in Names : ({m} \cap Recorded) \in SUBSET Names
  BY DEF Recorded
<1> QED
  BY <1>1, <1>2, <1>3, <1>4, <1>5, <1>6, <1>7, <1>8, <1>9, <1>10, <1>11, <1>12, <1>13,
     <1>14, <1>15, <1>16, <1>17, <1>18, <1>19
     DEF Next, Command, Statement, RollbackLast, RollbackNamed

\* The variables of MigrateCLI keep their types.
THEOREM TypeCorrect == Spec => []TypeOK
  BY TypeInit, TypeStep, PTL DEF Spec
-----------------------------------------------------------------------------
(* What open transactions rely on, and the truth of the history.           *)

\* The end of an iteration leaves no transaction open.
LEMMA NextMigrationLeaves ==
  ASSUME NEW p \in Procs, NEW m, NEW ok, NEW loop, NextMigration(p, m, ok, loop)
  PROVE  \E x \in {"idle", loop} : pc' = [pc EXCEPT ![p] = x]
  BY DEF NextMigration, Goto

\* A step that opens no transaction and touches no row keeps the promises of the
\* transactions that are open.
LEMMA QuietStep ==
  ASSUME TypeOK, OpenTransactionsHold, NEW p \in Procs,
         NEW x \in Labels \ {"commit", "commitUndo", "undo", "mark"},
         pc' = [pc EXCEPT ![p] = x],
         \A q \in Procs \ {p} : cur'[q] = cur[q],
         UNCHANGED <<row, resolved, untimed, hit>>
  PROVE  OpenTransactionsHold'
  BY DEF OpenTransactionsHold, InsertPending, TypeOK, ProgressTypes, CursorTypes

\* Starting a command is such a step.
LEMMA StartIsQuiet ==
  ASSUME TypeOK, OpenTransactionsHold, NEW p \in Procs, NEW W,
         NEW x \in Labels \ {"commit", "commitUndo", "undo", "mark"},
         Start(p, W, x), UNCHANGED <<row, resolved, untimed>>
  PROVE  OpenTransactionsHold'
  BY QuietStep DEF Start, Goto

\* Reporting at once is one, too.
LEMMA ReportIsQuiet ==
  ASSUME TypeOK, OpenTransactionsHold, NEW p \in Procs, NEW o,
         StartAndReport(p, o), UNCHANGED <<row, resolved, untimed>>
  PROVE  OpenTransactionsHold'
<1>1. "idle" \in Labels
  BY DEF Labels
<1> QED
  BY <1>1, StartIsQuiet DEF StartAndReport

\* Every step keeps the promises of open transactions.
LEMMA OpenStep == TypeOK /\ OpenTransactionsHold /\ [Next]_vars => OpenTransactionsHold'
<1> SUFFICES ASSUME TypeOK, OpenTransactionsHold, [Next]_vars PROVE OpenTransactionsHold'
  OBVIOUS
<1>0. {"idle", "confirmDeploy", "confirmRollback", "migrate", "record", "check", "insert",
       "delete"} \subseteq Labels \ {"commit", "commitUndo", "undo", "mark"}
  BY DEF Labels
<1>1. ASSUME NEW p \in Procs, NEW m \in Names, NEW a \in BOOLEAN, Dev(p, m, a)
      PROVE OpenTransactionsHold'
  BY <1>0, <1>1, StartIsQuiet, ReportIsQuiet DEF Dev, history
<1>2. ASSUME NEW p \in Procs, NEW m \in Names, Apply(p, m) PROVE OpenTransactionsHold'
  BY <1>0, <1>2, StartIsQuiet DEF Apply, history
<1>3. ASSUME NEW p \in Procs, Deploy(p) PROVE OpenTransactionsHold'
  <2>1. CASE \E o : StartAndReport(p, o)
    BY <1>3, <2>1, ReportIsQuiet DEF Deploy, history
  <2>2. CASE \E W : Start(p, W, "confirmDeploy")
    BY <1>0, <1>3, <2>2, StartIsQuiet DEF Deploy, history
  <2> QED BY <1>3, <2>1, <2>2 DEF Deploy
<1>4. ASSUME NEW p \in Procs, NEW T, RollbackOf(p, T) PROVE OpenTransactionsHold'
  <2>1. CASE \E o : StartAndReport(p, o)
    BY <1>4, <2>1, ReportIsQuiet DEF RollbackOf, history
  <2>2. CASE \E W : Start(p, W, "confirmRollback")
    BY <1>0, <1>4, <2>2, StartIsQuiet DEF RollbackOf, history
  <2> QED BY <1>4, <2>1, <2>2 DEF RollbackOf
<1>5. ASSUME NEW p \in Procs, NEW m \in Names, NEW a, Resolve(p, m, a)
      PROVE OpenTransactionsHold'
  <2>1. CASE \E o : StartAndReport(p, o)
    BY <1>5, <2>1, ReportIsQuiet DEF Resolve, history
  <2>2. CASE Start(p, {m}, "insert") \/ Start(p, {m}, "delete")
    BY <1>0, <1>5, <2>2, StartIsQuiet DEF Resolve, history
  <2> QED BY <1>5, <2>1, <2>2 DEF Resolve
<1>6. ASSUME NEW p \in Procs, NEW yes \in BOOLEAN, Answer(p, yes) PROVE OpenTransactionsHold'
  <2>1. \E x \in {"idle", "migrate", "check"} : pc' = [pc EXCEPT ![p] = x]
    BY <1>6 DEF Answer, Goto
  <2> QED BY <1>0, <1>6, <2>1, QuietStep DEF Answer, history
<1>7. ASSUME NEW p \in Procs, NEW ok \in BOOLEAN, ExecuteSQL(p, ok) PROVE OpenTransactionsHold'
  <2>1. \E x \in {"idle", "migrate", "record"} : pc' = [pc EXCEPT ![p] = x]
    BY <1>7, NextMigrationLeaves DEF ExecuteSQL, Goto
  <2>2. \A q \in Procs \ {p} : cur'[q] = cur[q]
    BY <1>7 DEF ExecuteSQL, TypeOK, CursorTypes
  <2> QED BY <1>0, <1>7, <2>1, <2>2, QuietStep DEF ExecuteSQL, history
<1>8. ASSUME NEW p \in Procs, NEW ok \in BOOLEAN, RecordMigration(p, ok)
      PROVE OpenTransactionsHold'
  <2>1. \/ /\ row[cur[p]] = "absent"
           /\ pc' = [pc EXCEPT ![p] = "commit"] /\ UNCHANGED row
        \/ /\ \E x \in {"idle", "migrate"} : pc' = [pc EXCEPT ![p] = x]
           /\ row' = row \/ row' = [row EXCEPT ![cur[p]] = "applied"]
    BY <1>8, NextMigrationLeaves DEF RecordMigration, Goto
  <2>2. ~InsertPending(p, cur[p]) /\ UNCHANGED <<resolved, untimed, cur, hit>>
    BY <1>8 DEF RecordMigration
  <2>3. CASE /\ row[cur[p]] = "absent"
             /\ pc' = [pc EXCEPT ![p] = "commit"] /\ UNCHANGED row
    BY <2>2, <2>3 DEF OpenTransactionsHold, InsertPending, TypeOK, ProgressTypes, CursorTypes
  <2>4. CASE /\ \E x \in {"idle", "migrate"} : pc' = [pc EXCEPT ![p] = x]
             /\ UNCHANGED row
    BY <1>0, <2>2, <2>4, QuietStep
  <2>5. CASE /\ \E x \in {"idle", "migrate"} : pc' = [pc EXCEPT ![p] = x]
             /\ row' = [row EXCEPT ![cur[p]] = "applied"]
    <3>1. \A q \in Procs : /\ pc'[q] \in {"commit", "commitUndo", "undo", "mark"}
                              => q # p /\ pc'[q] = pc[q]
                           /\ row'[cur[q]] = IF cur[q] = cur[p] THEN "applied" ELSE row[cur[q]]
      BY <2>5 DEF TypeOK, DatabaseTypes, ProgressTypes, CursorTypes
    <3> QED
      BY <2>2, <3>1 DEF OpenTransactionsHold, InsertPending
  <2> QED BY <2>1, <2>3, <2>4, <2>5
<1>9. ASSUME NEW p \in Procs, NEW ok \in BOOLEAN, CommitMigration(p, ok)
      PROVE OpenTransactionsHold'
  <2>1. /\ pc[p] = "commit"
        /\ \E x \in {"idle", "migrate"} : pc' = [pc EXCEPT ![p] = x]
        /\ row' = row \/ row' = [row EXCEPT ![cur[p]] = "applied"]
        /\ UNCHANGED <<resolved, untimed, cur, hit>>
    BY <1>9, NextMigrationLeaves DEF CommitMigration
  <2> QED
    BY <2>1 DEF OpenTransactionsHold, InsertPending, TypeOK, DatabaseTypes, ProgressTypes,
                CursorTypes
<1>10. ASSUME NEW p \in Procs, CheckApplied(p) PROVE OpenTransactionsHold'
  <2> PICK m \in todo[p] :
        /\ cur' = [cur EXCEPT ![p] = m]
        /\ IF dir[m] \in {"sql", "comment"} /\ MayRollBack(m)
             THEN Goto(p, "undo") /\ UNCHANGED <<local, todo, failed, outcome>>
             ELSE NextMigration(p, m, FALSE, "check")
    BY <1>10 DEF CheckApplied
  <2>1. UNCHANGED <<row, resolved, untimed, hit>>
    BY <1>10 DEF CheckApplied, history
  <2>2. \/ row[m] = "applied" /\ pc' = [pc EXCEPT ![p] = "undo"]
        \/ \E x \in {"idle", "check"} : pc' = [pc EXCEPT ![p] = x]
    BY NextMigrationLeaves DEF MayRollBack, Goto
  <2>3. m \in Names
    BY DEF TypeOK, ProgressTypes
  <2> QED
    BY <2>1, <2>2, <2>3 DEF OpenTransactionsHold, InsertPending, TypeOK, ProgressTypes,
                            CursorTypes
<1>11. ASSUME NEW p \in Procs, NEW ok \in BOOLEAN, ExecuteRollbackSQL(p, ok)
       PROVE OpenTransactionsHold'
  <2>1. /\ pc[p] = "undo"
        /\ \E x \in {"idle", "check", "mark"} : pc' = [pc EXCEPT ![p] = x]
        /\ UNCHANGED <<row, resolved, untimed, cur, hit>>
    <3>1. \/ Goto(p, "mark")
          \/ NextMigration(p, cur[p], FALSE, "check")
      BY <1>11 DEF ExecuteRollbackSQL
    <3>2. \E x \in {"idle", "check", "mark"} : pc' = [pc EXCEPT ![p] = x]
      BY <3>1, NextMigrationLeaves DEF Goto
    <3> QED BY <1>11, <3>2 DEF ExecuteRollbackSQL, history
  <2> QED
    BY <2>1 DEF OpenTransactionsHold, InsertPending, TypeOK, ProgressTypes, CursorTypes
<1>12. ASSUME NEW p \in Procs, NEW ok \in BOOLEAN, MarkRolledBack(p, ok)
       PROVE OpenTransactionsHold'
  <2>1. /\ pc[p] = "mark"
        /\ hit' = [hit EXCEPT ![p] = ok /\ row[cur[p]] # "absent"]
        /\ \/ ok /\ pc' = [pc EXCEPT ![p] = "commitUndo"] /\ UNCHANGED row
           \/ /\ \E x \in {"idle", "check"} : pc' = [pc EXCEPT ![p] = x]
              /\ \/ UNCHANGED row
                 \/ row[cur[p]] # "absent" /\ row' = [row EXCEPT ![cur[p]] = "rolledback"]
        /\ UNCHANGED <<resolved, untimed, cur>>
    BY <1>12, NextMigrationLeaves DEF MarkRolledBack, Goto
  <2>2. CASE /\ ok /\ pc' = [pc EXCEPT ![p] = "commitUndo"] /\ UNCHANGED row
    BY <2>1, <2>2 DEF OpenTransactionsHold, InsertPending, TypeOK, ProgressTypes, CursorTypes
  <2>3. CASE /\ \E x \in {"idle", "check"} : pc' = [pc EXCEPT ![p] = x]
             /\ \/ UNCHANGED row
                \/ row[cur[p]] # "absent" /\ row' = [row EXCEPT ![cur[p]] = "rolledback"]
    <3>1. \A q \in Procs : /\ pc'[q] \in {"commit", "commitUndo", "undo", "mark"}
                              => q # p /\ pc'[q] = pc[q] /\ hit'[q] = hit[q]
                           /\ row'[cur[q]] \in {row[cur[q]], "rolledback"}
                           /\ row'[cur[q]] # row[cur[q]] => row[cur[q]] # "absent"
      BY <2>1, <2>3 DEF TypeOK, DatabaseTypes, ProgressTypes, CursorTypes
    <3> QED
      BY <2>1, <3>1 DEF OpenTransactionsHold, InsertPending
  <2> QED BY <2>1, <2>2, <2>3
<1>13. ASSUME NEW p \in Procs, NEW ok \in BOOLEAN, CommitRollback(p, ok)
       PROVE OpenTransactionsHold'
  <2>1. /\ pc[p] = "commitUndo"
        /\ \E x \in {"idle", "check"} : pc' = [pc EXCEPT ![p] = x]
        /\ row' = row \/ (hit[p] /\ row' = [row EXCEPT ![cur[p]] = "rolledback"])
        /\ UNCHANGED <<resolved, untimed, cur, hit>>
    <3>1. \E x \in {"idle", "check"} : pc' = [pc EXCEPT ![p] = x]
      BY <1>13, NextMigrationLeaves DEF CommitRollback
    <3>2. hit[p] \in BOOLEAN
      BY DEF TypeOK, CursorTypes
    <3>3. row' = IF ok /\ hit[p] THEN [row EXCEPT ![cur[p]] = "rolledback"] ELSE row
      BY <1>13 DEF CommitRollback
    <3>4. row' = row \/ (hit[p] /\ row' = [row EXCEPT ![cur[p]] = "rolledback"])
      BY <3>2, <3>3
    <3> QED BY <1>13, <3>1, <3>4 DEF CommitRollback
  <2>2. \A q \in Procs : /\ pc'[q] \in {"commit", "commitUndo", "undo", "mark"}
                            => q # p /\ pc'[q] = pc[q]
                         /\ row'[cur[q]] \in {row[cur[q]], "rolledback"}
                         /\ row'[cur[q]] # row[cur[q]] => cur[q] = cur[p] /\ hit[p]
    BY <2>1 DEF TypeOK, DatabaseTypes, ProgressTypes, CursorTypes
  <2> QED
    BY <2>1, <2>2 DEF OpenTransactionsHold, InsertPending
<1>14. ASSUME NEW p \in Procs, ResolveInsert(p) PROVE OpenTransactionsHold'
  <2> PICK m \in todo[p] :
        /\ ~InsertPending(p, m)
        /\ IF row[m] = "absent"
             THEN row' = [row EXCEPT ![m] = "applied"] /\ resolved' = resolved \cup {m}
             ELSE UNCHANGED <<row, resolved, untimed>>
        /\ NextMigration(p, m, row[m] = "absent", "insert")
    BY <1>14 DEF ResolveInsert, history
  <2>1. /\ pc[p] = "insert" /\ m \in Names
        /\ \E x \in {"idle", "insert"} : pc' = [pc EXCEPT ![p] = x]
        /\ UNCHANGED <<cur, hit>>
    BY <1>14, NextMigrationLeaves DEF ResolveInsert, TypeOK, ProgressTypes
  <2> QED
    BY <2>1 DEF OpenTransactionsHold, InsertPending, TypeOK, DatabaseTypes, ProgressTypes,
                CursorTypes
<1>15. ASSUME NEW p \in Procs, ResolveDelete(p) PROVE OpenTransactionsHold'
  <2> PICK m \in todo[p] :
        /\ ~UpdatePending(p, m)
        /\ row' = [row EXCEPT ![m] = "absent"]
        /\ resolved' = resolved \cup {m} /\ untimed' = untimed \ {m}
        /\ NextMigration(p, m, TRUE, "delete")
    BY <1>15 DEF ResolveDelete
  <2>1. /\ pc[p] = "delete" /\ m \in Names
        /\ \E x \in {"idle", "delete"} : pc' = [pc EXCEPT ![p] = x]
        /\ UNCHANGED <<cur, hit>>
    BY <1>15, NextMigrationLeaves DEF ResolveDelete, TypeOK, ProgressTypes
  <2> QED
    BY <2>1 DEF OpenTransactionsHold, InsertPending, UpdatePending, TypeOK, DatabaseTypes,
                ProgressTypes, CursorTypes
<1>16. ASSUME NEW p \in Procs, Kill(p) PROVE OpenTransactionsHold'
  BY <1>0, <1>16, QuietStep DEF Kill, Goto, history
<1>17. ASSUME UNCHANGED vars PROVE OpenTransactionsHold'
  BY <1>17 DEF vars, OpenTransactionsHold, InsertPending
<1> QED
  BY <1>1, <1>2, <1>3, <1>4, <1>5, <1>6, <1>7, <1>8, <1>9, <1>10, <1>11, <1>12, <1>13,
     <1>14, <1>15, <1>16, <1>17
     DEF Next, Command, Statement, RollbackLast, RollbackNamed
\* What open transactions rely on holds in every reachable state, on every provider.
THEOREM OpenTransactions == Spec => []OpenTransactionsHold
<1>1. Init => OpenTransactionsHold
  BY DEF Init, OpenTransactionsHold
<1> QED
  BY <1>1, TypeInit, TypeStep, OpenStep, PTL DEF Spec

\* A step that changes neither rows nor effects and unresolves nothing keeps the truth.
LEMMA UntouchedHistory ==
  ASSUME HistoryIsTruthful, UNCHANGED <<row, effect, resolved, untimed>>
  PROVE  HistoryIsTruthful'
  BY DEF HistoryIsTruthful, Managed

\* Every step keeps the history truthful: the row and the effect of a transactional
\* migration change together, in the two commits.
LEMMA TruthStep ==
  TypeOK /\ OpenTransactionsHold /\ HistoryIsTruthful /\ [Next]_vars => HistoryIsTruthful'
<1> SUFFICES ASSUME TypeOK, OpenTransactionsHold, HistoryIsTruthful, [Next]_vars
             PROVE  HistoryIsTruthful'
  OBVIOUS
<1>0. ASSUME NEW x \in Names, UNCHANGED resolved,
             \A m \in Names \ {x} : row'[m] = row[m] /\ effect'[m] = effect[m],
             ~Transactional(x)
      PROVE  HistoryIsTruthful'
  BY <1>0 DEF HistoryIsTruthful, Managed, Transactional
<1>1. ASSUME NEW p \in Procs, NEW ok \in BOOLEAN, CommitMigration(p, ok) PROVE HistoryIsTruthful'
  <2>1. row[cur[p]] = "absent" /\ cur[p] \in Names
    BY <1>1 DEF CommitMigration, OpenTransactionsHold, TypeOK, CursorTypes
  <2>2. UNCHANGED resolved
    BY <1>1 DEF CommitMigration
  <2>3. CASE ok
    <3>1. /\ row' = [row EXCEPT ![cur[p]] = "applied"]
          /\ effect' = [effect EXCEPT ![cur[p]] = @ + 1]
      BY <1>1, <2>3 DEF CommitMigration
    <3> QED
      BY <2>1, <2>2, <3>1 DEF HistoryIsTruthful, Managed, TypeOK, DatabaseTypes
  <2>4. CASE ~ok
    BY <1>1, <2>2, <2>4, UntouchedHistory DEF CommitMigration
  <2> QED BY <2>3, <2>4
<1>2. ASSUME NEW p \in Procs, NEW ok \in BOOLEAN, CommitRollback(p, ok) PROVE HistoryIsTruthful'
  <2>1. cur[p] \in Names /\ hit[p] \in BOOLEAN /\ UNCHANGED resolved
    BY <1>2 DEF CommitRollback, TypeOK, CursorTypes
  <2>2. ~hit[p] => cur[p] \in resolved
    BY <1>2 DEF CommitRollback, OpenTransactionsHold
  <2>3. CASE ok
    <3>1. row' = IF hit[p] THEN [row EXCEPT ![cur[p]] = "rolledback"] ELSE row
      BY <1>2, <2>1, <2>3 DEF CommitRollback
    <3>2. effect' = [effect EXCEPT ![cur[p]] = @ - Undone(cur[p])]
      BY <1>2, <2>3 DEF CommitRollback
    <3>3. ASSUME NEW m \in Managed', Transactional(m)
          PROVE  (row'[m] = "applied" => effect'[m] = 1) /\ (row'[m] = "absent" => effect'[m] = 0)
      <4>1. m \in Managed
        BY <2>1, <3>3 DEF Managed
      <4>2. CASE m = cur[p]
        <5>1. hit[p]
          BY <2>2, <4>1, <4>2 DEF Managed
        <5>2. row'[m] = "rolledback"
          BY <2>1, <3>1, <4>2, <5>1 DEF TypeOK, DatabaseTypes
        <5> QED BY <5>2
      <4>3. CASE m # cur[p]
        <5>1. row'[m] = row[m] /\ effect'[m] = effect[m]
          BY <2>1, <3>1, <3>2, <4>1, <4>3 DEF TypeOK, DatabaseTypes, Managed
        <5> QED BY <3>3, <4>1, <5>1 DEF HistoryIsTruthful
      <4> QED BY <4>2, <4>3
    <3> QED BY <3>3 DEF HistoryIsTruthful, Transactional
  <2>4. CASE ~ok
    BY <1>2, <2>1, <2>4, UntouchedHistory DEF CommitRollback
  <2> QED BY <2>3, <2>4
<1>3. ASSUME NEW p \in Procs, ResolveInsert(p) PROVE HistoryIsTruthful'
  <2> PICK m \in todo[p] :
        IF row[m] = "absent"
          THEN row' = [row EXCEPT ![m] = "applied"] /\ resolved' = resolved \cup {m}
          ELSE UNCHANGED <<row, resolved, untimed>>
    BY <1>3 DEF ResolveInsert, history
  <2>1. m \in Names /\ UNCHANGED effect
    BY <1>3 DEF ResolveInsert, TypeOK, ProgressTypes
  <2> QED BY <2>1 DEF HistoryIsTruthful, Managed, TypeOK, DatabaseTypes
<1>4. ASSUME NEW p \in Procs, ResolveDelete(p) PROVE HistoryIsTruthful'
  <2> PICK m \in todo[p] :
        row' = [row EXCEPT ![m] = "absent"] /\ resolved' = resolved \cup {m}
    BY <1>4 DEF ResolveDelete
  <2>1. m \in Names /\ UNCHANGED effect
    BY <1>4 DEF ResolveDelete, TypeOK, ProgressTypes
  <2> QED BY <2>1 DEF HistoryIsTruthful, Managed, TypeOK, DatabaseTypes
<1>5. ASSUME NEW p \in Procs, NEW ok \in BOOLEAN, ExecuteSQL(p, ok) PROVE HistoryIsTruthful'
  <2> PICK m \in todo[p] :
        effect' = IF ok /\ ~Transactional(m) THEN [effect EXCEPT ![m] = @ + 1] ELSE effect
    BY <1>5 DEF ExecuteSQL
  <2>1. m \in Names /\ UNCHANGED <<row, resolved, untimed>>
    BY <1>5 DEF ExecuteSQL, TypeOK, ProgressTypes, history
  <2>2. CASE ok /\ ~Transactional(m)
    BY <1>0, <2>1, <2>2 DEF TypeOK, DatabaseTypes
  <2>3. CASE ~(ok /\ ~Transactional(m))
    BY <2>1, <2>3, UntouchedHistory
  <2> QED BY <2>2, <2>3
<1>6. ASSUME NEW p \in Procs, NEW ok \in BOOLEAN, ExecuteRollbackSQL(p, ok)
      PROVE  HistoryIsTruthful'
  <2> DEFINE m == cur[p]
             runsOK == ok /\ (Provider # "mysql" \/ dir[m] = "sql")
  <2>1. m \in Names /\ UNCHANGED <<row, resolved, untimed>>
    BY <1>6 DEF ExecuteRollbackSQL, TypeOK, CursorTypes, history
  <2>2. effect' = IF runsOK /\ ~Transactional(m) THEN [effect EXCEPT ![m] = @ - Undone(m)] ELSE effect
    BY <1>6 DEF ExecuteRollbackSQL
  <2> HIDE DEF runsOK
  <2>3. CASE runsOK /\ ~Transactional(m)
    BY <1>0, <2>1, <2>2, <2>3 DEF TypeOK, DatabaseTypes
  <2>4. CASE ~(runsOK /\ ~Transactional(m))
    BY <2>1, <2>2, <2>4, UntouchedHistory
  <2> QED BY <2>3, <2>4
<1>7. ASSUME NEW p \in Procs, NEW ok \in BOOLEAN,
             RecordMigration(p, ok) \/ MarkRolledBack(p, ok)
      PROVE  HistoryIsTruthful'
  <2>1. cur[p] \in Names /\ UNCHANGED <<effect, resolved, untimed>>
    BY <1>7 DEF RecordMigration, MarkRolledBack, TypeOK, CursorTypes
  <2>2. \E x \in {"applied", "rolledback"} :
          row' = row \/ (~Transactional(cur[p]) /\ row' = [row EXCEPT ![cur[p]] = x])
    BY <1>7 DEF RecordMigration, MarkRolledBack
  <2>3. CASE row' = row
    BY <2>1, <2>3, UntouchedHistory
  <2>4. CASE ~Transactional(cur[p]) /\ \E x : row' = [row EXCEPT ![cur[p]] = x]
    BY <1>0, <2>1, <2>4 DEF TypeOK, DatabaseTypes
  <2> QED BY <2>2, <2>3, <2>4
<1>8. ASSUME NEW p \in Procs, Command(p) \/ CheckApplied(p) \/ Kill(p) PROVE HistoryIsTruthful'
  <2>1. UNCHANGED <<row, effect, resolved, untimed>>
    BY <1>8 DEF Command, Dev, Apply, Deploy, RollbackLast, RollbackNamed, RollbackOf, Resolve,
                CheckApplied, Kill, history
  <2> QED BY <2>1, UntouchedHistory
<1>9. ASSUME NEW p \in Procs, NEW yes \in BOOLEAN, Answer(p, yes) PROVE HistoryIsTruthful'
  BY <1>9, UntouchedHistory DEF Answer, history
<1>10. ASSUME UNCHANGED vars PROVE HistoryIsTruthful'
  BY <1>10, UntouchedHistory DEF vars
<1> QED
  BY <1>1, <1>2, <1>3, <1>4, <1>5, <1>6, <1>7, <1>8, <1>9, <1>10 DEF Next, Statement

\* On every provider the history table always tells the truth about the
\* transactional migrations nobody resolved by hand.
THEOREM TruthfulHistory == Spec => []HistoryIsTruthful
<1>1. Init => HistoryIsTruthful /\ OpenTransactionsHold
  BY DEF Init, HistoryIsTruthful, OpenTransactionsHold, Managed
<1> QED
  BY <1>1, TruthStep, TypeInit, TypeStep, OpenStep, PTL DEF Spec
-----------------------------------------------------------------------------
(* What is recorded has been executed.                                     *)

InTransaction == {"record", "commit", "undo", "mark", "commitUndo"}

\* A command starts with all it has announced still to do.
LEMMA CommandStarts ==
  ASSUME NEW p \in Procs, Command(p)
  PROVE  /\ UNCHANGED <<row, effect, resolved, untimed>>
         /\ \E W, x : x \notin InTransaction \cup {"check"} /\ Start(p, W, x)
<1>0. {"idle", "migrate", "confirmDeploy", "confirmRollback", "insert", "delete"}
        \cap (InTransaction \cup {"check"}) = {}
  BY DEF InTransaction
<1>1. ASSUME NEW o, StartAndReport(p, o)
      PROVE  \E W, x : x \notin InTransaction \cup {"check"} /\ Start(p, W, x)
  BY <1>0, <1>1 DEF StartAndReport
<1>2. CASE \E m \in Names, a \in BOOLEAN : Dev(p, m, a)
  BY <1>0, <1>1, <1>2 DEF Dev, history
<1>3. CASE \E m \in Names : Apply(p, m)
  BY <1>0, <1>3 DEF Apply, history
<1>4. CASE Deploy(p)
  BY <1>0, <1>1, <1>4 DEF Deploy, history
<1>5. ASSUME NEW T, RollbackOf(p, T)
      PROVE  /\ UNCHANGED <<row, effect, resolved, untimed>>
             /\ \E W, x : x \notin InTransaction \cup {"check"} /\ Start(p, W, x)
  BY <1>0, <1>1, <1>5 DEF RollbackOf, history
<1>6. CASE \E m \in Names, a \in {"applied", "rolled-back"} : Resolve(p, m, a)
  <2> PICK m \in Names, a \in {"applied", "rolled-back"} : Resolve(p, m, a)
    BY <1>6
  <2>1. \/ \E o : StartAndReport(p, o)
        \/ \E x \in {"insert", "delete"} : Start(p, {m}, x)
    BY DEF Resolve
  <2> QED
    BY <1>0, <1>1, <2>1 DEF Resolve, history
<1> QED
  BY <1>2, <1>3, <1>4, <1>5, <1>6 DEF Command, RollbackLast, RollbackNamed

\* The SQL of an unresolved migration without a row is only ever executed, and for one that
\* commits by itself it was executed before its process came to record it.
EffectsFirst ==
  /\ \A m \in Managed : row[m] = "absent" => effect[m] >= 0
  /\ \A p \in Procs : pc[p] = "commit" => Transactional(cur[p])
  /\ \A p \in Procs : /\ pc[p] = "record" /\ ~Transactional(cur[p])
                      /\ row[cur[p]] = "absent" /\ cur[p] \notin resolved
                      => effect[cur[p]] >= 1

\* A step that records, executes and takes back nothing.
LEMMA QuietEffects ==
  ASSUME TypeOK, EffectsFirst, NEW p \in Procs, NEW x, x \notin {"record", "commit"},
         pc' = [pc EXCEPT ![p] = x], \A q \in Procs \ {p} : cur'[q] = cur[q],
         UNCHANGED <<row, effect, resolved, untimed>>
  PROVE  EffectsFirst'
  BY DEF EffectsFirst, Managed, TypeOK, ProgressTypes, CursorTypes, Transactional

\* Nor one that only changes what the history says of a migration that has a row, or has
\* one afterwards, or was resolved by hand.
LEMMA RowEffects ==
  ASSUME TypeOK, EffectsFirst, NEW p \in Procs, NEW x, x # "record", NEW m \in Names,
         x = "commit" => Transactional(cur[p]),
         pc' = [pc EXCEPT ![p] = x], UNCHANGED cur,
         \A n \in Names \ {m} : row'[n] = row[n] /\ effect'[n] = effect[n],
         resolved \subseteq resolved',
         \/ m \in resolved' 
         \/ row'[m] # "absent"
         \/ row'[m] = row[m] /\ effect'[m] = effect[m]
  PROVE  EffectsFirst'
<1>1. \A q \in Procs : cur[q] \in Names /\ cur'[q] = cur[q]
  BY DEF TypeOK, CursorTypes
<1>2. \A q \in Procs : q # p => pc'[q] = pc[q]
  BY DEF TypeOK, ProgressTypes
<1>3. pc'[p] = x
  BY DEF TypeOK, ProgressTypes
<1>4. ASSUME NEW n \in Managed', row'[n] = "absent"
      PROVE  n \in Managed /\ row[n] = "absent" /\ effect'[n] = effect[n]
  BY <1>4 DEF Managed
<1>5. \A n \in Managed' : row'[n] = "absent" => effect'[n] >= 0
  BY <1>4 DEF EffectsFirst
<1>6. ASSUME NEW q \in Procs, pc'[q] = "commit" PROVE Transactional(cur'[q])
  BY <1>1, <1>2, <1>3, <1>6 DEF EffectsFirst
<1>7. ASSUME NEW q \in Procs, pc'[q] = "record", ~Transactional(cur'[q]),
             row'[cur'[q]] = "absent", cur'[q] \notin resolved'
      PROVE  effect'[cur'[q]] >= 1
  <2>1. q # p /\ cur'[q] \in Managed'
    BY <1>1, <1>3, <1>7 DEF Managed
  <2>2. row[cur[q]] = "absent" /\ effect'[cur[q]] = effect[cur[q]]
    BY <1>1, <1>4, <1>7, <2>1
  <2> QED
    BY <1>1, <1>2, <1>7, <2>1, <2>2 DEF EffectsFirst
<1> QED
  BY <1>5, <1>6, <1>7 DEF EffectsFirst, Transactional

\* Every step keeps the order of executing and recording.
LEMMA EffectsStep ==
  TypeOK /\ OpenTransactionsHold /\ EffectsFirst /\ [Next]_vars => EffectsFirst'
<1> SUFFICES ASSUME TypeOK, OpenTransactionsHold, EffectsFirst, [Next]_vars PROVE EffectsFirst'
  OBVIOUS
<1>0. \A p \in Procs : cur[p] \in Names /\ todo[p] \subseteq Names
  BY DEF TypeOK, CursorTypes, ProgressTypes
<1>1. ASSUME NEW p \in Procs, Command(p) PROVE EffectsFirst'
  BY <1>1, CommandStarts, QuietEffects DEF Start, Goto, InTransaction
<1>2. ASSUME NEW p \in Procs, NEW yes \in BOOLEAN, Answer(p, yes) PROVE EffectsFirst'
  <2>1. \E x \in {"idle", "migrate", "check"} : pc' = [pc EXCEPT ![p] = x]
    BY <1>2 DEF Answer, Goto
  <2> QED
    BY <1>2, <2>1, QuietEffects DEF Answer, history
<1>3. ASSUME NEW p \in Procs, Kill(p) PROVE EffectsFirst'
  BY <1>3, QuietEffects DEF Kill, Goto, history
<1>4. ASSUME NEW p \in Procs, NEW ok \in BOOLEAN, ExecuteSQL(p, ok) PROVE EffectsFirst'
  <2> PICK m \in todo[p] :
        /\ cur' = [cur EXCEPT ![p] = m]
        /\ IF ok THEN Goto(p, "record") /\ UNCHANGED <<local, todo, failed, outcome>>
                 ELSE NextMigration(p, m, FALSE, "migrate")
        /\ effect' = IF ok /\ ~Transactional(m) THEN [effect EXCEPT ![m] = @ + 1] ELSE effect
    BY <1>4 DEF ExecuteSQL
  <2>1. m \in Names /\ UNCHANGED <<row, resolved, untimed>>
    BY <1>0, <1>4 DEF ExecuteSQL, history
  <2>2. CASE ~ok
    <3>1. \E x \in {"idle", "migrate"} : pc' = [pc EXCEPT ![p] = x]
      BY <2>2, NextMigrationLeaves
    <3>2. UNCHANGED effect /\ \A q \in Procs \ {p} : cur'[q] = cur[q]
      BY <2>2 DEF TypeOK, CursorTypes
    <3> QED
      BY <2>1, <3>1, <3>2, QuietEffects
  <2>3. CASE ok
    <3>1. /\ \A q \in Procs : /\ cur'[q] = IF q = p THEN m ELSE cur[q]
                              /\ pc'[q] = IF q = p THEN "record" ELSE pc[q]
          /\ \A n \in Names : effect'[n] = IF n = m /\ ~Transactional(m) THEN effect[n] + 1 ELSE effect[n]
      BY <2>1, <2>3 DEF Goto, TypeOK, DatabaseTypes, ProgressTypes, CursorTypes
    <3>2. \A n \in Names : effect[n] \in Int /\ effect'[n] >= effect[n]
      BY <3>1 DEF TypeOK, DatabaseTypes
    <3>3. \A n \in Managed' : row'[n] = "absent" => effect'[n] >= 0
      BY <2>1, <3>1, <3>2 DEF EffectsFirst, Managed
    <3>4. \A q \in Procs : pc'[q] = "commit" => Transactional(cur'[q])
      BY <3>1 DEF EffectsFirst
    <3>5. ASSUME NEW q \in Procs, pc'[q] = "record", ~Transactional(cur'[q]),
                 row'[cur'[q]] = "absent", cur'[q] \notin resolved'
          PROVE  effect'[cur'[q]] >= 1
      <4>1. CASE q = p
        BY <2>1, <3>1, <3>2, <3>5, <4>1 DEF EffectsFirst, Managed
      <4>2. CASE q # p
        BY <1>0, <2>1, <3>1, <3>2, <3>5, <4>2 DEF EffectsFirst
      <4> QED
        BY <4>1, <4>2
    <3> QED
      BY <3>3, <3>4, <3>5 DEF EffectsFirst, Transactional
  <2> QED
    BY <2>2, <2>3
<1>5. ASSUME NEW p \in Procs, NEW ok \in BOOLEAN, RecordMigration(p, ok) PROVE EffectsFirst'
  <2> PICK m \in Names : m = cur[p]
    BY <1>0
  <2>1. /\ \A n \in Names \ {m} : row'[n] = row[n]
        /\ row'[m] = "applied" \/ row'[m] = row[m]
        /\ UNCHANGED <<effect, resolved, untimed, cur>>
    BY <1>5 DEF RecordMigration, TypeOK, DatabaseTypes
  <2>2. \/ Transactional(m) /\ pc' = [pc EXCEPT ![p] = "commit"]
        \/ \E x \in {"idle", "migrate"} : pc' = [pc EXCEPT ![p] = x]
    BY <1>5, NextMigrationLeaves DEF RecordMigration, Goto
  <2> QED
    BY <2>1, <2>2, RowEffects
<1>6. ASSUME NEW p \in Procs, NEW ok \in BOOLEAN, CommitMigration(p, ok) PROVE EffectsFirst'
  <2> PICK m \in Names : m = cur[p]
    BY <1>0
  <2>1. /\ \A n \in Names \ {m} : row'[n] = row[n] /\ effect'[n] = effect[n]
        /\ row'[m] = "applied" \/ (row'[m] = row[m] /\ effect'[m] = effect[m])
        /\ UNCHANGED <<resolved, untimed, cur>>
    BY <1>6 DEF CommitMigration, TypeOK, DatabaseTypes
  <2>2. \E x \in {"idle", "migrate"} : pc' = [pc EXCEPT ![p] = x]
    BY <1>6, NextMigrationLeaves DEF CommitMigration
  <2> QED
    BY <2>1, <2>2, RowEffects
<1>7. ASSUME NEW p \in Procs, CheckApplied(p) PROVE EffectsFirst'
  <2>1. \E x \in {"idle", "check", "undo"} : pc' = [pc EXCEPT ![p] = x]
    BY <1>7, NextMigrationLeaves DEF CheckApplied, Goto
  <2>2. \A q \in Procs \ {p} : cur'[q] = cur[q]
    BY <1>7 DEF CheckApplied, TypeOK, CursorTypes
  <2> QED
    BY <1>7, <2>1, <2>2, QuietEffects DEF CheckApplied, history
<1>8. ASSUME NEW p \in Procs, NEW ok \in BOOLEAN, ExecuteRollbackSQL(p, ok) PROVE EffectsFirst'
  <2> PICK m \in Names : m = cur[p]
    BY <1>0
  <2>1. /\ \A n \in Names \ {m} : effect'[n] = effect[n]
        /\ UNCHANGED <<row, resolved, untimed, cur>>
    BY <1>8 DEF ExecuteRollbackSQL, TypeOK, DatabaseTypes, history
  <2>2. m \in resolved \/ row[m] # "absent"
    BY <1>8 DEF ExecuteRollbackSQL, OpenTransactionsHold
  <2>3. \E x \in {"idle", "check", "mark"} : pc' = [pc EXCEPT ![p] = x]
    <3>1. Goto(p, "mark") \/ NextMigration(p, cur[p], FALSE, "check")
      BY <1>8 DEF ExecuteRollbackSQL
    <3> QED
      BY <3>1, NextMigrationLeaves DEF Goto
  <2>4. m \in resolved' \/ row'[m] # "absent"
    BY <2>1, <2>2
  <2>5. \A n \in Names \ {m} : row'[n] = row[n] /\ effect'[n] = effect[n]
    BY <2>1
  <2>6. PICK x \in {"idle", "check", "mark"} : pc' = [pc EXCEPT ![p] = x]
    BY <2>3
  <2> QED
    BY <2>1, <2>4, <2>5, <2>6, RowEffects
<1>9. ASSUME NEW p \in Procs, NEW ok \in BOOLEAN, MarkRolledBack(p, ok) PROVE EffectsFirst'
  <2> PICK m \in Names : m = cur[p]
    BY <1>0
  <2>1. /\ \A n \in Names \ {m} : row'[n] = row[n]
        /\ row'[m] = "rolledback" \/ row'[m] = row[m]
        /\ UNCHANGED <<effect, resolved, untimed, cur>>
    BY <1>9 DEF MarkRolledBack, TypeOK, DatabaseTypes
  <2>2. \E x \in {"idle", "check", "commitUndo"} : pc' = [pc EXCEPT ![p] = x]
    BY <1>9, NextMigrationLeaves DEF MarkRolledBack, Goto
  <2> QED
    BY <2>1, <2>2, RowEffects
<1>10. ASSUME NEW p \in Procs, NEW ok \in BOOLEAN, CommitRollback(p, ok) PROVE EffectsFirst'
  <2> PICK m \in Names : m = cur[p]
    BY <1>0
  <2>1. /\ \A n \in Names \ {m} : row'[n] = row[n] /\ effect'[n] = effect[n]
        /\ row'[m] = "rolledback" \/ row'[m] = row[m]
        /\ UNCHANGED <<resolved, untimed, cur>>
    BY <1>10 DEF CommitRollback, TypeOK, DatabaseTypes
  <2>2. m \in resolved \/ row[m] # "absent"
    BY <1>10 DEF CommitRollback, OpenTransactionsHold
  <2>3. \E x \in {"idle", "check"} : pc' = [pc EXCEPT ![p] = x]
    BY <1>10, NextMigrationLeaves DEF CommitRollback
  <2> QED
    BY <2>1, <2>2, <2>3, RowEffects
<1>11. ASSUME NEW p \in Procs, ResolveInsert(p) PROVE EffectsFirst'
  <2> PICK m \in todo[p] :
        /\ IF row[m] = "absent"
             THEN row' = [row EXCEPT ![m] = "applied"] /\ resolved' = resolved \cup {m}
             ELSE UNCHANGED <<row, resolved, untimed>>
        /\ NextMigration(p, m, row[m] = "absent", "insert")
    BY <1>11 DEF ResolveInsert, history
  <2>1. /\ m \in Names /\ UNCHANGED <<effect, cur>>
        /\ \A n \in Names \ {m} : row'[n] = row[n]
        /\ m \in resolved' \/ row'[m] = row[m]
        /\ resolved \subseteq resolved'
    BY <1>0, <1>11 DEF ResolveInsert, TypeOK, DatabaseTypes
  <2> QED
    BY <2>1, NextMigrationLeaves, RowEffects
<1>12. ASSUME NEW p \in Procs, ResolveDelete(p) PROVE EffectsFirst'
  <2> PICK m \in todo[p] :
        /\ row' = [row EXCEPT ![m] = "absent"] /\ resolved' = resolved \cup {m}
        /\ NextMigration(p, m, TRUE, "delete")
    BY <1>12 DEF ResolveDelete
  <2>1. /\ m \in Names /\ UNCHANGED <<effect, cur>>
        /\ \A n \in Names \ {m} : row'[n] = row[n]
        /\ m \in resolved' /\ resolved \subseteq resolved'
    BY <1>0, <1>12 DEF ResolveDelete, TypeOK, DatabaseTypes
  <2>2. \E x \in {"idle", "delete"} : pc' = [pc EXCEPT ![p] = x]
    BY NextMigrationLeaves
  <2>3. \A n \in Names \ {m} : row'[n] = row[n] /\ effect'[n] = effect[n]
    BY <2>1
  <2> QED
    BY <2>1, <2>2, <2>3, RowEffects
<1>13. ASSUME UNCHANGED vars PROVE EffectsFirst'
  BY <1>13 DEF vars, EffectsFirst, Managed, Transactional
<1> QED
  BY <1>1, <1>2, <1>3, <1>4, <1>5, <1>6, <1>7, <1>8, <1>9, <1>10, <1>11, <1>12, <1>13
     DEF Next, Statement

\* A row comes to say applied in three ways: after the SQL, with the SQL, or by hand.
LEMMA RecordedStep ==
  TypeOK /\ OpenTransactionsHold /\ HistoryIsTruthful /\ EffectsFirst /\ [Next]_vars =>
    \A m \in Names : (row[m] # "applied" /\ row'[m] = "applied" /\ m \notin resolved')
                       => effect'[m] >= 1
<1> SUFFICES ASSUME TypeOK, OpenTransactionsHold, HistoryIsTruthful, EffectsFirst, [Next]_vars,
                    NEW m \in Names, row[m] # "applied", row'[m] = "applied", m \notin resolved'
             PROVE  effect'[m] >= 1
  OBVIOUS
<1>0. /\ \A p \in Procs : cur[p] \in Names /\ todo[p] \subseteq Names
      /\ effect \in [Names -> Int] /\ row'[m] # row[m]
  BY DEF TypeOK, CursorTypes, ProgressTypes, DatabaseTypes
<1>1. ASSUME NEW p \in Procs, NEW ok \in BOOLEAN, RecordMigration(p, ok) PROVE effect'[m] >= 1
  <2>1. /\ pc[p] = "record" /\ m = cur[p] /\ row[m] = "absent"
        /\ ~Transactional(m) /\ UNCHANGED <<effect, resolved, untimed>>
    BY <1>0, <1>1 DEF RecordMigration, TypeOK, DatabaseTypes
  <2> QED
    BY <2>1 DEF EffectsFirst
<1>2. ASSUME NEW p \in Procs, NEW ok \in BOOLEAN, CommitMigration(p, ok) PROVE effect'[m] >= 1
  <2>1. /\ pc[p] = "commit" /\ m = cur[p] /\ UNCHANGED resolved
        /\ effect'[m] = effect[m] + 1
    BY <1>0, <1>2 DEF CommitMigration, TypeOK, DatabaseTypes
  <2>2. row[m] = "absent" /\ m \in Managed
    BY <2>1 DEF OpenTransactionsHold, Managed
  <2> QED
    BY <1>0, <2>1, <2>2 DEF EffectsFirst
<1>3. ASSUME NEW p \in Procs, NEW ok \in BOOLEAN, MarkRolledBack(p, ok) \/ CommitRollback(p, ok)
      PROVE  FALSE
  BY <1>0, <1>3 DEF MarkRolledBack, CommitRollback, TypeOK, DatabaseTypes
<1>4. ASSUME NEW p \in Procs, ResolveInsert(p) \/ ResolveDelete(p) PROVE FALSE
  BY <1>0, <1>4 DEF ResolveInsert, ResolveDelete, history, TypeOK, DatabaseTypes
<1>5. ASSUME NEW p \in Procs, NEW ok \in BOOLEAN,
             Command(p) \/ Kill(p) \/ ExecuteSQL(p, ok) \/ CheckApplied(p) \/ ExecuteRollbackSQL(p, ok)
      PROVE  FALSE
  BY <1>0, <1>5, CommandStarts DEF Kill, ExecuteSQL, CheckApplied, ExecuteRollbackSQL, history
<1>6. ASSUME NEW p \in Procs, NEW yes \in BOOLEAN, Answer(p, yes) PROVE FALSE
  BY <1>0, <1>6 DEF Answer, history
<1> QED
  BY <1>0, <1>1, <1>2, <1>3, <1>4, <1>5, <1>6 DEF Next, Statement, vars

LEMMA EffectsInit == Init => EffectsFirst /\ HistoryIsTruthful /\ OpenTransactionsHold
BY DEF Init, EffectsFirst, HistoryIsTruthful, OpenTransactionsHold, Managed

\* recordMigration and Commit come after the SQL: on every provider, whatever races, fails
\* or dies, a row comes to say applied only once the SQL has been executed, or by hand.
THEOREM RecordedLast == Spec => RecordedAfterExecuted
<1>1. TypeOK /\ OpenTransactionsHold /\ HistoryIsTruthful /\ EffectsFirst /\ [Next]_vars =>
        [\A m \in Names : (row[m] # "applied" /\ row'[m] = "applied" /\ m \notin resolved')
                            => effect'[m] >= 1]_vars
  BY RecordedStep
<1> QED
  BY <1>1, EffectsInit, EffectsStep, TruthStep, TypeInit, TypeStep, OpenStep, PTL
     DEF Spec, RecordedAfterExecuted

-----------------------------------------------------------------------------
(* What a command has done with the migrations it announced.               *)

Applying == {"migrate", "record", "commit"}
Undoing == {"check", "undo", "mark", "commitUndo"}

\* Without a failure so far, a command that is done with a migration has recorded it, or
\* has it marked as rolled back, unless somebody resolved it by hand.
DoneBy(p) ==
  /\ pc[p] \in InTransaction => cur[p] \in todo[p]
  /\ pc[p] \in {"confirmDeploy", "confirmRollback"} => plan[p] \subseteq todo[p]
  /\ pc[p] \in Applying /\ ~failed[p] =>
       \A m \in plan[p] \ todo[p] : m \in resolved \/ row[m] # "absent"
  /\ pc[p] \in Undoing /\ ~failed[p] =>
       \A m \in plan[p] \ todo[p] : m \in resolved \/ row[m] = "rolledback"
DoneSoFar == \A p \in Procs : DoneBy(p)

\* A row goes away, and a migration that was rolled back comes back, by hand only.
RowsStay ==
  \A m \in Names :
    /\ m \in resolved \/ row[m] # "absent" => m \in resolved' \/ row'[m] # "absent"
    /\ m \in resolved \/ row[m] = "rolledback" => m \in resolved' \/ row'[m] = "rolledback"

LEMMA RowsStayStep == TypeOK /\ OpenTransactionsHold /\ [Next]_vars => RowsStay
<1> SUFFICES ASSUME TypeOK, OpenTransactionsHold, [Next]_vars PROVE RowsStay
  OBVIOUS
<1>0. /\ \A p \in Procs : cur[p] \in Names /\ todo[p] \subseteq Names
      /\ row \in [Names -> {"absent", "applied", "rolledback"}]
  BY DEF TypeOK, CursorTypes, ProgressTypes, DatabaseTypes
<1>a. UNCHANGED <<row, resolved, untimed>> => RowsStay
  BY DEF RowsStay
<1>1. ASSUME NEW p \in Procs, NEW ok \in BOOLEAN, RecordMigration(p, ok) PROVE RowsStay
  BY <1>0, <1>1 DEF RecordMigration, RowsStay
<1>2. ASSUME NEW p \in Procs, NEW ok \in BOOLEAN, CommitMigration(p, ok) PROVE RowsStay
  BY <1>0, <1>2 DEF CommitMigration, RowsStay, OpenTransactionsHold
<1>3. ASSUME NEW p \in Procs, NEW ok \in BOOLEAN, MarkRolledBack(p, ok) \/ CommitRollback(p, ok)
      PROVE  RowsStay
  BY <1>0, <1>3 DEF MarkRolledBack, CommitRollback, RowsStay
<1>4. ASSUME NEW p \in Procs, ResolveInsert(p) PROVE RowsStay
  BY <1>0, <1>4 DEF ResolveInsert, history, RowsStay
<1>5. ASSUME NEW p \in Procs, ResolveDelete(p) PROVE RowsStay
  BY <1>0, <1>5 DEF ResolveDelete, RowsStay
<1>6. ASSUME NEW p \in Procs, NEW ok \in BOOLEAN,
             Command(p) \/ Kill(p) \/ ExecuteSQL(p, ok) \/ CheckApplied(p) \/ ExecuteRollbackSQL(p, ok)
      PROVE  RowsStay
  BY <1>a, <1>6, CommandStarts DEF Kill, ExecuteSQL, CheckApplied, ExecuteRollbackSQL, history
<1>7. ASSUME NEW p \in Procs, NEW yes \in BOOLEAN, Answer(p, yes) PROVE RowsStay
  BY <1>a, <1>7 DEF Answer, history
<1> QED
  BY <1>a, <1>1, <1>2, <1>3, <1>4, <1>5, <1>6, <1>7 DEF Next, Statement, vars

\* What the step of one process is to the others.
LEMMA OthersDone ==
  ASSUME TypeOK, RowsStay, NEW q \in Procs, DoneBy(q),
         pc'[q] = pc[q], cur'[q] = cur[q], todo'[q] = todo[q], plan'[q] = plan[q],
         failed'[q] = failed[q]
  PROVE  DoneBy(q)'
<1>1. plan[q] \subseteq Names
  BY DEF TypeOK, ProgressTypes
<1> QED
  BY <1>1 DEF DoneBy, RowsStay

\* A statement within the work on one migration.
LEMMA GoOn ==
  ASSUME TypeOK, RowsStay, NEW p \in Procs, DoneBy(p),
         NEW x \in InTransaction, Goto(p, x), UNCHANGED <<local, todo, failed>>,
         cur'[p] \in todo[p],
         \/ pc[p] \in Applying /\ x \in Applying
         \/ pc[p] \in Undoing /\ x \in Undoing
  PROVE  DoneBy(p)'
<1>1. plan[p] \subseteq Names /\ pc'[p] = x /\ UNCHANGED plan
  BY DEF TypeOK, ProgressTypes, Goto, local
<1>2. \/ pc[p] \in Applying /\ x \in Applying /\ x \notin Undoing
      \/ pc[p] \in Undoing /\ x \in Undoing /\ x \notin Applying
  BY DEF Applying, Undoing
<1>3. x \notin {"confirmDeploy", "confirmRollback"}
  BY DEF InTransaction
<1> QED
  BY <1>1, <1>2, <1>3 DEF DoneBy, RowsStay

\* The end of the work on one.
LEMMA LoopDone ==
  ASSUME TypeOK, RowsStay, NEW p \in Procs, DoneBy(p), NEW m \in Names, NEW ok \in BOOLEAN,
         NEW loop \in {"migrate", "check", "insert", "delete"}, NextMigration(p, m, ok, loop),
         loop = "migrate" => pc[p] \in Applying /\ (ok => m \in resolved' \/ row'[m] # "absent"),
         loop = "check" => pc[p] \in Undoing /\ (ok => m \in resolved' \/ row'[m] = "rolledback")
  PROVE  DoneBy(p)'
<1>1. /\ plan[p] \subseteq Names /\ UNCHANGED plan
      /\ todo'[p] = todo[p] \ {m} /\ failed'[p] = (failed[p] \/ ~ok)
      /\ pc'[p] = IF todo[p] \subseteq {m} THEN "idle" ELSE loop
  BY DEF TypeOK, ProgressTypes, NextMigration, Goto, local
<1>2. /\ pc'[p] \notin InTransaction \cup {"confirmDeploy", "confirmRollback"}
      /\ pc'[p] \in Applying => loop = "migrate"
      /\ pc'[p] \in Undoing => loop = "check"
  BY <1>1 DEF InTransaction, Applying, Undoing
<1>3. \A n \in plan'[p] \ todo'[p] : n \in Names /\ (n = m \/ n \in plan[p] \ todo[p])
  BY <1>1
<1>4. ~failed'[p] => ok /\ ~failed[p]
  BY <1>1
<1>5. ASSUME pc'[p] \in Applying, ~failed'[p], NEW n \in plan'[p] \ todo'[p]
      PROVE  n \in resolved' \/ row'[n] # "absent"
  BY <1>2, <1>3, <1>4, <1>5 DEF DoneBy, RowsStay
<1>6. ASSUME pc'[p] \in Undoing, ~failed'[p], NEW n \in plan'[p] \ todo'[p]
      PROVE  n \in resolved' \/ row'[n] = "rolledback"
  BY <1>2, <1>3, <1>4, <1>6 DEF DoneBy, RowsStay
<1> QED
  BY <1>2, <1>5, <1>6 DEF DoneBy

\* Every step keeps count of what has been done.
LEMMA DoneStep == TypeOK /\ OpenTransactionsHold /\ DoneSoFar /\ [Next]_vars => DoneSoFar'
<1> SUFFICES ASSUME TypeOK, OpenTransactionsHold, DoneSoFar, [Next]_vars PROVE DoneSoFar'
  OBVIOUS
<1>a. RowsStay
  BY RowsStayStep
<1>b. ASSUME NEW p \in Procs
      PROVE  DoneBy(p) /\ cur[p] \in Names /\ todo[p] \subseteq Names /\ failed[p] \in BOOLEAN
  BY DEF DoneSoFar, TypeOK, CursorTypes, ProgressTypes
<1>c. ASSUME NEW p \in Procs, DoneBy(p)',
             \A q \in Procs \ {p} : /\ pc'[q] = pc[q] /\ cur'[q] = cur[q] /\ todo'[q] = todo[q]
                                    /\ plan'[q] = plan[q] /\ failed'[q] = failed[q]
      PROVE  DoneSoFar'
  BY <1>a, <1>b, <1>c, OthersDone DEF DoneSoFar
<1>d. ASSUME NEW p \in Procs, NEW m, NEW ok, NEW loop, NextMigration(p, m, ok, loop)
      PROVE  \A q \in Procs \ {p} : /\ pc'[q] = pc[q] /\ todo'[q] = todo[q]
                                    /\ plan'[q] = plan[q] /\ failed'[q] = failed[q]
  BY <1>d DEF NextMigration, Goto, local, TypeOK, ProgressTypes
<1>e. ASSUME NEW p \in Procs, NEW x, Goto(p, x), UNCHANGED <<local, todo, failed>>
      PROVE  \A q \in Procs \ {p} : /\ pc'[q] = pc[q] /\ todo'[q] = todo[q]
                                    /\ plan'[q] = plan[q] /\ failed'[q] = failed[q]
  BY <1>e DEF Goto, local, TypeOK, ProgressTypes
<1>1. ASSUME NEW p \in Procs, Command(p) PROVE DoneSoFar'
  <2> PICK W, x : x \notin InTransaction \cup {"check"} /\ Start(p, W, x)
    BY <1>1, CommandStarts
  <2>1. /\ \A q \in Procs \ {p} : /\ pc'[q] = pc[q] /\ cur'[q] = cur[q] /\ todo'[q] = todo[q]
                                  /\ plan'[q] = plan[q] /\ failed'[q] = failed[q]
        /\ pc'[p] = x /\ plan'[p] = W /\ todo'[p] = W
    BY DEF Start, Goto, TypeOK, ProgressTypes
  <2>2. DoneBy(p)'
    BY <2>1 DEF DoneBy
  <2> QED
    BY <1>c, <2>1, <2>2
<1>2. ASSUME NEW p \in Procs, NEW yes \in BOOLEAN, Answer(p, yes) PROVE DoneSoFar'
  <2>1. /\ pc[p] \in {"confirmDeploy", "confirmRollback"}
        /\ pc'[p] \in {"idle", "migrate", "check"}
        /\ UNCHANGED <<plan, todo, failed, cur>>
        /\ \A q \in Procs \ {p} : pc'[q] = pc[q]
    BY <1>2 DEF Answer, Goto, local, TypeOK, ProgressTypes
  <2>2. pc'[p] \notin InTransaction \cup {"confirmDeploy", "confirmRollback"}
    BY <2>1 DEF InTransaction
  <2>3. DoneBy(p)'
    BY <1>b, <2>1, <2>2 DEF DoneBy
  <2> QED
    BY <1>c, <2>1, <2>3
<1>3. ASSUME NEW p \in Procs, Kill(p) PROVE DoneSoFar'
  <2>1. /\ pc'[p] = "idle" /\ UNCHANGED <<plan, todo, failed, cur>>
        /\ \A q \in Procs \ {p} : pc'[q] = pc[q]
    BY <1>3 DEF Kill, Goto, local, TypeOK, ProgressTypes
  <2>2. DoneBy(p)'
    BY <2>1 DEF DoneBy, InTransaction, Applying, Undoing
  <2> QED
    BY <1>c, <2>1, <2>2
<1>4. ASSUME NEW p \in Procs, NEW ok \in BOOLEAN, ExecuteSQL(p, ok) PROVE DoneSoFar'
  <2> PICK m \in todo[p] :
        /\ cur' = [cur EXCEPT ![p] = m]
        /\ IF ok THEN Goto(p, "record") /\ UNCHANGED <<local, todo, failed, outcome>>
                 ELSE NextMigration(p, m, FALSE, "migrate")
    BY <1>4 DEF ExecuteSQL
  <2>1. cur'[p] = m /\ \A q \in Procs \ {p} : cur'[q] = cur[q]
    BY DEF TypeOK, CursorTypes
  <2>2. pc[p] \in Applying
    BY <1>4 DEF ExecuteSQL, Applying
  <2>3. CASE ok
    <3>1. "record" \in InTransaction /\ "record" \in Applying
      BY DEF InTransaction, Applying
    <3>2. DoneBy(p)'
      BY <1>a, <1>b, <2>1, <2>2, <2>3, <3>1, GoOn
    <3> QED
      BY <1>c, <1>e, <2>1, <2>3, <3>2
  <2>4. CASE ~ok
    <3>1. m \in Names /\ NextMigration(p, m, FALSE, "migrate")
      BY <1>b, <2>4
    <3>2. DoneBy(p)'
      BY <1>a, <1>b, <2>2, <3>1, LoopDone
    <3> QED
      BY <1>c, <1>d, <2>1, <3>1, <3>2
  <2> QED
    BY <2>3, <2>4
<1>5. ASSUME NEW p \in Procs, NEW ok \in BOOLEAN, RecordMigration(p, ok) PROVE DoneSoFar'
  <2> PICK m \in Names : m = cur[p]
    BY <1>b
  <2>1. pc[p] = "record" /\ UNCHANGED cur /\ m \in todo[p]
    BY <1>5, <1>b DEF RecordMigration, DoneBy, InTransaction
  <2>2. CASE Goto(p, "commit") /\ UNCHANGED <<row, local, todo, failed, outcome>>
    <3>1. "commit" \in InTransaction /\ "commit" \in Applying /\ pc[p] \in Applying
      BY <2>1 DEF InTransaction, Applying
    <3>2. DoneBy(p)'
      BY <1>a, <1>b, <2>1, <2>2, <3>1, GoOn
    <3> QED
      BY <1>c, <1>e, <2>1, <2>2, <3>2
  <2>3. CASE \E inserted \in BOOLEAN : /\ NextMigration(p, m, inserted, "migrate")
                                       /\ inserted => row' = [row EXCEPT ![m] = "applied"]
    <3> PICK inserted \in BOOLEAN : /\ NextMigration(p, m, inserted, "migrate")
                                    /\ inserted => row' = [row EXCEPT ![m] = "applied"]
      BY <2>3
    <3>1. inserted => row'[m] # "absent"
      BY DEF TypeOK, DatabaseTypes
    <3>2. pc[p] \in Applying
      BY <2>1 DEF Applying
    <3>3. DoneBy(p)'
      BY <1>a, <1>b, <3>1, <3>2, LoopDone
    <3> QED
      BY <1>c, <1>d, <2>1, <3>3
  <2>4. (ok /\ row[m] = "absent") \in BOOLEAN
    OBVIOUS
  <2> QED
    BY <1>5, <2>2, <2>3, <2>4 DEF RecordMigration
<1>6. ASSUME NEW p \in Procs, NEW ok \in BOOLEAN, CommitMigration(p, ok) PROVE DoneSoFar'
  <2> PICK m \in Names : m = cur[p]
    BY <1>b
  <2>1. /\ pc[p] = "commit" /\ UNCHANGED cur /\ NextMigration(p, m, ok, "migrate")
        /\ ok => row'[m] # "absent"
    BY <1>6 DEF CommitMigration, TypeOK, DatabaseTypes
  <2>2. pc[p] \in Applying
    BY <2>1 DEF Applying
  <2>3. DoneBy(p)'
    BY <1>a, <1>b, <2>1, <2>2, LoopDone
  <2> QED
    BY <1>c, <1>d, <2>1, <2>3
<1>7. ASSUME NEW p \in Procs, CheckApplied(p) PROVE DoneSoFar'
  <2> PICK m \in todo[p] :
        /\ cur' = [cur EXCEPT ![p] = m]
        /\ \/ Goto(p, "undo") /\ UNCHANGED <<local, todo, failed, outcome>>
           \/ NextMigration(p, m, FALSE, "check")
    BY <1>7 DEF CheckApplied
  <2>1. m \in Names /\ cur'[p] = m /\ \A q \in Procs \ {p} : cur'[q] = cur[q]
    BY <1>b DEF TypeOK, CursorTypes
  <2>2. pc[p] \in Undoing /\ "undo" \in Undoing /\ "undo" \in InTransaction
    BY <1>7 DEF CheckApplied, Undoing, InTransaction
  <2>3. CASE Goto(p, "undo") /\ UNCHANGED <<local, todo, failed, outcome>>
    <3>1. DoneBy(p)'
      BY <1>a, <1>b, <2>1, <2>2, <2>3, GoOn
    <3> QED
      BY <1>c, <1>e, <2>1, <2>3, <3>1
  <2>4. CASE NextMigration(p, m, FALSE, "check")
    <3>1. DoneBy(p)'
      BY <1>a, <1>b, <2>1, <2>2, <2>4, LoopDone
    <3> QED
      BY <1>c, <1>d, <2>1, <2>4, <3>1
  <2> QED
    BY <2>3, <2>4
<1>8. ASSUME NEW p \in Procs, NEW ok \in BOOLEAN, ExecuteRollbackSQL(p, ok) PROVE DoneSoFar'
  <2> PICK m \in Names : m = cur[p]
    BY <1>b
  <2>1. /\ pc[p] = "undo" /\ UNCHANGED cur
        /\ \/ Goto(p, "mark") /\ UNCHANGED <<local, todo, failed, outcome>>
           \/ NextMigration(p, m, FALSE, "check")
    BY <1>8 DEF ExecuteRollbackSQL
  <2>2. pc[p] \in Undoing /\ "mark" \in Undoing /\ "mark" \in InTransaction /\ m \in todo[p]
    BY <1>b, <2>1 DEF Undoing, InTransaction, DoneBy
  <2>3. CASE Goto(p, "mark") /\ UNCHANGED <<local, todo, failed, outcome>>
    <3>1. DoneBy(p)'
      BY <1>a, <1>b, <2>1, <2>2, <2>3, GoOn
    <3> QED
      BY <1>c, <1>e, <2>1, <2>3, <3>1
  <2>4. CASE NextMigration(p, m, FALSE, "check")
    <3>1. DoneBy(p)'
      BY <1>a, <1>b, <2>2, <2>4, LoopDone
    <3> QED
      BY <1>c, <1>d, <2>1, <2>4, <3>1
  <2> QED
    BY <2>1, <2>3, <2>4
<1>9. ASSUME NEW p \in Procs, NEW ok \in BOOLEAN, MarkRolledBack(p, ok) PROVE DoneSoFar'
  <2> PICK m \in Names : m = cur[p]
    BY <1>b
  <2>1. /\ pc[p] = "mark" /\ UNCHANGED <<cur, resolved, untimed>>
        /\ \/ Goto(p, "commitUndo") /\ UNCHANGED <<row, local, todo, failed, outcome>>
           \/ /\ row' = IF ok /\ row[m] # "absent" THEN [row EXCEPT ![m] = "rolledback"] ELSE row
              /\ NextMigration(p, m, ok, "check")
    BY <1>9 DEF MarkRolledBack
  <2>2. pc[p] \in Undoing /\ "commitUndo" \in Undoing /\ "commitUndo" \in InTransaction /\ m \in todo[p]
    BY <1>b, <2>1 DEF Undoing, InTransaction, DoneBy
  <2>3. CASE Goto(p, "commitUndo") /\ UNCHANGED <<row, local, todo, failed, outcome>>
    <3>1. DoneBy(p)'
      BY <1>a, <1>b, <2>1, <2>2, <2>3, GoOn
    <3> QED
      BY <1>c, <1>e, <2>1, <2>3, <3>1
  <2>4. CASE /\ row' = IF ok /\ row[m] # "absent" THEN [row EXCEPT ![m] = "rolledback"] ELSE row
             /\ NextMigration(p, m, ok, "check")
    <3>1. row[m] = "absent" => m \in resolved
      BY <2>1 DEF OpenTransactionsHold
    <3>2. ok => m \in resolved' \/ row'[m] = "rolledback"
      BY <2>1, <2>4, <3>1 DEF TypeOK, DatabaseTypes
    <3>3. DoneBy(p)'
      BY <1>a, <1>b, <2>2, <2>4, <3>2, LoopDone
    <3> QED
      BY <1>c, <1>d, <2>1, <2>4, <3>3
  <2> QED
    BY <2>1, <2>3, <2>4
<1>10. ASSUME NEW p \in Procs, NEW ok \in BOOLEAN, CommitRollback(p, ok) PROVE DoneSoFar'
  <2> PICK m \in Names : m = cur[p]
    BY <1>b
  <2>1. /\ pc[p] = "commitUndo" /\ UNCHANGED <<cur, resolved, untimed>> /\ NextMigration(p, m, ok, "check")
        /\ row' = IF ok /\ hit[p] THEN [row EXCEPT ![m] = "rolledback"] ELSE row
    BY <1>10 DEF CommitRollback
  <2>2. ~hit[p] => m \in resolved
    BY <2>1 DEF OpenTransactionsHold
  <2>3. ok => m \in resolved' \/ row'[m] = "rolledback"
    BY <2>1, <2>2 DEF TypeOK, DatabaseTypes
  <2>4. pc[p] \in Undoing
    BY <2>1 DEF Undoing
  <2>5. DoneBy(p)'
    BY <1>a, <1>b, <2>1, <2>3, <2>4, LoopDone
  <2> QED
    BY <1>c, <1>d, <2>1, <2>5
<1>11. ASSUME NEW p \in Procs, ResolveInsert(p) \/ ResolveDelete(p) PROVE DoneSoFar'
  <2>1. \E m \in todo[p], ok \in BOOLEAN, loop \in {"insert", "delete"} :
          NextMigration(p, m, ok, loop)
    BY <1>11 DEF ResolveInsert, ResolveDelete
  <2>2. UNCHANGED cur
    BY <1>11 DEF ResolveInsert, ResolveDelete
  <2> PICK m \in todo[p], ok \in BOOLEAN, loop \in {"insert", "delete"} : NextMigration(p, m, ok, loop)
    BY <2>1
  <2>3. m \in Names
    BY <1>b
  <2>4. DoneBy(p)'
    BY <1>a, <1>b, <2>3, LoopDone
  <2> QED
    BY <1>c, <1>d, <2>2, <2>4
<1>12. ASSUME UNCHANGED vars PROVE DoneSoFar'
  BY <1>12 DEF vars, DoneSoFar, DoneBy
<1> QED
  BY <1>1, <1>2, <1>3, <1>4, <1>5, <1>6, <1>7, <1>8, <1>9, <1>10, <1>11, <1>12 DEF Next, Statement

\* The last iteration reports success if it and all before it succeeded.
LEMMA SummaryStep ==
  TypeOK /\ OpenTransactionsHold /\ DoneSoFar /\ [Next]_vars =>
    \A p \in Procs : (pc[p] \in LastStatement /\ pc'[p] = "idle" /\ outcome'[p] = "success")
      => \A m \in plan[p] \ resolved :
            IF pc[p] \in {"record", "commit"} THEN row'[m] # "absent" ELSE row'[m] = "rolledback"
<1> SUFFICES ASSUME TypeOK, OpenTransactionsHold, DoneSoFar, [Next]_vars,
                    NEW p \in Procs, pc[p] \in LastStatement,
                    outcome'[p] = "success", pc'[p] = "idle",
                    NEW m \in plan[p] \ resolved
             PROVE  IF pc[p] \in {"record", "commit"} THEN row'[m] # "absent"
                                                      ELSE row'[m] = "rolledback"
  OBVIOUS
<1>0. /\ DoneBy(p) /\ cur[p] \in Names /\ m \in Names /\ RowsStay
      /\ plan[p] \subseteq Names /\ todo[p] \subseteq Names
  BY RowsStayStep DEF DoneSoFar, TypeOK, CursorTypes, ProgressTypes
<1>1. ASSUME NEW ok \in BOOLEAN, NEW loop \in {"migrate", "check"}, NextMigration(p, cur[p], ok, loop)
      PROVE  ok /\ ~failed[p] /\ (m = cur[p] \/ m \in plan[p] \ todo[p])
  BY <1>0, <1>1 DEF NextMigration, Goto, TypeOK, ProgressTypes
<1>2. ASSUME NEW ok \in BOOLEAN, CommitMigration(p, ok)
      PROVE  pc[p] \in {"record", "commit"} /\ row'[m] # "absent"
  <2>1. /\ pc[p] = "commit" /\ pc[p] \in Applying /\ UNCHANGED resolved
        /\ ok => row'[cur[p]] # "absent"
        /\ ok /\ ~failed[p] /\ (m = cur[p] \/ m \in plan[p] \ todo[p])
    BY <1>0, <1>1, <1>2 DEF CommitMigration, Applying, TypeOK, DatabaseTypes
  <2> QED
    BY <1>0, <2>1 DEF DoneBy, RowsStay
<1>3. ASSUME NEW ok \in BOOLEAN, CommitRollback(p, ok)
      PROVE  pc[p] \notin {"record", "commit"} /\ row'[m] = "rolledback"
  <2>1. /\ pc[p] = "commitUndo" /\ pc[p] \in Undoing /\ UNCHANGED resolved
        /\ row' = IF ok /\ hit[p] THEN [row EXCEPT ![cur[p]] = "rolledback"] ELSE row
        /\ ok /\ ~failed[p] /\ (m = cur[p] \/ m \in plan[p] \ todo[p])
    BY <1>0, <1>1, <1>3 DEF CommitRollback, Undoing
  <2>2. m = cur[p] => hit[p]
    BY <2>1 DEF OpenTransactionsHold
  <2>3. m = cur[p] => row'[m] = "rolledback"
    BY <1>0, <2>1, <2>2 DEF TypeOK, DatabaseTypes
  <2> QED
    BY <1>0, <2>1, <2>3 DEF DoneBy, RowsStay
<1>a. ASSUME NEW ok \in BOOLEAN, RecordMigration(p, ok)
      PROVE  pc[p] \in {"record", "commit"} /\ row'[m] # "absent"
  <2> DEFINE inserted == ok /\ row[cur[p]] = "absent"
  <2>1. inserted \in BOOLEAN
    BY DEF inserted
  <2>2. /\ pc[p] = "record" /\ pc[p] \in Applying /\ UNCHANGED resolved
        /\ \/ Goto(p, "commit")
           \/ /\ row' = IF inserted THEN [row EXCEPT ![cur[p]] = "applied"] ELSE row
              /\ NextMigration(p, cur[p], inserted, "migrate")
    BY <1>a DEF RecordMigration, Applying, inserted
  <2>3. ~Goto(p, "commit")
    BY DEF Goto, TypeOK, ProgressTypes
  <2> HIDE DEF inserted
  <2>4. /\ inserted /\ ~failed[p] /\ (m = cur[p] \/ m \in plan[p] \ todo[p])
        /\ row' = [row EXCEPT ![cur[p]] = "applied"]
    BY <1>1, <2>1, <2>2, <2>3
  <2>5. m = cur[p] => row'[m] # "absent"
    BY <1>0, <2>4 DEF TypeOK, DatabaseTypes
  <2> QED
    BY <1>0, <2>2, <2>4, <2>5 DEF DoneBy, RowsStay
<1>b. ASSUME NEW ok \in BOOLEAN, MarkRolledBack(p, ok)
      PROVE  pc[p] \notin {"record", "commit"} /\ row'[m] = "rolledback"
  <2>1. /\ pc[p] = "mark" /\ pc[p] \in Undoing /\ UNCHANGED resolved
        /\ \/ Goto(p, "commitUndo")
           \/ /\ row' = IF ok /\ row[cur[p]] # "absent"
                          THEN [row EXCEPT ![cur[p]] = "rolledback"] ELSE row
              /\ NextMigration(p, cur[p], ok, "check")
    BY <1>b DEF MarkRolledBack, Undoing
  <2>2. ~Goto(p, "commitUndo")
    BY DEF Goto, TypeOK, ProgressTypes
  <2>3. ok /\ ~failed[p] /\ (m = cur[p] \/ m \in plan[p] \ todo[p])
    BY <1>1, <2>1, <2>2
  <2>4. m = cur[p] => row[cur[p]] # "absent"
    BY <2>1 DEF OpenTransactionsHold
  <2>5. m = cur[p] => row'[m] = "rolledback"
    BY <1>0, <2>1, <2>2, <2>3, <2>4 DEF TypeOK, DatabaseTypes
  <2> QED
    BY <1>0, <2>1, <2>3, <2>5 DEF DoneBy, RowsStay
<1>4. pc'[p] # pc[p]
  BY DEF LastStatement
<1>5. ASSUME NEW q \in Procs, NEW x, pc' = [pc EXCEPT ![q] = x] PROVE q = p
  BY <1>4, <1>5 DEF TypeOK, ProgressTypes
<1>6. ASSUME NEW q \in Procs, NEW ok \in BOOLEAN,
             \/ CommitMigration(q, ok) \/ CommitRollback(q, ok)
             \/ RecordMigration(q, ok) \/ MarkRolledBack(q, ok)
      PROVE  q = p
  <2>1. \E x : pc' = [pc EXCEPT ![q] = x]
    BY <1>6, NextMigrationLeaves
       DEF CommitMigration, CommitRollback, RecordMigration, MarkRolledBack, Goto
  <2> QED
    BY <1>5, <2>1
<1>7. ASSUME NEW q \in Procs, NEW ok \in BOOLEAN, ExecuteRollbackSQL(q, ok) \/ ExecuteSQL(q, ok)
      PROVE  FALSE
  <2>1. \E x : pc' = [pc EXCEPT ![q] = x]
    BY <1>7, NextMigrationLeaves DEF ExecuteRollbackSQL, ExecuteSQL, Goto
  <2>2. q = p
    BY <1>5, <2>1
  <2> QED
    BY <1>7, <2>2 DEF ExecuteRollbackSQL, ExecuteSQL, LastStatement
<1>8. ASSUME NEW q \in Procs, CheckApplied(q) \/ ResolveInsert(q) \/ ResolveDelete(q)
      PROVE  FALSE
  <2>1. \E x : pc' = [pc EXCEPT ![q] = x]
    BY <1>8, NextMigrationLeaves DEF CheckApplied, ResolveInsert, ResolveDelete, Goto
  <2>2. q = p
    BY <1>5, <2>1
  <2> QED
    BY <1>8, <2>2 DEF CheckApplied, ResolveInsert, ResolveDelete, LastStatement
<1>9. ASSUME NEW q \in Procs, Command(q) PROVE FALSE
  BY <1>5, <1>9, CommandStarts DEF Start, Goto, LastStatement
<1>10. ASSUME NEW q \in Procs, NEW yes \in BOOLEAN, Answer(q, yes) PROVE FALSE
  <2>1. \E x : pc' = [pc EXCEPT ![q] = x]
    BY <1>10 DEF Answer, Goto
  <2> QED
    BY <1>5, <1>10, <2>1 DEF Answer, LastStatement
<1>11. ASSUME NEW q \in Procs, Kill(q) PROVE FALSE
  BY <1>5, <1>11 DEF Kill, Goto, TypeOK, ProgressTypes
<1> QED
  BY <1>2, <1>3, <1>a, <1>b, <1>4, <1>6, <1>7, <1>8, <1>9, <1>10, <1>11 DEF Next, Statement, vars

LEMMA DoneInit == Init => DoneSoFar
BY DEF Init, DoneSoFar, DoneBy, InTransaction, Applying, Undoing

\* A command reports success, whichever statement was its last, only if every migration it
\* announced is recorded, or marked as rolled back, at that moment, or was edited by hand.
THEOREM HonestSummary == Spec => SummaryIsHonest
<1>1. TypeOK /\ OpenTransactionsHold /\ DoneSoFar /\ [Next]_vars =>
        [\A p \in Procs : (pc[p] \in LastStatement /\ pc'[p] = "idle" /\ outcome'[p] = "success")
           => \A m \in plan[p] \ resolved :
                 IF pc[p] \in {"record", "commit"} THEN row'[m] # "absent"
                                                  ELSE row'[m] = "rolledback"]_vars
  BY SummaryStep
<1>2. Init => OpenTransactionsHold
  BY EffectsInit
<1> QED
  BY <1>1, <1>2, DoneInit, DoneStep, TypeInit, TypeStep, OpenStep, PTL DEF Spec, SummaryIsHonest

-----------------------------------------------------------------------------
(* One process at a time: the commands implement the ledger.               *)

\* A single process, a database whose DDL is transactional, and rollback files that hold
\* SQL where they exist.
OneAtATime ==
  /\ \A p, q \in Procs : p = q
  /\ \A m \in Names : Transactional(m)
  /\ "comment" \notin RollbackKinds

\* What the process has found out stays true until its transaction commits.
Undisturbed(p) ==
  /\ pc[p] = "commit" => row[cur[p]] = "absent"
  /\ pc[p] \in {"undo", "mark", "commitUndo"} => row[cur[p]] = "applied" /\ dir[cur[p]] = "sql"
  /\ pc[p] = "commitUndo" => hit[p]
Solo == (\A m \in Names : dir[m] # "comment") /\ (\A p \in Procs : Undisturbed(p))

\* A step to a statement outside the transactions changes what it likes.
LEMMA Outside ==
  ASSUME OneAtATime, TypeOK, NEW p \in Procs, NEW x, pc' = [pc EXCEPT ![p] = x],
         x \notin {"commit", "undo", "mark", "commitUndo"}, \A m \in Names : dir'[m] # "comment"
  PROVE  Solo'
<1>1. ASSUME NEW q \in Procs PROVE Undisturbed(q)'
  <2>1. q = p
    BY DEF OneAtATime
  <2> QED
    BY <2>1 DEF Undisturbed, TypeOK, ProgressTypes
<1> QED
  BY <1>1 DEF Solo

\* The loop over the migrations goes to such a statement.
LEMMA LoopIsOutside ==
  ASSUME OneAtATime, TypeOK, Solo, NEW p \in Procs, NEW m, NEW ok,
         NEW loop \in {"migrate", "check", "insert", "delete"},
         NextMigration(p, m, ok, loop), UNCHANGED dir
  PROVE  Solo'
<1>1. \E x \in {"idle", loop} : pc' = [pc EXCEPT ![p] = x]
  BY DEF NextMigration, Goto
<1> QED
  BY <1>1, Outside DEF Solo

LEMMA SoloStep == OneAtATime /\ TypeOK /\ Solo /\ [Next]_vars => Solo'
<1> SUFFICES ASSUME OneAtATime, TypeOK, Solo, [Next]_vars PROVE Solo'
  OBVIOUS
<1>0. /\ \A p \in Procs : cur[p] \in Names /\ todo[p] \subseteq Names
      /\ pc \in [Procs -> Labels] /\ cur \in [Procs -> Names] /\ hit \in [Procs -> BOOLEAN]
      /\ \A p, q \in Procs : p = q
      /\ \A m \in Names : Transactional(m)
  BY DEF TypeOK, CursorTypes, ProgressTypes, OneAtATime
<1>1. ASSUME NEW p \in Procs, Command(p) PROVE Solo'
  <2>1. \E x : x \notin {"commit", "undo", "mark", "commitUndo"} /\ pc' = [pc EXCEPT ![p] = x]
    BY <1>1, CommandStarts DEF InTransaction, Start, Goto
  <2>2. \A m \in Names : dir'[m] # "comment"
    <3>1. CASE \E m \in Names, a \in BOOLEAN : Dev(p, m, a)
      BY <3>1 DEF Dev, Solo, OneAtATime, TypeOK, DatabaseTypes
    <3>2. CASE UNCHANGED dir
      BY <3>2 DEF Solo
    <3> QED
      BY <1>1, <3>1, <3>2
         DEF Command, Apply, Deploy, RollbackLast, RollbackNamed, RollbackOf, Resolve
  <2> QED
    BY <2>1, <2>2, Outside
<1>2. ASSUME NEW p \in Procs, NEW ok \in BOOLEAN, ExecuteSQL(p, ok) PROVE Solo'
  <2>1. CASE ok
    BY <1>2, <2>1, Outside DEF ExecuteSQL, Goto, Solo
  <2>2. CASE ~ok
    BY <1>2, <2>2, LoopIsOutside DEF ExecuteSQL
  <2> QED
    BY <2>1, <2>2
<1>3. ASSUME NEW p \in Procs, NEW ok \in BOOLEAN, RecordMigration(p, ok) PROVE Solo'
  <2>1. CASE ok /\ row[cur[p]] = "absent"
    <3>1. Goto(p, "commit") /\ UNCHANGED <<row, dir, cur>>
      BY <1>0, <1>3, <2>1 DEF RecordMigration
    <3> QED
      BY <1>0, <2>1, <3>1 DEF Goto, Solo, Undisturbed
  <2>2. CASE ~(ok /\ row[cur[p]] = "absent")
    BY <1>3, <2>2, LoopIsOutside DEF RecordMigration
  <2> QED
    BY <2>1, <2>2
<1>4. ASSUME NEW p \in Procs, NEW ok \in BOOLEAN, CommitMigration(p, ok) PROVE Solo'
  BY <1>4, LoopIsOutside DEF CommitMigration
<1>5. ASSUME NEW p \in Procs, CheckApplied(p) PROVE Solo'
  <2> PICK m \in todo[p] :
        /\ cur' = [cur EXCEPT ![p] = m]
        /\ IF dir[m] \in {"sql", "comment"} /\ MayRollBack(m)
             THEN Goto(p, "undo") /\ UNCHANGED <<local, todo, failed, outcome>>
             ELSE NextMigration(p, m, FALSE, "check")
    BY <1>5 DEF CheckApplied
  <2>1. UNCHANGED <<row, dir>>
    BY <1>5 DEF CheckApplied, history
  <2>2. CASE dir[m] \in {"sql", "comment"} /\ MayRollBack(m)
    BY <1>0, <2>1, <2>2 DEF Goto, Solo, Undisturbed, MayRollBack
  <2>3. CASE ~(dir[m] \in {"sql", "comment"} /\ MayRollBack(m))
    BY <2>1, <2>3, LoopIsOutside
  <2> QED
    BY <2>2, <2>3
<1>6. ASSUME NEW p \in Procs, NEW ok \in BOOLEAN, ExecuteRollbackSQL(p, ok) PROVE Solo'
  <2>1. UNCHANGED <<row, dir, cur>> /\ pc[p] = "undo"
    BY <1>6 DEF ExecuteRollbackSQL, history
  <2>2. CASE Goto(p, "mark")
    BY <1>0, <2>1, <2>2 DEF Goto, Solo, Undisturbed
  <2>3. CASE NextMigration(p, cur[p], FALSE, "check")
    BY <2>1, <2>3, LoopIsOutside
  <2> QED
    BY <1>6, <2>2, <2>3 DEF ExecuteRollbackSQL
<1>7. ASSUME NEW p \in Procs, NEW ok \in BOOLEAN, MarkRolledBack(p, ok) PROVE Solo'
  <2>1. UNCHANGED <<dir, cur>> /\ pc[p] = "mark"
    BY <1>7 DEF MarkRolledBack
  <2>2. CASE ok
    <3>1. Goto(p, "commitUndo") /\ UNCHANGED row
      BY <1>0, <1>7, <2>2 DEF MarkRolledBack
    <3>2. hit'[p] = (row[cur[p]] # "absent")
      BY <1>0, <1>7, <2>2 DEF MarkRolledBack
    <3> QED
      BY <1>0, <2>1, <3>1, <3>2 DEF Goto, Solo, Undisturbed
  <2>3. CASE ~ok
    BY <1>7, <2>1, <2>3, LoopIsOutside DEF MarkRolledBack
  <2> QED
    BY <2>2, <2>3
<1>8. ASSUME NEW p \in Procs, NEW ok \in BOOLEAN, CommitRollback(p, ok) PROVE Solo'
  BY <1>8, LoopIsOutside DEF CommitRollback
<1>9. ASSUME NEW p \in Procs, ResolveInsert(p) \/ ResolveDelete(p) PROVE Solo'
  BY <1>9, LoopIsOutside DEF ResolveInsert, ResolveDelete
<1>10. ASSUME NEW p \in Procs, NEW yes \in BOOLEAN, Answer(p, yes) PROVE Solo'
  <2>1. \E x \in {"idle", "migrate", "check"} : pc' = [pc EXCEPT ![p] = x]
    BY <1>10 DEF Answer, Goto
  <2> QED
    BY <1>10, <2>1, Outside DEF Answer, Solo
<1>11. ASSUME NEW p \in Procs, Kill(p) PROVE Solo'
  BY <1>11, Outside DEF Kill, Goto, Solo
<1>12. CASE UNCHANGED vars
  BY <1>12 DEF vars, Solo, Undisturbed
<1> QED
  BY <1>1, <1>2, <1>3, <1>4, <1>5, <1>6, <1>7, <1>8, <1>9, <1>10, <1>11, <1>12 DEF Next, Statement

\* Every statement is a step of the ledger, or none at all.
LEMMA LedgerStep ==
  OneAtATime /\ TypeOK /\ Solo /\ [Next]_vars => [Ledger!Next]_<<row, effect>>
<1> SUFFICES ASSUME OneAtATime, TypeOK, Solo, [Next]_vars PROVE [Ledger!Next]_<<row, effect>>
  OBVIOUS
<1>0. /\ \A p \in Procs : cur[p] \in Names /\ todo[p] \subseteq Names
      /\ row \in [Names -> {"absent", "applied", "rolledback"}] /\ effect \in [Names -> Int]
      /\ \A m \in Names : Transactional(m)
  BY DEF TypeOK, CursorTypes, ProgressTypes, DatabaseTypes, OneAtATime
<1>a. UNCHANGED <<row, effect>> => [Ledger!Next]_<<row, effect>>
  OBVIOUS
<1>1. ASSUME NEW p \in Procs, NEW ok \in BOOLEAN, CommitMigration(p, ok) PROVE [Ledger!Next]_<<row, effect>>
  <2>1. CASE ok
    <3>1. row[cur[p]] = "absent"
      BY <1>1 DEF CommitMigration, Solo, Undisturbed
    <3>2. Ledger!ApplyOne(cur[p])
      BY <1>0, <1>1, <2>1, <3>1 DEF CommitMigration, Ledger!ApplyOne
    <3> QED
      BY <1>0, <3>2 DEF Ledger!Next
  <2>2. CASE ~ok
    BY <1>1, <1>a, <2>2 DEF CommitMigration
  <2> QED
    BY <2>1, <2>2
<1>2. ASSUME NEW p \in Procs, NEW ok \in BOOLEAN, CommitRollback(p, ok) PROVE [Ledger!Next]_<<row, effect>>
  <2>1. CASE ok
    <3>1. row[cur[p]] = "applied" /\ Undone(cur[p]) = 1 /\ hit[p]
      BY <1>2 DEF CommitRollback, Solo, Undisturbed, Undone
    <3>2. Ledger!UndoOne(cur[p])
      BY <1>0, <1>2, <2>1, <3>1 DEF CommitRollback, Ledger!UndoOne
    <3> QED
      BY <1>0, <3>2 DEF Ledger!Next
  <2>2. CASE ~ok
    BY <1>2, <1>a, <2>2 DEF CommitRollback
  <2> QED
    BY <2>1, <2>2
<1>3. ASSUME NEW p \in Procs, ResolveInsert(p) PROVE [Ledger!Next]_<<row, effect>>
  <2> PICK m \in todo[p] :
        IF row[m] = "absent" THEN row' = [row EXCEPT ![m] = "applied"] ELSE UNCHANGED history
    BY <1>3 DEF ResolveInsert, history
  <2>1. UNCHANGED effect
    BY <1>3 DEF ResolveInsert
  <2>2. CASE row[m] = "absent"
    <3>1. Ledger!Declare(m)
      BY <2>1, <2>2 DEF Ledger!Declare
    <3> QED
      BY <1>0, <3>1 DEF Ledger!Next
  <2>3. CASE row[m] # "absent"
    BY <1>a, <2>1, <2>3 DEF history
  <2> QED
    BY <2>2, <2>3
<1>4. ASSUME NEW p \in Procs, ResolveDelete(p) PROVE [Ledger!Next]_<<row, effect>>
  <2>1. \E m \in Names : Ledger!Forget(m)
    BY <1>0, <1>4 DEF ResolveDelete, Ledger!Forget
  <2> QED
    BY <2>1 DEF Ledger!Next
<1>5. ASSUME NEW p \in Procs, NEW ok \in BOOLEAN, ExecuteSQL(p, ok) \/ ExecuteRollbackSQL(p, ok)
      PROVE  UNCHANGED <<row, effect>>
  BY <1>0, <1>5 DEF ExecuteSQL, ExecuteRollbackSQL, history
<1>6. ASSUME NEW p \in Procs, NEW ok \in BOOLEAN, RecordMigration(p, ok)
      PROVE  UNCHANGED <<row, effect>>
  BY <1>0, <1>6 DEF RecordMigration
<1>7. ASSUME NEW p \in Procs, NEW ok \in BOOLEAN, MarkRolledBack(p, ok)
      PROVE  UNCHANGED <<row, effect>>
  BY <1>0, <1>7 DEF MarkRolledBack
<1>8. ASSUME NEW p \in Procs, Command(p) \/ CheckApplied(p) \/ Kill(p) PROVE UNCHANGED <<row, effect>>
  BY <1>8, CommandStarts DEF CheckApplied, Kill, history
<1>9. ASSUME NEW p \in Procs, NEW yes \in BOOLEAN, Answer(p, yes) PROVE UNCHANGED <<row, effect>>
  BY <1>9 DEF Answer, history
<1> QED
  BY <1>a, <1>1, <1>2, <1>3, <1>4, <1>5, <1>6, <1>7, <1>8, <1>9 DEF Next, Statement, vars

\* Without concurrency the statements of the commands, whatever fails and wherever the process
\* dies, change rows and schema as the one-step operations of the ledger do.
THEOREM LedgerIsKept == ASSUME OneAtATime PROVE Spec => ImplementsLedger
<1>1. Init => Ledger!Init
  BY DEF Init, Ledger!Init
<1>2. Init => Solo
  BY DEF Init, Solo, Undisturbed, OneAtATime
<1> QED
  BY <1>1, <1>2, TypeInit, TypeStep, SoloStep, LedgerStep, PTL
     DEF Spec, ImplementsLedger, Ledger!Spec
=============================================================================
