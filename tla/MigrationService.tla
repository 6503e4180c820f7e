-------------------------- MODULE MigrationService --------------------------
(***************************************************************************)
(* The migrate commands of the second CLI (v3/cmd/prisma) and the          *)
(* MigrationService behind them: the status of a migration lives in its    *)
(* JSON file, its effect in the database, its record in the history table, *)
(* and no transaction spans the three.  Commands of several processes      *)
(* interleave and may be killed between any two steps.                     *)
(***************************************************************************)
EXTENDS Integers, FiniteSets, FiniteSetsExt

CONSTANTS
  Procs,
  Written,      \* migrations with SQL that are in the directory from the start
  Reversible,   \* those of them whose file has RollbackSQL
  MaxMigration, \* bound: the last migration `migrate dev' creates
  Provider,     \* of the adapter: "postgresql" or "sqlite", where DDL is transactional
  Connected     \* somebody has called Connect on the adapter

\* Migrations are numbered by CreatedAt.
Migrations == 1..MaxMigration

\* What `migrate dev' creates is younger than what is written.
ASSUME MigrationAssumption ==
  /\ MaxMigration \in Nat /\ Written \subseteq Migrations /\ Reversible \subseteq Written
  /\ \A m \in Written : 1..m \subseteq Written
ASSUME AdapterAssumption == Provider \in {"postgresql", "sqlite"} /\ Connected \in BOOLEAN

VARIABLES
  file,         \* file[m]: "none", the Status in the JSON file, or "unreadable"
  executed,     \* migrations whose effect is in the database
  undone,       \* history: migrations whose rollback SQL was executed
  historyTable, \* _prisma_migrations exists
  history,      \* migrations with a row in it
  pc,           \* pc[p]: "idle", the next step, or how the command ended: "ok", "error"
  todo          \* todo[p]: migrations the loop of the command did not finish

vars == <<file, executed, undone, historyTable, history, pc, todo>>

Statuses == {"none", "unreadable", "Pending", "Applied", "Failed", "RolledBack"}
PCs == {"idle", "find", "execute", "saveFailed", "mark", "record",
        "findApplied", "undo", "saveRolledBack", "ok", "error"}

TypeOK ==
  /\ file \in [Migrations -> Statuses]
  /\ executed \subseteq Written /\ undone \subseteq Written /\ history \subseteq Migrations
  /\ historyTable \in BOOLEAN /\ (history # {} => historyTable)
  /\ pc \in [Procs -> PCs]
  /\ todo \in [Procs -> SUBSET Migrations]

Init ==
  /\ file = [m \in Migrations |-> IF m \in Written THEN "Pending" ELSE "none"]
  /\ executed = {} /\ undone = {} /\ historyTable = FALSE /\ history = {}
  /\ pc = [p \in Procs |-> "idle"]
  /\ todo = [p \in Procs |-> {}]

-----------------------------------------------------------------------------
At(p, label) == pc[p] = label
GoTo(p, label) == pc' = [pc EXCEPT ![p] = label]
Free(p) == pc[p] \in {"idle", "ok", "error"}
WithStatus(s) == {m \in Migrations : file[m] = s}
SetStatus(m, s) == file' = [file EXCEPT ![m] = s]

\* Mutant of Current: deploy starts with the newest migration.
Current_newest(p) == Max(todo[p])

\* The migration a loop is at: the oldest one, or in the first loop of reset the newest.
Current(p) ==
  IF pc[p] \in {"findApplied", "undo", "saveRolledBack"} THEN Max(todo[p]) ELSE Min(todo[p])

StartLoop(p, label, set) ==
  /\ todo' = [todo EXCEPT ![p] = set]
  /\ GoTo(p, IF set = {} THEN "ok" ELSE label)

\* The loop is done with a migration; the first loop of reset is followed by one over the
\* migrations that are pending then.
Advance(p) ==
  LET rest == todo[p] \ {Current(p)}
  IN  IF rest # {} THEN /\ todo' = [todo EXCEPT ![p] = rest]
                        /\ GoTo(p, IF At(p, "saveRolledBack") THEN "findApplied" ELSE "find")
      ELSE IF At(p, "saveRolledBack")
        THEN StartLoop(p, "find", {m \in Migrations : file'[m] = "Pending"})
        ELSE StartLoop(p, "find", {})

\* return err: the commands stop at the first error.
Fail(p) ==
  /\ GoTo(p, "error")
  /\ todo' = [todo EXCEPT ![p] = {}]

\* CreateMigration compares the database with an empty schema.  If the database has
\* tables the plan drops them, and the file cannot be read back, because Changes holds
\* interface values.
Dev(p) ==
  /\ Free(p)
  /\ \E m \in WithStatus("none") :
       /\ \A n \in WithStatus("none") : m <= n
       /\ SetStatus(m, IF Connected /\ (executed # {} \/ historyTable)
                         THEN "unreadable" ELSE "Pending")
       /\ StartLoop(p, "find", {m})
  /\ UNCHANGED <<executed, undone, historyTable, history>>

Deploy(p) ==
  /\ Free(p)
  /\ StartLoop(p, "find", WithStatus("Pending"))
  /\ UNCHANGED <<file, executed, undone, historyTable, history>>

\* reset --force; with nothing to roll back it goes on with the pending migrations.
Reset(p) ==
  /\ Free(p)
  /\ IF WithStatus("Applied") # {} THEN StartLoop(p, "findApplied", WithStatus("Applied"))
                                   ELSE StartLoop(p, "find", WithStatus("Pending"))
  /\ UNCHANGED <<file, executed, undone, historyTable, history>>
-----------------------------------------------------------------------------
\* ApplyMigration: FindByID and the check of its status.
Find(p) ==
  /\ At(p, "find")
  /\ IF file[Current(p)] \in {"unreadable", "Applied"}
       THEN Fail(p)
       ELSE GoTo(p, "execute") /\ UNCHANGED todo
  /\ UNCHANGED <<file, executed, undone, historyTable, history>>

\* Execute runs the SQL in one transaction; a second CREATE TABLE is rejected, and the SQL
\* of a migration made by CreateMigration is empty.
Execute(p) ==
  LET m == Current(p)
  IN  /\ At(p, "execute") /\ Connected /\ m \notin executed
      /\ executed' = IF m \in Written THEN executed \cup {m} ELSE executed
      /\ GoTo(p, "mark")
      /\ UNCHANGED <<file, undone, historyTable, history, todo>>

\* Mutant of ExecuteFails: the error is not looked at.
ExecuteFails_ignored(p) ==
  /\ At(p, "execute")
  /\ GoTo(p, "mark")
  /\ UNCHANGED <<file, executed, undone, historyTable, history, todo>>

\* The database may reject any statement, and rejects them all before Connect.
ExecuteFails(p) ==
  /\ At(p, "execute")
  /\ GoTo(p, "saveFailed")
  /\ UNCHANGED <<file, executed, undone, historyTable, history, todo>>

\* Mutant of SaveFailed: the loop tries the migration again.
SaveFailed_retries(p) ==
  /\ At(p, "saveFailed")
  /\ SetStatus(Current(p), "Failed")
  /\ GoTo(p, "find")
  /\ UNCHANGED <<executed, undone, historyTable, history, todo>>

SaveFailed(p) ==
  /\ At(p, "saveFailed")
  /\ SetStatus(Current(p), "Failed")
  /\ Fail(p)
  /\ UNCHANGED <<executed, undone, historyTable, history>>

MarkAsApplied(p) ==
  /\ At(p, "mark")
  /\ SetStatus(Current(p), "Applied")
  /\ GoTo(p, "record")
  /\ UNCHANGED <<executed, undone, historyTable, history, todo>>

\* Record creates the table if need be; lib/pq rejects the placeholders of its INSERT.
Record(p) ==
  /\ At(p, "record") /\ Provider = "sqlite" /\ Current(p) \notin history
  /\ historyTable' = TRUE
  /\ history' = history \cup {Current(p)}
  /\ Advance(p)
  /\ UNCHANGED <<file, executed, undone>>

RecordFails(p) ==
  /\ At(p, "record")
  /\ historyTable' \in {historyTable, TRUE}
  /\ Fail(p)
  /\ UNCHANGED <<file, executed, undone, history>>

-----------------------------------------------------------------------------
\* RollbackMigration.
FindApplied(p) ==
  /\ At(p, "findApplied")
  /\ IF file[Current(p)] # "Applied" THEN Fail(p) ELSE GoTo(p, "undo") /\ UNCHANGED todo
  /\ UNCHANGED <<file, executed, undone, historyTable, history>>

\* MigrationExecutor.Rollback; a file that can be read has no Changes to reverse.
Undo(p) ==
  LET m == Current(p)
  IN  /\ At(p, "undo") /\ Connected /\ m \in Reversible \cap executed
      /\ executed' = executed \ {m}
      /\ undone' = undone \cup {m}
      /\ GoTo(p, "saveRolledBack")
      /\ UNCHANGED <<file, historyTable, history, todo>>

UndoFails(p) ==
  /\ At(p, "undo")
  /\ Fail(p)
  /\ UNCHANGED <<file, executed, undone, historyTable, history>>

SaveRolledBack(p) ==
  /\ At(p, "saveRolledBack")
  /\ SetStatus(Current(p), "RolledBack")
  /\ Advance(p)
  /\ UNCHANGED <<executed, undone, historyTable, history>>

Crash(p) ==
  /\ ~Free(p)
  /\ GoTo(p, "idle") /\ todo' = [todo EXCEPT ![p] = {}]
  /\ UNCHANGED <<file, executed, undone, historyTable, history>>

Step(p) ==
  \/ Find(p) \/ Execute(p) \/ ExecuteFails(p) \/ SaveFailed(p) \/ MarkAsApplied(p) \/ Record(p)
  \/ RecordFails(p)
  \/ FindApplied(p) \/ Undo(p) \/ UndoFails(p) \/ SaveRolledBack(p)

Next == \E p \in Procs : Dev(p) \/ Deploy(p) \/ Reset(p) \/ Step(p) \/ Crash(p)

\* A command that runs goes on.
Fairness == \A p \in Procs : WF_vars(Step(p))

Spec == Init /\ [][Next]_vars
FairSpec == Spec /\ Fairness

-----------------------------------------------------------------------------
\* A migration whose file or whose history row says applied is in the database, unless
\* a reset has taken it back.
AppliedIsExecuted ==
  \A m \in Written \ undone : file[m] = "Applied" \/ m \in history => m \in executed

\* Deploy applies the migrations in the order of their creation: none is executed while an
\* older one is pending.
InOrder ==
  [][\A m \in executed' \ executed : \A n \in Migrations : n < m => file[n] # "Pending"]_vars

\* Every command that is not killed ends.
CommandsEnd == \A p \in Procs : ~Free(p) ~> Free(p)
=============================================================================
