----------------------------- MODULE MigrateCLI -----------------------------
(***************************************************************************)
(* The migrate commands of the CLI (cli/commands/migrate.go) working on    *)
(* one database through MigrationExecutor (migrate/executor) and the       *)
(* history Manager (migrate/history).  Several command processes run at    *)
(* the same time against the table _prisma_migrations; every SQL statement *)
(* is one step, a transaction is invisible to the others until it commits, *)
(* and a process may die between any two statements.                       *)
(*                                                                         *)
(* A migration is its directory name; names are numbers, in the order      *)
(* os.ReadDir lists the directories.  What a migration's SQL does to the   *)
(* schema is abstracted to the number of times it is in effect.            *)
(***************************************************************************)
EXTENDS Integers, FiniteSets

CONSTANTS
  N,             \* number of migration names
  Procs,         \* concurrent prisma-go processes
  Provider,      \* the database: "postgresql", "mysql" or "sqlite"
  DataOnly,      \* the names whose SQL and rollback SQL hold no DDL
  RollbackKinds, \* what a generated rollback.sql may hold
  MaxRuns        \* bound: commands started in a behaviour

Names == 1..N

ASSUME NAssumption == N \in Nat \ {0}
ASSUME ProviderAssumption == Provider \in {"postgresql", "mysql", "sqlite"}
ASSUME DataOnlyAssumption == DataOnly \subseteq 1..N
ASSUME RollbackKindsAssumption == RollbackKinds \subseteq {"sql", "comment", "missing"}
ASSUME MaxRunsAssumption == MaxRuns \in Nat

VARIABLES
  dir,      \* dir[m]: "none", or what the rollback.sql next to migration.sql holds
  row,      \* row[m]: the committed row of m in _prisma_migrations
  stamp,    \* stamp[m]: applied_at of that row, as a logical clock
  clock,    \* the source of stamps
  effect,   \* effect[m]: executions of m's SQL less executions of its rollback
  resolved, \* names whose row was edited by hand through migrate resolve
  untimed,  \* names whose row has no execution_time (NULL)
  pc,       \* the statement a process is about to execute
  plan,     \* the migrations the running command announced
  todo,     \* those of them still to be worked on
  seen,     \* applied_at as the command listed it
  cur,      \* the migration being worked on
  hit,      \* whether the UPDATE of a rollback matched a row
  failed,   \* whether one of the migrations of this command failed
  outcome,  \* what the last command of a process reported
  runs      \* commands started so far (bounded by MaxRuns)

history == <<row, stamp, clock>>
local == <<plan, seen>>
vars == <<dir, row, stamp, clock, effect, resolved, untimed, pc, plan, todo, seen,
          cur, hit, failed, outcome, runs>>

\* MySQL commits implicitly before and after DDL, so there the BEGIN, ROLLBACK
\* and COMMIT around a migration protect nothing unless it only changes data.
Transactional(m) == Provider # "mysql" \/ m \in DataOnly

Recorded == {m \in Names : row[m] # "absent"}

\* GetAll scans rolled_back into an int, which the BOOLEAN column of
\* PostgreSQL cannot be converted to, and execution_time into an int64, which
\* the NULL of a row inserted by resolve cannot be converted to anywhere.
\* (MySQL: with parseTime=true in the URL, or applied_at could not be scanned.)
GetAllFails == \/ Provider = "postgresql" /\ Recorded # {}
               \/ untimed \cap Recorded # {}

\* The row of m is locked by an uncommitted INSERT or UPDATE of another process.
InsertPending(p, m) == \E q \in Procs \ {p} : pc[q] = "commit" /\ cur[q] = m
UpdatePending(p, m) == \E q \in Procs \ {p} : pc[q] = "commitUndo" /\ cur[q] = m /\ hit[q]

Labels == {"idle", "confirmDeploy", "confirmRollback", "migrate", "record", "commit",
           "check", "undo", "mark", "commitUndo", "insert", "delete"}
Outcomes == {"none", "success", "failed", "up_to_date", "unreadable", "nothing",
             "aborted", "killed"}

DatabaseTypes ==
  /\ dir \in [Names -> {"none", "sql", "comment", "missing"}]
  /\ row \in [Names -> {"absent", "applied", "rolledback"}]
  /\ stamp \in [Names -> Nat]
  /\ clock \in Nat
  /\ effect \in [Names -> Int]
  /\ resolved \subseteq Names
  /\ untimed \subseteq Names

ProgressTypes ==
  /\ pc \in [Procs -> Labels]
  /\ plan \in [Procs -> SUBSET Names]
  /\ todo \in [Procs -> SUBSET Names]
  /\ seen \in [Procs -> [Names -> Nat]]
  /\ failed \in [Procs -> BOOLEAN]
  /\ outcome \in [Procs -> Outcomes]

CursorTypes ==
  /\ cur \in [Procs -> Names]
  /\ hit \in [Procs -> BOOLEAN]
  /\ runs \in Nat

TypeOK == DatabaseTypes /\ ProgressTypes /\ CursorTypes

\* A new database; the project may come with migration directories (a checkout).
Init ==
  /\ dir \in [Names -> {"none"} \cup RollbackKinds]
  /\ row = [m \in Names |-> "absent"]
  /\ stamp = [m \in Names |-> 0]
  /\ clock = 0
  /\ effect = [m \in Names |-> 0]
  /\ resolved = {}
  /\ untimed = {}
  /\ pc = [p \in Procs |-> "idle"]
  /\ plan = [p \in Procs |-> {}]
  /\ todo = [p \in Procs |-> {}]
  /\ seen = [p \in Procs |-> [m \in Names |-> 0]]
  /\ cur = [p \in Procs |-> 1]
  /\ hit = [p \in Procs |-> FALSE]
  /\ failed = [p \in Procs |-> FALSE]
  /\ outcome = [p \in Procs |-> "none"]
  /\ runs = 0

-----------------------------------------------------------------------------
(* Starting and ending commands.                                           *)

Goto(p, label) == pc' = [pc EXCEPT ![p] = label]

\* A new process: fresh locals, work W, first statement at label.
Start(p, W, label) ==
  /\ pc[p] = "idle" /\ runs < MaxRuns
  /\ runs' = runs + 1
  /\ Goto(p, label)
  /\ plan' = [plan EXCEPT ![p] = W]
  /\ todo' = [todo EXCEPT ![p] = W]
  /\ seen' = [seen EXCEPT ![p] = stamp]
  /\ failed' = [failed EXCEPT ![p] = FALSE]
  /\ UNCHANGED <<cur, hit>>

\* A command that ends at once, reporting o.
StartAndReport(p, o) ==
  /\ Start(p, {}, "idle")
  /\ outcome' = [outcome EXCEPT ![p] = o]

\* Mutant of NextMigration: the summary looks at the last migration only.
NextMigration_lastOnly(p, m, ok, loop) ==
  LET last == todo[p] \subseteq {m}
  IN  /\ todo' = [todo EXCEPT ![p] = @ \ {m}]
      /\ failed' = [failed EXCEPT ![p] = ~ok]
      /\ Goto(p, IF last THEN "idle" ELSE loop)
      /\ outcome' = [outcome EXCEPT ![p] =
                       IF ~last THEN @ ELSE IF ok THEN "success" ELSE "failed"]
      /\ UNCHANGED local

\* The loop of deploy and rollback goes on after a failure; the last iteration
\* prints the summary.
NextMigration(p, m, ok, loop) ==
  LET bad == failed[p] \/ ~ok
      last == todo[p] \subseteq {m}
  IN  /\ todo' = [todo EXCEPT ![p] = @ \ {m}]
      /\ failed' = [failed EXCEPT ![p] = bad]
      /\ Goto(p, IF last THEN "idle" ELSE loop)
      /\ outcome' = [outcome EXCEPT ![p] =
                       IF ~last THEN @ ELSE IF bad THEN "failed" ELSE "success"]
      /\ UNCHANGED local

-----------------------------------------------------------------------------
(* migrate dev, apply, deploy, rollback and resolve, up to their first     *)
(* write.                                                                  *)

\* migrate dev: write the directory of m, then stop or apply it.  Rollback SQL
\* may be comments only (dropped objects, a generator error), and a rollback
\* file that cannot be written is only warned about.
\* Names are fresh: migration_<time> unless the user chooses one.
Dev(p, m, autoApply) ==
  /\ dir[m] = "none"
  /\ \E kind \in RollbackKinds : dir' = [dir EXCEPT ![m] = kind]
  /\ IF autoApply THEN Start(p, {m}, "migrate") /\ UNCHANGED outcome
                  ELSE StartAndReport(p, "success")
  /\ UNCHANGED <<history, effect, resolved, untimed>>

\* migrate apply: one migration file, without looking at the history.
Apply(p, m) ==
  /\ dir[m] # "none"
  /\ Start(p, {m}, "migrate")
  /\ UNCHANGED <<dir, history, effect, resolved, untimed, outcome>>

\* migrate deploy: directories without a row are pending, rolled-back rows count
\* as applied.
Deploy(p) ==
  LET pending == {m \in Names : dir[m] # "none"} \ Recorded
  IN  /\ IF GetAllFails THEN StartAndReport(p, "unreadable")
         ELSE IF pending = {} THEN StartAndReport(p, "up_to_date")
         ELSE Start(p, pending, "confirmDeploy") /\ UNCHANGED outcome
      /\ UNCHANGED <<dir, history, effect, resolved, untimed>>

\* The last k rows by applied_at, whether rolled back already or not.
LastRows(k) == {m \in Recorded : Cardinality({j \in Recorded : stamp[j] > stamp[m]}) < k}

\* migrate rollback, of the named migration or of the last k.
RollbackOf(p, targets) ==
  /\ IF GetAllFails THEN StartAndReport(p, "unreadable")
     ELSE IF targets = {} THEN StartAndReport(p, "nothing")
     ELSE Start(p, targets, "confirmRollback") /\ UNCHANGED outcome
  /\ UNCHANGED <<dir, history, effect, resolved, untimed>>

RollbackLast(p, k) == RollbackOf(p, LastRows(k))
RollbackNamed(p, m) == RollbackOf(p, {m} \cap Recorded)

\* Mutant of Answer: the prompt of rollback jumps past the loop.
Answer_pastLoop(p, yes) ==
  /\ pc[p] \in {"confirmDeploy", "confirmRollback"}
  /\ Goto(p, IF ~yes THEN "idle" ELSE IF pc[p] = "confirmDeploy" THEN "migrate" ELSE "done")
  /\ UNCHANGED <<dir, history, effect, resolved, untimed, local, todo, cur, hit, failed, outcome, runs>>

\* The y/N prompt of deploy and rollback.
Answer(p, yes) ==
  /\ pc[p] \in {"confirmDeploy", "confirmRollback"}
  /\ IF yes THEN /\ Goto(p, IF pc[p] = "confirmDeploy" THEN "migrate" ELSE "check")
                 /\ UNCHANGED outcome
            ELSE Goto(p, "idle") /\ outcome' = [outcome EXCEPT ![p] = "aborted"]
  /\ UNCHANGED <<dir, history, effect, resolved, untimed, local, todo, cur, hit, failed, runs>>

\* migrate resolve: reads the history, then edits the row with a statement of
\* its own; see ResolveInsert and ResolveDelete.
Resolve(p, m, action) ==
  /\ IF GetAllFails THEN StartAndReport(p, "unreadable")
     ELSE IF (m \in Recorded) = (action = "applied") THEN StartAndReport(p, "success")
     ELSE /\ Start(p, {m}, IF action = "applied" THEN "insert" ELSE "delete")
          /\ UNCHANGED outcome
  /\ UNCHANGED <<dir, history, effect, resolved, untimed>>

-----------------------------------------------------------------------------
(* MigrationExecutor.ExecuteMigration: BEGIN, the SQL, the INSERT, COMMIT. *)

\* Mutant of ExecuteSQL: the error of the SQL is not checked.
ExecuteSQL_unchecked(p, ok) ==
  /\ pc[p] = "migrate"
  /\ \E m \in todo[p] :
       /\ \A k \in todo[p] : m <= k
       /\ cur' = [cur EXCEPT ![p] = m]
       /\ effect' = IF ok /\ ~Transactional(m) THEN [effect EXCEPT ![m] = @ + 1] ELSE effect
  /\ Goto(p, "record")
  /\ UNCHANGED <<dir, history, resolved, untimed, hit, runs, local, todo, failed, outcome>>

\* The next migration of a deploy, in directory order, and its SQL; the SQL may fail.
ExecuteSQL(p, ok) ==
  /\ pc[p] = "migrate"
  /\ \E m \in todo[p] :
       /\ \A k \in todo[p] : m <= k
       /\ cur' = [cur EXCEPT ![p] = m]
       /\ IF ok THEN Goto(p, "record") /\ UNCHANGED <<local, todo, failed, outcome>>
                ELSE NextMigration(p, m, FALSE, "migrate")
       /\ effect' = IF ok /\ ~Transactional(m) THEN [effect EXCEPT ![m] = @ + 1] ELSE effect
  /\ UNCHANGED <<dir, history, resolved, untimed, hit, runs>>

\* Mutants of RecordMigration: the INSERT runs on a connection of its own, outside
\* the transaction; the table has no UNIQUE migration_name.
RecordMigration_outside(p, ok) ==
  LET m == cur[p]
      inserted == ok /\ row[m] = "absent"
  IN  /\ pc[p] = "record"
      /\ row' = IF inserted THEN [row EXCEPT ![m] = "applied"] ELSE row
      /\ IF inserted THEN Goto(p, "commit") /\ UNCHANGED <<local, todo, failed, outcome>>
                     ELSE NextMigration(p, m, FALSE, "migrate")
      /\ UNCHANGED <<dir, stamp, clock, effect, resolved, untimed, cur, hit, runs>>

RecordMigration_notUnique(p, ok) ==
  /\ pc[p] = "record"
  /\ IF ok THEN Goto(p, "commit") /\ UNCHANGED <<local, todo, failed, outcome>>
           ELSE NextMigration(p, cur[p], FALSE, "migrate")
  /\ UNCHANGED <<dir, history, effect, resolved, untimed, cur, hit, runs>>

\* recordMigration: waits for another uncommitted INSERT of the name, then fails
\* on the UNIQUE migration_name if there is a row; ok = FALSE: the statement fails.
RecordMigration(p, ok) ==
  LET m == cur[p]
      inserted == ok /\ row[m] = "absent"
  IN  /\ pc[p] = "record"
      /\ ~InsertPending(p, m)
      /\ clock' = IF inserted THEN clock + 1 ELSE clock
      /\ stamp' = IF inserted THEN [stamp EXCEPT ![m] = clock + 1] ELSE stamp
      /\ IF inserted /\ Transactional(m)
           THEN Goto(p, "commit") /\ UNCHANGED <<row, local, todo, failed, outcome>>
           ELSE /\ row' = IF inserted THEN [row EXCEPT ![m] = "applied"] ELSE row
                /\ NextMigration(p, m, inserted, "migrate")
      /\ UNCHANGED <<dir, effect, resolved, untimed, cur, hit, runs>>

\* tx.Commit makes the SQL and the row visible together, or neither.
CommitMigration(p, ok) ==
  LET m == cur[p]
  IN  /\ pc[p] = "commit"
      /\ row' = IF ok THEN [row EXCEPT ![m] = "applied"] ELSE row
      /\ effect' = IF ok THEN [effect EXCEPT ![m] = @ + 1] ELSE effect
      /\ NextMigration(p, m, ok, "migrate")
      /\ UNCHANGED <<dir, stamp, clock, resolved, untimed, cur, hit, runs>>

-----------------------------------------------------------------------------
(* MigrationExecutor.RollbackMigration: the checks, then BEGIN, the        *)
(* rollback SQL, the UPDATE, COMMIT.                                       *)

\* Mutant of MayRollBack: the rolled_back column is not looked at.
MayRollBack_anyRow(m) == ~GetAllFails /\ row[m] # "absent"

\* Only an existing row that is not rolled back passes.
MayRollBack(m) == ~GetAllFails /\ row[m] = "applied"

\* Mutant of CheckApplied: a migration that may not be rolled back stays on the list.
CheckApplied_stuck(p) ==
  /\ pc[p] = "check"
  /\ \E m \in todo[p] :
       /\ \A k \in todo[p] : seen[p][m] >= seen[p][k]
       /\ cur' = [cur EXCEPT ![p] = m]
       /\ IF dir[m] \in {"sql", "comment"} /\ MayRollBack(m) THEN Goto(p, "undo") ELSE UNCHANGED pc
  /\ UNCHANGED <<dir, history, effect, resolved, untimed, hit, runs, local, todo, failed, outcome>>

\* The most recent migration left: read its rollback file, check the history.
CheckApplied(p) ==
  /\ pc[p] = "check"
  /\ \E m \in todo[p] :
       /\ \A k \in todo[p] : seen[p][m] >= seen[p][k]
       /\ cur' = [cur EXCEPT ![p] = m]
       /\ IF dir[m] \in {"sql", "comment"} /\ MayRollBack(m)
            THEN Goto(p, "undo") /\ UNCHANGED <<local, todo, failed, outcome>>
            ELSE NextMigration(p, m, FALSE, "check")
  /\ UNCHANGED <<dir, history, effect, resolved, untimed, hit, runs>>

\* What executing the rollback file takes back.  MySQL rejects an empty query.
Undone(m) == IF dir[m] = "sql" THEN 1 ELSE 0

ExecuteRollbackSQL(p, ok) ==
  LET m == cur[p]
      runsOK == ok /\ (Provider # "mysql" \/ dir[m] = "sql")
  IN  /\ pc[p] = "undo"
      /\ effect' = IF runsOK /\ ~Transactional(m) THEN [effect EXCEPT ![m] = @ - Undone(m)] ELSE effect
      /\ IF runsOK THEN Goto(p, "mark") /\ UNCHANGED <<local, todo, failed, outcome>>
                   ELSE NextMigration(p, m, FALSE, "check")
      /\ UNCHANGED <<dir, history, resolved, untimed, cur, hit, runs>>

\* markMigrationRolledBackInTx: an UPDATE by name, whatever the row says by now.
MarkRolledBack(p, ok) ==
  LET m == cur[p]
      marked == ok /\ row[m] # "absent"
  IN  /\ pc[p] = "mark"
      /\ ~UpdatePending(p, m)
      /\ hit' = [hit EXCEPT ![p] = marked]
      /\ IF ok /\ Transactional(m)
           THEN Goto(p, "commitUndo") /\ UNCHANGED <<row, local, todo, failed, outcome>>
           ELSE /\ row' = IF marked THEN [row EXCEPT ![m] = "rolledback"] ELSE row
                /\ NextMigration(p, m, ok, "check")
      /\ UNCHANGED <<dir, stamp, clock, effect, resolved, untimed, cur, runs>>

CommitRollback(p, ok) ==
  LET m == cur[p]
  IN  /\ pc[p] = "commitUndo"
      /\ row' = IF ok /\ hit[p] THEN [row EXCEPT ![m] = "rolledback"] ELSE row
      /\ effect' = IF ok THEN [effect EXCEPT ![m] = @ - Undone(m)] ELSE effect
      /\ NextMigration(p, m, ok, "check")
      /\ UNCHANGED <<dir, stamp, clock, resolved, untimed, cur, hit, runs>>

-----------------------------------------------------------------------------
(* The single statements of migrate resolve.                               *)

ResolveInsert(p) ==
  /\ pc[p] = "insert"
  /\ \E m \in todo[p] :
       /\ ~InsertPending(p, m)
       /\ IF row[m] = "absent"
            THEN /\ row' = [row EXCEPT ![m] = "applied"]
                 /\ stamp' = [stamp EXCEPT ![m] = clock + 1]
                 /\ clock' = clock + 1
                 /\ resolved' = resolved \cup {m}
                 /\ untimed' = untimed \cup {m}
            ELSE UNCHANGED <<history, resolved, untimed>>
       /\ NextMigration(p, m, row[m] = "absent", "insert")
  /\ UNCHANGED <<dir, effect, cur, hit, runs>>

ResolveDelete(p) ==
  /\ pc[p] = "delete"
  /\ \E m \in todo[p] :
       /\ ~UpdatePending(p, m)
       /\ row' = [row EXCEPT ![m] = "absent"]
       /\ resolved' = resolved \cup {m}
       /\ untimed' = untimed \ {m}
       /\ NextMigration(p, m, TRUE, "delete")
  /\ UNCHANGED <<dir, stamp, clock, effect, cur, hit, runs>>

\* The process is killed: its open transaction, if any, is rolled back.
Kill(p) ==
  /\ pc[p] # "idle"
  /\ Goto(p, "idle")
  /\ outcome' = [outcome EXCEPT ![p] = "killed"]
  /\ UNCHANGED <<dir, history, effect, resolved, untimed, local, todo, cur, hit, failed, runs>>

-----------------------------------------------------------------------------
Command(p) ==
  \/ \E m \in Names, autoApply \in BOOLEAN : Dev(p, m, autoApply)
  \/ \E m \in Names : Apply(p, m)
  \/ Deploy(p)
  \/ \E k \in {1, 2} : RollbackLast(p, k)
  \/ \E m \in Names : RollbackNamed(p, m)
  \/ \E m \in Names, action \in {"applied", "rolled-back"} : Resolve(p, m, action)

Statement(p) ==
  \/ \E ok \in BOOLEAN :
       ExecuteSQL(p, ok) \/ RecordMigration(p, ok) \/ CommitMigration(p, ok)
         \/ ExecuteRollbackSQL(p, ok) \/ MarkRolledBack(p, ok) \/ CommitRollback(p, ok)
  \/ CheckApplied(p)
  \/ ResolveInsert(p)
  \/ ResolveDelete(p)

Next ==
  \E p \in Procs :
    \/ Command(p)
    \/ Statement(p)
    \/ \E yes \in BOOLEAN : Answer(p, yes)
    \/ Kill(p)

Spec == Init /\ [][Next]_vars

\* The database serves waiters of a row lock in turn, hence strong fairness; the
\* user at a prompt owes nothing.
FairSpec == Spec /\ \A p \in Procs : SF_vars(Statement(p))
-----------------------------------------------------------------------------
(* Properties.                                                             *)

Managed == Names \ resolved

\* The history table tells the truth about every transactional migration nobody
\* resolved by hand: a row that says applied means its SQL is in effect once, no
\* row means not at all - whatever races, fails or dies between
\* ExecuteMigration's statements.
HistoryIsTruthful ==
  \A m \in {n \in Managed : Transactional(n)} :
    /\ row[m] = "applied" => effect[m] = 1
    /\ row[m] = "absent" => effect[m] = 0

\* What an open transaction may rely on until it commits: the name it has inserted
\* is still free and inserted by nobody else, the row its UPDATE matched is still
\* there, and the migration it is undoing was not forgotten behind its back.
OpenTransactionsHold ==
  \A p \in Procs :
    /\ pc[p] = "commit" => /\ row[cur[p]] = "absent"
                           /\ ~InsertPending(p, cur[p])
    /\ pc[p] = "commitUndo" /\ hit[p] => row[cur[p]] # "absent"
    /\ pc[p] = "commitUndo" /\ ~hit[p] => cur[p] \in resolved
    /\ pc[p] \in {"undo", "mark"} /\ row[cur[p]] = "absent" => cur[p] \in resolved

\* A migration whose row says rolled back has had its SQL taken back, exactly once.
RolledBackMeansUndone ==
  \A m \in Managed : row[m] = "rolledback" => effect[m] = 0

\* Whatever the provider commits and whoever dies, a row never comes to say applied
\* before the SQL of that migration has been executed (hand edits aside).
RecordedAfterExecuted ==
  [][\A m \in Names : (row[m] # "applied" /\ row'[m] = "applied" /\ m \notin resolved')
        => effect'[m] >= 1]_vars

\* The last statement of apply, deploy, dev or rollback: the commit, or on MySQL
\* the INSERT or UPDATE of a migration that commits by itself.
LastStatement == {"record", "commit", "mark", "commitUndo"}

\* apply, deploy, dev and rollback report success only if every migration they
\* announced is recorded, or rolled back, at that moment (hand edits aside),
\* whichever statement was the last and whatever the others did meanwhile.
SummaryIsHonest ==
  [][\A p \in Procs : (pc[p] \in LastStatement /\ pc'[p] = "idle" /\ outcome'[p] = "success")
        => \A m \in plan[p] \ resolved :
              IF pc[p] \in {"record", "commit"} THEN row'[m] # "absent"
                                               ELSE row'[m] = "rolledback"]_vars

\* Every command past its prompt ends, although it may have to wait for the
\* rows other commands have locked and goes on after each failure.
CommandsFinish ==
  \A p \in Procs : (pc[p] \notin {"idle", "confirmDeploy", "confirmRollback"}) ~> (pc[p] = "idle")

\* One process at a time, on a database with transactional DDL: the statements of
\* the commands implement the one-step changes of the ledger.
Ledger == INSTANCE MigrationLedger
ImplementsLedger == Ledger!Spec
=============================================================================
