------------------------------- MODULE DbPush -------------------------------
(***************************************************************************)
(* db push (cli/commands/db.go) and migrate dev --apply with rollback      *)
(* (cli/commands/migrate.go), as several processes run them against one    *)
(* database.  A push reads the catalog table by table, compares it with    *)
(* the schema, asks, and executes the statements one by one, outside any   *)
(* transaction; it stops at the first failure, and may be killed anywhere. *)
(* A migration executes in one transaction where the database has DDL in   *)
(* transactions; on MySQL the driver rejects more than one statement.      *)
(***************************************************************************)
EXTENDS DatabaseCatalog

CONSTANTS
  Procs,         \* CLI processes
  Providers,     \* the databases to choose from
  Schemas,       \* Schemas[provider]: the Prisma schemas that are pushed, by name
  FirstCatalogs, \* FirstCatalogs[provider]: catalogs made by hand before the first push
  MaxCommands    \* bound: commands started in a behaviour

\* The columns of a key or an index are those of its table.
KeysAreColumns(t) ==
  /\ ToSet(t.pk) \subseteq DOMAIN t.cols
  /\ \A i \in DOMAIN t.idxs : ToSet(t.idxs[i].cols) \subseteq DOMAIN t.cols

IsTable(t) ==
  /\ t = [cols |-> t.cols, pk |-> t.pk, idxs |-> t.idxs, fks |-> t.fks]
  /\ IsFiniteSet(DOMAIN t.cols) /\ IsFiniteSet(DOMAIN t.idxs) /\ IsFiniteSet(t.fks)

ASSUME ProvidersAssumption == Providers \subseteq {"postgresql", "mysql", "sqlite"}
ASSUME SchemasAssumption ==
  \A prov \in Providers : \A s \in DOMAIN Schemas[prov] :
    /\ IsFiniteSet(Schemas[prov][s])
    /\ \A m \in Schemas[prov][s] : m.fields \in Seq(ToSet(m.fields))
ASSUME FirstCatalogsAssumption ==
  \A prov \in Providers : \A cat \in FirstCatalogs[prov] :
    IsFiniteSet(DOMAIN cat) /\ \A t \in DOMAIN cat : IsTable(cat[t]) /\ KeysAreColumns(cat[t])
ASSUME HistoryAssumption == Lower["_prisma_migrations"] = "_prisma_migrations"
ASSUME CommandsAssumption == MaxCommands \in Nat

VARIABLES
  provider,  \* the database of this behaviour
  catalog,   \* its tables
  pc,        \* what a process does next
  schema,    \* the Prisma schema of its command, by name
  unread,    \* tables introspection has listed and not read yet
  seen,      \* what introspection has read
  script,    \* the statements of a push still to be executed
  outcome,   \* what the last command reported; "failed" if it was aborted or killed, too
  alone,     \* since it began to introspect, only pushes of its own schema that were alone
             \* themselves changed the catalog
  migration, \* the migration that was applied last, until something else changes the catalog
  commands   \* commands started (bounded by MaxCommands)

vars == <<provider, catalog, pc, schema, unread, seen, script, outcome, alone, migration, commands>>

None == [state |-> "none"]
\* What the schemas ask of the database.
Targets == [prov \in Providers |->
  With([s \in DOMAIN Schemas[prov] |-> ConvertSchema(prov, Schemas[prov][s])], "none", ConvertSchema(prov, {}))]
Target(p) == Targets[provider][schema[p]]

-----------------------------------------------------------------------------
(* Where pushes lead to their schema whatever else happens.                *)

TablesOf(prov) ==
  {"_prisma_migrations"} \cup (UNION {DOMAIN cat : cat \in FirstCatalogs[prov]})
    \cup (UNION {DOMAIN Targets[prov][s] : s \in DOMAIN Schemas[prov]})

TargetIndexes(prov) ==
  UNION {UNION {DOMAIN Targets[prov][s][t].idxs : t \in DOMAIN Targets[prov][s]} : s \in DOMAIN Schemas[prov]}

UniqueOn(c) == [cols |-> <<c>>, unique |-> TRUE]

KnownTypes == [postgresql |-> DOMAIN MapPostgresType, mysql |-> DOMAIN MapMySQLType, sqlite |-> DOMAIN MapSQLiteType]
IsDef(col) == col = [type |-> col.type, nullable |-> col.nullable, default |-> col.default, auto |-> col.auto]
IsColumn(prov, col) == IsDef(col) /\ col.type \in KnownTypes[prov]

\* No two tables differ only in what MySQL takes for the same name, and no model goes by the name
\* of the history table.  The catalogs made by hand have columns of types that introspection knows,
\* no index of the name PRIMARY, on PostgreSQL no two of one name, and under a name that a schema
\* gives an index only the unique index that it asks for.
Ordinary(prov) ==
  /\ \A a, b \in TablesOf(prov) : Normalize(prov, a) \in {b, Normalize(prov, b)} => a = b
  /\ \A s \in DOMAIN Schemas[prov] : "_prisma_migrations" \notin DOMAIN Targets[prov][s]
  /\ \A cat \in FirstCatalogs[prov] : \A t \in DOMAIN cat :
       /\ \A c \in DOMAIN cat[t].cols : IsColumn(prov, cat[t].cols[c])
       /\ \A i \in DOMAIN cat[t].idxs :
            /\ i # <<"PRIMARY">>
            /\ i \in TargetIndexes(prov) => i[1] = t /\ cat[t].idxs[i] = UniqueOn(i[2])
            /\ prov = "postgresql" => \A u \in DOMAIN cat : i \in DOMAIN cat[u].idxs => u = t

ASSUME OrdinaryAssumption == \A prov \in Providers : Ordinary(prov)

-----------------------------------------------------------------------------
(* The steps of the commands.                                              *)

Init ==
  /\ provider \in Providers
  /\ catalog \in FirstCatalogs[provider]
  /\ pc = [p \in Procs |-> "idle"]
  /\ schema = [p \in Procs |-> "none"]
  /\ unread = [p \in Procs |-> {}]
  /\ seen = [p \in Procs |-> <<>>]
  /\ script = [p \in Procs |-> <<>>]
  /\ outcome = [p \in Procs |-> "none"]
  /\ alone = [p \in Procs |-> TRUE]
  /\ migration = None
  /\ commands = 0

\* A push or a migration of process p changes the catalog.
Beside(p) == alone' = [q \in Procs |-> alone[q] /\ alone[p] /\ schema[q] = schema[p]]

\* db push and migrate dev begin alike: they list the tables.
Begin(p) ==
  /\ pc[p] = "idle" /\ commands < MaxCommands
  /\ commands' = commands + 1
  /\ \E s \in DOMAIN Schemas[provider] : schema' = [schema EXCEPT ![p] = s]
  /\ unread' = [unread EXCEPT ![p] = DOMAIN catalog]
  /\ seen' = [seen EXCEPT ![p] = <<>>]
  /\ pc' = [pc EXCEPT ![p] = "read"]
  /\ outcome' = [outcome EXCEPT ![p] = "none"]
  /\ alone' = [alone EXCEPT ![p] = TRUE]
  /\ UNCHANGED <<provider, catalog, script, migration>>

\* The tables are read in one order, that of their names; here, in some order.  A table may
\* be gone by now.
NextTable(p) == CHOOSE t \in unread[p] : TRUE
ReadTable(p) ==
  /\ pc[p] = "read" /\ unread[p] # {}
  /\ LET t == NextTable(p)
         table == IF t \in DOMAIN catalog THEN catalog[t] ELSE EmptyTable
     IN  /\ Reads(provider, table)
         /\ unread' = [unread EXCEPT ![p] = @ \ {t}]
         /\ seen' = [seen EXCEPT ![p] = With(@, t, IntrospectTable(provider, table))]
  /\ UNCHANGED <<provider, catalog, pc, schema, script, outcome, alone, migration, commands>>

Finish_keepsScript(p, result) ==
  /\ pc' = [pc EXCEPT ![p] = "idle"]
  /\ outcome' = [outcome EXCEPT ![p] = result]
  /\ schema' = IF result = "failed" THEN [schema EXCEPT ![p] = "none"] ELSE schema
  /\ unread' = [unread EXCEPT ![p] = {}]
  /\ seen' = [seen EXCEPT ![p] = <<>>]
  /\ UNCHANGED script

\* A command that ends early leaves nothing to ask of its schema.
Finish(p, result) ==
  /\ pc' = [pc EXCEPT ![p] = "idle"]
  /\ outcome' = [outcome EXCEPT ![p] = result]
  /\ schema' = IF result = "failed" THEN [schema EXCEPT ![p] = "none"] ELSE schema
  /\ unread' = [unread EXCEPT ![p] = {}]
  /\ seen' = [seen EXCEPT ![p] = <<>>]
  /\ script' = [script EXCEPT ![p] = <<>>]

CannotRead(p) ==
  /\ pc[p] = "read"
  /\ unread[p] # {}
  /\ NextTable(p) \in DOMAIN catalog /\ ~Reads(provider, catalog[NextTable(p)])
  /\ Finish(p, "failed")
  /\ UNCHANGED <<provider, catalog, alone, migration, commands>>

NothingToDo(p, diff) ==
  /\ NoDifferences(diff)
  /\ Finish(p, "up_to_date")
  /\ UNCHANGED <<provider, catalog, alone, migration, commands>>

\* db push: the prompt; the flag --force is never seen among the arguments.
Confirm(p, diff) ==
  /\ ~NoDifferences(diff)
  /\ \/ /\ script' = [script EXCEPT ![p] = GenerateMigrationSQL(provider, diff, Target(p))]
        /\ pc' = [pc EXCEPT ![p] = "execute"]
        /\ seen' = [seen EXCEPT ![p] = <<>>]
        /\ UNCHANGED <<unread, outcome, schema>>
     \/ Finish(p, "failed")
  /\ UNCHANGED <<provider, catalog, alone, migration, commands>>

\* Comments belong to the statement after them.
ExecuteStatement(p) ==
  /\ pc[p] = "execute" /\ script[p] # <<>>
  /\ LET s == Head(script[p])
     IN  \/ /\ ~CommentsOnly(script[p])
            /\ CanExecute(provider, catalog, s)
            /\ catalog' = Executed(provider, catalog, s)
            /\ script' = [script EXCEPT ![p] = Tail(@)]
            /\ IF catalog' = catalog THEN UNCHANGED <<alone, migration>> ELSE Beside(p) /\ migration' = None
            /\ UNCHANGED <<provider, pc, schema, unread, seen, outcome, commands>>
         \/ /\ s.op # "comment" \/ (CommentsOnly(script[p]) /\ provider = "mysql")
            /\ Finish(p, "failed")
            /\ UNCHANGED <<provider, catalog, alone, migration, commands>>

PushDone(p) ==
  /\ pc[p] = "execute"
  /\ IF provider = "mysql" THEN script[p] = <<>> ELSE CommentsOnly(script[p])
  /\ Finish(p, "success")
  /\ UNCHANGED <<provider, catalog, alone, migration, commands>>

\* One Exec of a whole file.  The MySQL driver takes a single statement.
Statements(file) == Only(file, LAMBDA s : s.op # "comment")
RunsInOneExec(file) == provider = "mysql" => Len(Statements(file)) = 1
OneExec(file) == ExecutedAll(provider, catalog, Statements(file))

Applies(file) == RunsInOneExec(file) /\ OneExec(file).ok

\* migrate dev --apply: both files are written, then the first is executed.
ApplyDev(p, diff) ==
  /\ ~NoDifferences(diff)
  /\ LET up == GenerateMigrationSQL(provider, diff, Target(p))
     IN  \/ /\ Applies(up)
            /\ catalog' = OneExec(up).cat
            /\ migration' = [state |-> "applied", down |-> GenerateRollbackSQL(provider, diff),
                             before |-> catalog, target |-> Target(p),
                             current |-> seen[p] = Introspect(provider, catalog)]
            /\ Beside(p)
            /\ Finish(p, "success")
         \/ /\ Finish(p, "failed")
            /\ UNCHANGED <<catalog, alone, migration>>
  /\ UNCHANGED <<provider, commands>>

\* All tables are read: either command compares them with its schema.
Compare(p) ==
  /\ pc[p] = "read" /\ unread[p] = {}
  /\ \E diff \in CompareSchemas(provider, seen[p], Target(p)) :
       NothingToDo(p, diff) \/ Confirm(p, diff) \/ ApplyDev(p, diff)

\* migrate rollback of the migration applied last.
Rollback(p) ==
  /\ pc[p] = "idle" /\ commands < MaxCommands /\ migration.state = "applied"
  /\ commands' = commands + 1
  /\ \/ /\ Applies(migration.down)
        /\ catalog' = OneExec(migration.down).cat
        /\ migration' = [migration EXCEPT !.state = "rolledback"]
        /\ alone' = [q \in Procs |-> FALSE]
        /\ outcome' = [outcome EXCEPT ![p] = "success"]
     \/ /\ outcome' = [outcome EXCEPT ![p] = "failed"]
        /\ UNCHANGED <<catalog, migration, alone>>
  /\ UNCHANGED <<provider, pc, schema, unread, seen, script>>

\* Before the first statement a kill changes nothing.
Kill(p) ==
  /\ pc[p] = "execute"
  /\ Finish(p, "failed")
  /\ UNCHANGED <<provider, catalog, alone, migration, commands>>

Next == \E p \in Procs :
  \/ Begin(p) \/ ReadTable(p) \/ CannotRead(p) \/ Compare(p) \/ ExecuteStatement(p)
  \/ PushDone(p) \/ Rollback(p) \/ Kill(p)

Spec == Init /\ [][Next]_vars

-----------------------------------------------------------------------------
\* Type correctness.
TypeOK ==
  /\ provider \in Providers
  /\ pc \in [Procs -> {"idle", "read", "execute"}]
  /\ schema \in [Procs -> DOMAIN Schemas[provider] \cup {"none"}]
  /\ outcome \in [Procs -> {"none", "success", "failed", "up_to_date"}]
  /\ alone \in [Procs -> BOOLEAN]
  /\ migration.state \in {"none", "applied", "rolledback"}
  /\ commands \in 0..MaxCommands
  /\ \A p \in Procs : pc[p] # "execute" => script[p] = <<>>
  /\ \A t \in DOMAIN catalog : KeysAreColumns(catalog[t])

\* The columns and indexes of table t of the catalog are those of target table u.
\* Defaults, auto-increment and primary keys are excepted: their changes are
\* comments on one database or another.
SameTable(t, u) ==
  /\ DOMAIN t.cols = DOMAIN u.cols
  /\ \A c \in DOMAIN u.cols :
       /\ t.cols[c].type = ReportedType[provider][u.cols[c].type]
       /\ t.cols[c].nullable = u.cols[c].nullable
  /\ DOMAIN t.idxs = DOMAIN u.idxs
  /\ \A i \in DOMAIN u.idxs : t.idxs[i] = u.idxs[i]

\* On SQLite only tables and columns are ever added.
AtLeast(t, u) == DOMAIN u.cols \subseteq DOMAIN t.cols

Names(tables) == TableNames(provider, tables)

Matches(target) ==
  /\ Names(catalog) = Names(target)
  /\ \A n \in DOMAIN target \cap DOMAIN catalog :
       Normalize(provider, n) = n =>
         IF provider = "sqlite" THEN AtLeast(catalog[n], target[n])
         ELSE SameTable(catalog[n], target[n])

\* A push or a migration that reports success has brought the database to its
\* schema, and pushes of the same schema beside or after it, whether they run
\* through, fail half-way or die, do not take it away from there.  "No differences
\* found" is said only of a database that has the schema.
PushedIsTarget ==
  \A p \in Procs : outcome[p] \in {"success", "up_to_date"} /\ alone[p] => Matches(Target(p))

\* Whatever another process has done since the catalog was read, a push or a
\* migration never drops a table or a column that its own schema has, nor the history table.
KeepsItsData ==
  [][catalog' # catalog => \A p \in Procs :
       pc[p] # "idle" /\ (script'[p] # script[p] \/ outcome'[p] # outcome[p]) =>
         \A t \in DOMAIN catalog \cap (DOMAIN Target(p) \cup {"_prisma_migrations"}) :
           /\ t \in DOMAIN catalog'
           /\ t \in DOMAIN Target(p) => DOMAIN catalog[t].cols \cap DOMAIN Target(p)[t].cols \subseteq DOMAIN catalog'[t].cols]_vars

\* Rolling back a migration that was made for the catalog it was applied to takes
\* out what it added, and gives every column it kept its old type and nullability;
\* what it dropped stays dropped.  SQLite takes out only the tables.
RollbackRestores ==
  migration.state = "rolledback" /\ migration.current =>
    LET before == migration.before
        target == migration.target
    IN  /\ DOMAIN catalog = {t \in DOMAIN before :
                               TableShouldBeIgnored(t) \/ Normalize(provider, t) \in Names(target)}
        /\ \A t \in DOMAIN catalog \cap DOMAIN target :
             LET kept == DOMAIN before[t].cols \cap DOMAIN target[t].cols
                 now == catalog[t].cols
             IN  IF provider = "sqlite" THEN DOMAIN before[t].cols \subseteq DOMAIN now
                 ELSE Normalize(provider, t) = t =>
                   /\ DOMAIN now = kept
                   /\ \A c \in kept : /\ now[c].type = before[t].cols[c].type
                                      /\ now[c].nullable = before[t].cols[c].nullable

\* However earlier commands were broken off, and a kill brings any of them to its
\* end, the script of the next push fails on PostgreSQL only for a reason the schema
\* gives: a kept unique index, a foreign key, or a type it cannot convert.
Hindered(s) ==
  LET target == Targets[provider][s]
  IN  \E t \in DOMAIN catalog \cap DOMAIN target :
        \/ catalog[t].idxs # <<>> \/ catalog[t].fks # {}
        \/ \E c \in DOMAIN catalog[t].cols \cap DOMAIN target[t].cols :
             ~CanCast(provider, catalog[t].cols[c].type, target[t].cols[c].type)

NextPushRuns ==
  provider = "postgresql" /\ (\A p \in Procs : pc[p] = "idle") =>
    \A s \in DOMAIN Schemas[provider] : ~Hindered(s) =>
      LET target == Targets[provider][s]
      IN  \A d \in CompareSchemas(provider, Introspect(provider, catalog), target) :
            ExecutedAll(provider, catalog, GenerateMigrationSQL(provider, d, target)).ok
=============================================================================
