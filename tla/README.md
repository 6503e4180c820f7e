# prisma-go in TLA+

Models, model checking runs and machine-checked proofs for prisma-go, a Go
implementation of Prisma: schema language, migrations, code generator, query
executor, runtime client and CLI, and a second implementation of all of these
under `v3/`. Every module translates the Go code of the repository; a comment
at the top of it names the files.

- `PROJECT.json`: components, runs, mutants, the map from definitions to source
  lines, findings, hazards and theorems.
- `X.tla`: the model of a component. `MCX.tla`: what TLC needs on top of it.
  `X_proofs.tla`: theorems about it, for every value of its constants.
- Run a model with `tlc -config C.cfg M`, where `PROJECT.json` pairs the
  configurations with their modules; check proofs with `tlapm X_proofs.tla`.

## 1. Inventory

### Modelled

| component | state it keeps | operations | what is hard |
|---|---|---|---|
| migrate commands, executor, history (`cli/commands/migrate.go`, `migrate/executor`, `migrate/history`) | migration directories, the table `_prisma_migrations`, the schema | dev, apply, deploy, rollback, resolve | several processes on one database, each SQL statement a step; failures and kills between any two; MySQL commits DDL implicitly |
| schema diff, migration SQL, introspection, db push (`migrate/converter`, `migrate/diff`, `migrate/sqlgen`, `migrate/introspect`, `cli/commands/db.go`) | the catalog of a database | convert, compare, generate SQL and rollback SQL, introspect, db push, migrate dev --apply, rollback | three SQL dialects; processes that read and write one catalog statement by statement |
| query result cache (`query/cache`) | a map of entries and a doubly linked list | Get, Set, Invalidate, InvalidatePattern, Clear, expiry | the map and the list must agree through every sequence of calls |
| query executor, reads (`query/executor/executor.go`) | the cache pointer and its flag, the rows of readers | FindMany, FindFirst, the writes' invalidation, EnableCache, DisableCache | goroutines share the cache without a lock over check, use and store |
| query executor, writes | the transaction for nested writes, a connection pool | Create, CreateMany, Update, Upsert, Delete, UpdateMany, DeleteMany | an error variable shared with a deferred function, two connections for one call |
| client transactions (`runtime/client/transaction.go`) | depth and savepoint names, the database's savepoints | Transaction, NestedTransaction, errors, panics | savepoint names are reused after failures; the database ends transactions by itself; a level's own context ends before it |
| query language and SQL generation (`query/builder`, `query/sqlgen`) | builders and clauses that share pointers; the counter of placeholders | Where, And, Or, Not, Build, every Generate of three providers | one list of arguments over joins, CTEs, subqueries, SET, WHERE and HAVING; clauses without SQL |
| code generator and generated client (`generator/codegen`, the scanning of `query/executor`) | the schema, the generated code and the tables, of different ages | generate, push, the calls of a model client | names are derived in four places; records are scanned by name or by position |
| telemetry (`telemetry`, `cli/main.go`) | the buffer of events, goroutines that flush and send | Record..., flush, Shutdown, the end of `main` | three callers of flush, a ticker, `os.Exit` |
| `generate --watch` (`cli/internal/watch`, `cli/commands/generate.go`) | the debounce timer and channel, the generated files | saves, events, timer, callback, Ctrl-C | saves at any moment, also while the callback runs |
| v3 migrations (`v3/internal/service/migration_service.go` with its repositories and executor) | a JSON file per migration, the database, the history table | dev, deploy, reset | three stores and no transaction over them; concurrent processes, crashes |
| v3 runtime client (`v3/runtime`) | the connection flag and pool, open transactions, rows and contexts | Connect, Disconnect, QueryContext, ExecContext, transactions, batches | checks under a lock, use after it; rows whose context ends with the call |
| middlewares (`v3/runtime/middleware.go`, `runtime/client/middleware.go`) | one index per Execute | Execute with retry and timeout | every call of `next` shares the index; timeouts leave goroutines behind |
| v3 queries (`v3/internal/core/query`, `v3/runtime/query_executor.go`) | a filter tree and its pages | filters, Take, Skip, Cursor, Having, Compile, nested writes | precedence of AND and OR, placeholders of three dialects |

How they interact: the CLI calls the migrate commands, the watch loop and the
telemetry; the commands share the history table with every other process on the
same database. The query executor reads through the result cache, and Create
goes back through FindFirst and the pool. A generated client wraps the executor
and the transactions, and meets tables that `db push` made at another time.
`v3/` shares no code and no state with the rest.

For each of these, correctness means:

- *migrations*: the history tells the truth about the schema; commands report
  what they did; a command ends.
- *db push*: success means that the database has the schema; a rollback restores
  what it can; nothing that the schema keeps is dropped; an interrupted push does
  not block the next.
- *cache*: it may forget, it may not lie.
- *reads*: the answer belongs to the question, to one state of the database,
  and to no earlier state than the read began in.
- *writes*: an error leaves nothing, a record is stored once, every call returns.
- *transactions*: an error at any level takes back exactly the work of that level.
- *statements*: every placeholder is bound to its own value, and a statement
  touches the rows that its calls meant.
- *generated client*: a field of a record holds its own column.
- *telemetry*: no event is lost in or between flushes, and shutting down empties
  the buffer.
- *watch*: the last save is generated or reported.
- *v3 migrations*: what is marked or recorded as applied is in the database, in
  order; a command ends.
- *v3 client*: a call stores all or nothing, and gives its connection back.
- *middlewares*: none is passed over, and what they start ends.

### Not modelled, or in part

`PROJECT.json` lists every part with its reason. In short:

- **The schema language** (`psl/`, 26 of the 71 thousand lines of the
  repository). The CLI parses schemas and validates nothing else: `psl/database`
  and `psl/validation`, 21 thousand lines, are imported by one end-to-end test.
  The parser is a grammar in struct tags that a library interprets. What the
  rest of the system sees of it is in the models where it matters: the parser
  never sets an arity, so `?` and `[]` are lost, no column is nullable, a list
  of scalars becomes a plain column and a list of models is no list.
- **Second implementations without effect**: the generator and `db push` of `v3`
  (its output does not compile; its desired state is always empty), the differ
  and planners of `v3`, the generators for SQL Server and MongoDB (no driver in
  `go.mod`).
- **Unreachable code**: the prepared statement cache of the executor, its
  `TxExecutor` and nested writes (Create passes an empty map of relations),
  `step_ordering.go` beyond the order of a report, the v3 `Tracker`, the legacy
  syntax tree under `psl/parsing/ast`.
- **I/O and output**: the other CLI commands, storage and telemetry adapters,
  logging. The shadow database records every migration under one name, so that
  its second migration fails; nothing follows from what it returns.

About a third of the repository is of these kinds, or is text that a generator
prints; this is what bounds the share of the source that a model can stand for.

## 2. Modules

```
MigrationLedger  <-- refines -- MigrateCLI (MCMigrateCLI) -- MigrateCLI_proofs
SchemaDiff <- MigrationSQL <- DatabaseCatalog <- DbPush (MCDbPush) -- DbPush_proofs
LossyCache       <-- refines -- LRUCache
                 <-- assumed by QueryCache (MCQueryCache)
CachedReads (MCCachedReads) = QueryCache | LRUCache -- CachedReads_proofs
SqlGenerator <- WhereBuilder (MCWhereBuilder)
QueryLibrary (MCQueryLibrary) = WhereBuilder | QueryCompiler -- QueryLibrary_proofs
NestedTransactions <-- refines -- ClientTransaction -- ClientTransaction_proofs
CodeGenerator <- GeneratedClient
ClientWrites (MCClientWrites) = ExecutorWrites (MCExecutorWrites) | ClientTransaction | GeneratedClient
  -- ClientWrites_proofs, which uses ClientTransaction_proofs
CliProcess = Telemetry (Telemetry_proofs) beside SchemaWatch
V3Processes (MCV3Processes) = MigrationService | RuntimeClient | MiddlewareChain
  -- V3Processes_proofs
```

`A <- B`: B extends A. `A | B`: the module composes components that share no
state, and one behaviour follows one of them; a variable (`part`, `running`)
says which. Their interleavings would add nothing but states.

### MigrateCLI and MigrationLedger

A migration is a number; its directory name orders it as `os.ReadDir` does.
`effect[m]` counts the executions of its SQL less those of its rollback, which
is all the properties need to know of a schema. The rows of `_prisma_migrations`
are `row` (absent, applied, rolled back) with `stamp` for `applied_at`. A project
may start with migration directories (a checkout). `pc` names the SQL statement
a process is about to send: `migrate`, `record`, `commit` are
`ExecuteMigration`; `check`, `undo`, `mark`, `commitUndo` are
`RollbackMigration`; `insert` and `delete` are `migrate resolve`. An uncommitted
INSERT or UPDATE makes others wait for its row (`InsertPending`,
`UpdatePending`). Each statement takes a Boolean `ok`, so every one may fail;
`Kill` ends a process between any two.

`Transactional(m)` says whether the transaction around migration `m` protects
anything: on MySQL only when `m` is in `DataOnly`, the migrations without DDL;
the effects of the others are visible at once. `GetAll` cannot read every row
(`GetAllFails`): on PostgreSQL it scans the BOOLEAN `rolled_back` into an int, and
anywhere the NULL `execution_time` of a row that `migrate resolve --applied`
inserted (`untimed`) into an int64. A command that lists the history then ends in
`unreadable`, `migrate resolve --rolled-back` included, which could take the row
out again; only apply and dev go on. deploy takes every row,
rolled back or not, for an applied migration, and reports `up_to_date` then. A
rollback file that holds only a comment is executed and marked like any other,
and undoes nothing (kind `comment`).

`MigrationLedger` is the abstract specification: SQL and row change together in
one step. `ImplementsLedger` says that the commands implement it, which holds when
one process runs at a time; with two they do not, which `rollback_race` shows.

### SchemaDiff, MigrationSQL, DatabaseCatalog and DbPush

`SchemaDiff` converts models to tables and compares two database schemas;
`Orders` stands for the arbitrary order of Go's maps, so that `CompareSchemas`
is the set of results it may have. `MigrationSQL` turns a diff into statements,
forward and back, for each database; a change for which the generator writes
only a comment becomes one. `DatabaseCatalog` says what the databases do with
the statements, which is external to the code, and what each introspector reads
of columns, primary key, indexes and foreign keys of the outcome.

In `DbPush` a process lists the tables, reads them one by one, asks, and sends
its statements one by one outside a transaction; `migrate dev --apply` sends a
whole file in one `Exec` (which the MySQL driver takes only with one statement),
and `Rollback` the file that was written with it. `alone` and
`migration.current` are history variables: since a process began to read, only
pushes of its own schema that were alone themselves have changed the catalog;
the migration was made for the catalog it met.

The history table is in no schema, and no flavour compares it. A default is the
text of a literal: PostgreSQL reports the one of a text with a cast, so that it
never matches and is set anew by every push; MySQL rejects one that is a bare
word (no schema here has it there). A foreign key of SQLite that names no column
cannot be scanned, and no command gets past it.

The model contains what the generators do not do: changes of primary keys,
defaults and auto-increment are comments; SQLite only ever adds; MySQL cannot
create an index in an existing table and rejects a script that ends in a comment,
so that such a push reports failure after all of it has been applied; a kept
unique index makes the second push of an altered table fail; `DROP CONSTRAINT IF
EXISTS ""` fails on PostgreSQL when a kept table has a foreign key; PostgreSQL
cannot convert every type back; on MySQL the columns of a table with a capital
letter in its name are not compared; `--force` is never seen. The properties say
what is left, database by database.

### LRUCache and LossyCache

`LRUCache` keeps the nodes, `next`, `prev`, `head`, `tail` and the map of
`query/cache/cache.go` exactly, because `moveToFront` corrupts the list and the
map: its `removeNode` deletes the key of the node it moves, and `addToFront`
leaves old links in place. After a few hits the map forgets entries that were
just used and may outgrow `MaxSize`, as evictions then remove nodes it does not
hold. `LossyCache` is what is left of a cache's contract: a lookup answers with
the last value stored or with nothing. The property `NeverStale` of `LRUCache`
is `LossyCache!Spec` under a refinement mapping. This is what allows
`QueryCache` to model the cache as a map that may forget any entry at any time
(`Forget`).

### QueryCache and CachedReads

Two goroutines use one `Executor`. `pc` walks through the steps of
`FindManyWithRelations`: check the flag, look up, query, check again, store.
`Parts` is the cache key, split at its colons as the pattern matching splits it:
arguments are printed one after the other, as `GenerateCacheKey` does, and are
sequences of digits here so that two lists of arguments may print alike. Tables
are counters of committed writes, the rows of a query the counters it saw; `past`
remembers the states of the database. Writes invalidate before they execute, as
the code does. A read whose cache is taken away between its check and its use
ends in `panicked`; a `FindFirst` that hits the slice a `FindMany` has cached
ends in `mismatch`. The rows a caller holds and those in the cache are separate
values here; in the code they may share a backing array. `CachedReads` runs this
beside `LRUCache`; `LossyCache` is the contract between the two.

### ClientTransaction and NestedTransactions

The functions passed to `Transaction` and `NestedTransaction` are arbitrary:
they write, see statements fail, nest, return nil or an error, panic, and go on
after a nested error. The database beneath keeps its savepoints in a sequence:
`SAVEPOINT` hides or, on MySQL, replaces an older one of its name; `ROLLBACK TO`
keeps the savepoint it goes back to. A failed statement dooms the transaction on
PostgreSQL; a connection may be lost; InnoDB may choose a deadlock victim.
After that nothing marks the `Tx` as finished, and what the function goes on to
write is committed statement by statement (`alone`). The context given to
`NestedTransaction` is another than that of the transaction, and it is used again
when the level ends: once it is over (`expired`), `RELEASE` and `ROLLBACK TO` fail
while the transaction goes on. The level then returns an error with its work in
place, and the function around may commit it. Only the context of the innermost
level is kept: it matters when the level ends, so that one that ran out while
another level was open may as well run out after that. A commit that fails may have
taken effect (`unsure`).

`NestedTransactions` knows neither names nor savepoints: each open level remembers
the work it began with. Its promise is that a level that returns an error has its
work undone, by itself or with the level around it; it excepts by name a level whose
own context was over when it ended (`expired`), and the error of the commit itself,
and it promises nothing any more once the database has ended the transaction by
itself (`voided`, which `alone` is mapped to). `ImplementsNesting` is the refinement.

### ExecutorWrites

The control flow of the executor's writes, once per goroutine, over a pool of
`PoolSize` connections. `err` is the variable of the outermost scope, the one
the deferred function looks at; errors of inner scopes do not reach it.
`ReadBack` and `InsertAgain` ask the pool for a second connection. CreateMany is
one statement on PostgreSQL and a loop of Create elsewhere. A row that is read
back is mapped to the fields of an `interface{}`, which panics.

`StoredAsReturned` is about records without nested writes, on a driver that
knows the last insert id (not lib/pq), or in a CreateMany. It fails outside: the
error of the nested writes is shadowed, so that the parent row is committed;
without a last insert id the same INSERT is sent twice; and the error of
`LastInsertId` rolls back a record that is returned.

### CodeGenerator and GeneratedClient

A schema is a set of features, each with its fields; edits, `generate` and
`db push` happen at times of their own, so that `generated` and `tables` may
belong to two states of the schema. `CodeGenerator` derives the four names of a
field (every model has at least one that is a column): the column of the table (the converter heeds `@map`), the tag of the
struct (the generator does not), what the executor makes of a Go name, and the
Prisma name that the select builder uses. It has the methods of every builder and of the model clients, by
the Go type of the field they are for; `Compiles` says whether `client.go` does: it
imports `time` for a DateTime field only, and two methods of one builder may clash
(`NameNotEquals` of `name` and of `nameNot`, a relation called `done`).
`GeneratedClient` makes one of the calls that such a client offers, each a set of
requests (`FindManyCalls`, `UpdateCalls`, ...), and says whether the database
accepts it, from which column every field of the record comes, `ByName` or
`ByPosition`, and whether the value that the driver hands out converts to the type
of the field (`DriverValue`, `Converts`).

The properties leave out what never works: FindMany, Execute and the query
builder's Execute panic as soon as there is a row, ExecuteFirst skips its only
row and panics over it after a Join, Create inserts and then fails or panics, the
relations a client knows have their key in the model's own table and join it to
itself, which every database refuses; Raw, RawScan and RawExec pass their
arguments on as one slice, which no driver takes; a BigInt has a TEXT column, of which
no integer is made, so that no record of its model can be read and PostgreSQL does
not add it up; Bytes are skipped by the scanner.

### SqlGenerator, WhereBuilder and QueryLibrary

A row is the set of the conditions that hold on it, so that an SQL condition is
the set of rows it leaves. `SqlGenerator` has, per provider, one operator for
each Generate method: it places marks and arguments in the order of the text.
`Accepts` and `BoundRight` are the drivers and databases. `WhereBuilder` keeps
builders and clauses as pointers: NOT of a builder with groups negates its own
clause, Build appends again. `StatementsBind` and `TouchesWhatWasAsked` except,
by name, what the code gets wrong: lists without elements yield no SQL, a CTE or
a subquery numbers its placeholders from 1, MySQL's UPDATE and DELETE are
generated with the placeholders and quotes of PostgreSQL, a set operator is lost
once there are groups, OFFSET without LIMIT. Two JSON conditions ask for something
else than they say (`Misread`): PostgreSQL is sent `field->>'$.path'`, which looks for
a key of that name and finds none, and looks for the element of an array in the
column itself, whatever the path, as SQLite does. What rows such a statement leaves is
not told (`Untold`), and `TouchesWhatWasAsked` leaves it out. An INSERT or UPDATE of no column, and an
upsert of none but the key, are not generated here; the database refuses them. Where
DELETE lost its whole WHERE the run `delete_all` shows it.

`QueryLibrary` runs this beside `QueryCompiler`.

### QueryCompiler

The compiler of v3: a filter tree compiled to a text of ANDs and ORs with their
precedence (`Part`, `JoinTexts`, `Parenthesised`), pages, cursors, DISTINCT,
HAVING, and the statements of the writes to a relation. `KnownRefusal` and
`Miscompiled` name what a database refuses and what the compiler gets wrong: the
cursor is put behind the last side of an OR, Aggregate and GroupBy drop a filter
that has nested filters only, `COUNT(*) AS count_*` is no name. An ORDER BY counts as far as
it makes a database refuse the statement: PostgreSQL wants it to begin with the columns of
DISTINCT ON, and every database but SQLite wants it among those of GROUP BY. `has` on MySQL binds its value as it is
where `JSON_CONTAINS` takes JSON.

### Telemetry

`flushers`, `inFlight` and `background` are the goroutines of the collector; the
buffer and the batches are sets of events, so that an event in two places or in
none is visible. `Succeed`, `ShutdownFlush`, `Leave` and `Fail` are the end of
`main`, with and without the deferred `Shutdown`: a failing command leaves through
`os.Exit` and skips it. No property says that events are sent in the end, because
`Shutdown` does not wait for the goroutines that send.

### SchemaWatch

`callback` is the next file access of the running generation; `events`, `timer`
and `armed` are the channel and the debounce of `Watcher.Start`. The contents of
the schema are numbered, and a generated file is the number it was made from.
`--watch-only` is a choice of `Init`; the callback runs first with it too. With
`SavesByRename` an editor renames a new file over the schema, which causes no
event with the Write bit: `LastSaveGenerated` holds for saves in place, the
setting of the run.

### MigrationService

The steps of `ApplyMigration` and `RollbackMigration` of `v3/`, per process:
find the file, execute, mark, record. The status lives in `file`, the effect in
`executed`, the row in `history`. Statements fail and processes die at any step.
`Connected` is false in the program as it is built, because the container never
calls `Connect`: every migration then ends as Failed. On PostgreSQL the
placeholders of the history's INSERT are rejected (`Record` asks for SQLite), so
that each ApplyMigration ends in an error after it has marked the file. The run
takes SQLite and a connected adapter, to see what the service does once both are
in place. A reset applies what is Pending, not what it has just rolled back;
`undone` is a history variable that lets `AppliedIsExecuted` except what a reset
took back.

### RuntimeClient and MiddlewareChain

`RuntimeClient`: goroutines look at `connected` under the lock and use the pool
after it. `rows` is a query whose rows are open; with a query timeout
`QueryContext` cancels their context as it returns, and a goroutine of
`database/sql` closes them (`CancelledRows`). A batch runs on the connection of
one transaction, with the rows of its queries open until it ends. A function that
panics leaves its transaction open (`abandoned`). No error is a serialization
failure to `isSerializationError`, so that nothing is retried. A statement outside any
transaction, and a COMMIT, may have taken effect although its answer was lost, to
`QueryTimeout` or with the connection: the call ends `unsure`. Of other errors, and of
panics, `AllOrNothing` says that nothing is stored.

`MiddlewareChain`: one Execute. `index` is the variable that all calls of `next`
share; `++` is a read and a write, because a timeout leaves a goroutine behind
that goes on with the chain. A retry's second attempt finds the index at the end of
the chain and calls the handler itself: the middlewares inside the retry, a log, a
metric or a timeout, see nothing of it. `EnteredOnce` says so, and what holds all the
same: the first attempt enters every middleware, and attempts add up. It excepts
chains with a retry outside a timeout (`SharesIndex`), where the goroutine left
behind and the retry use the index at once.

`V3Processes` composes these two with `MigrationService`, which share nothing at
run time.

## 3. Runs

Bounds, in every case: commands or saves or writes are counted and stop at the
bound named in the `.cfg`; the number of actors is two where they can interfere
and one where the run is about one of them. Deadlock is checked except where the
system may stop: commands and calls end and start no more at their bound,
and `create_pool_deadlock` is about the deadlock
itself.

| run | bounds | shows |
|---|---|---|
| `migrate_race` | MySQL, 2 processes, 2 migrations of which one is DDL, 3 commands | with failures and kills at every statement, `HistoryIsTruthful` and `OpenTransactionsHold` for the migration whose transaction protects it, `RecordedAfterExecuted` for both, `SummaryIsHonest`, and under fairness `CommandsFinish` |
| `migrate_ledger` | SQLite, 1 process, 2 migrations, 5 commands, rollback files present or missing | `ImplementsLedger` |
| `db_push` | 2 processes, 3 databases, 3 schemas around one model, empty or hand-made catalogs, 3 commands | `PushedIsTarget`, `KeepsItsData`, `NextPushRuns`, `RollbackRestores` |
| `query_library` | 3 builders, 3 conditions, 2 nesting calls, every statement of 3 databases; 7 filters, 2 options of the compiler | `StatementsBind`, `TouchesWhatWasAsked`, `CompiledAsAsked` |
| `query_cache` | 2 goroutines, 2 tables, two queries of one that print alike and a join, 1 write per table; a cache of 2 places, 3 keys, 4 nodes | `AnswersOwnQuery`, `AnswersConsistent`, with the cache switched on and off; `NeverStale` |
| `client_writes` | 2 goroutines on PostgreSQL and MySQL, 3 connections, up to 2 records; transactions of 3 levels, 2 rows, 5 savepoints; 2 models of Int, String, Boolean, Float and relation fields with up to 3 of 6 features more (BigInt and Bytes, DateTime, an enum and @map, a clash of methods, one or two relations) on 3 databases | `StoredAsReturned`, `WritesReturn`, `SavepointsNest`, `ImplementsNesting`, `ServedClientsWork`, `RecordsAreTheirOwn` |
| `cli_process` | batches of 2, 4 events; 4 saves in place | `OnePlace`, `ShutdownEmpties`, `BufferDrains`, `ShutdownReturns`, `LastSaveGenerated` |
| `v3_processes` | 2 processes, 2 written migrations and one made by dev; 2 goroutines on 1 connection, batches of 2; chains of up to 3 middlewares, 1 retry, 3 goroutines | `AppliedIsExecuted`, `InOrder`, `CommandsEnd`; `AllOrNothing`, `ConnectionsReturn`; `EnteredOnce`, `GoroutinesEnd` |

Why the bounds are enough: a race on a history row needs two processes and one
migration, a second migration makes loops and orders visible, and three commands
let a migration be applied, rolled back or forgotten, and touched again by a
process that read the history before (directories may be there from the start, so
that none of the three has to create one). Prompts and `resolve` add interleavings within a
command. Two pushes interfere within one table; three schemas give every change
of a column or an index in both directions, and a third command meets what a
broken one has left. The corruption of the LRU list needs a
node that is neither head nor tail and a full map, hence three keys over two
places. A wrong binding needs one value before and one behind the part that
counts wrong; precedence needs three conditions under two operators. An answer
of another query needs two queries, one that prints alike a third, a torn or
stale one a write between two reads. Reused
savepoint names need a level that failed before one that succeeds at the same
depth, inside a third; two rows make three states a level may go back to. A batch that is full and one that is not need three
events. A shared index needs a retry with a middleware on each side of it.
`PROJECT.json` gives for each property a mutant of the code, a plausible
bug, that violates it within these bounds.

### Findings

Runs that expect a violation show where the code does not do what its own
comments say. `PROJECT.json` quotes the line for each.

| run | what happens |
|---|---|
| `rollback_race` | two rollbacks of one migration both execute its rollback SQL |
| `query_cache_stale` | a write invalidates before it executes, with patterns that match no key: later reads get the old rows |
| `create_pool_deadlock` | as many nested Creates as connections wait for each other for ever |
| `delete_all` | a DELETE whose conditions yield no SQL deletes every row |

Other behaviours that were met while modelling, which the models contain and no
property denies, are named with their module in section 2: the conditions of the
properties (`Transactional`, `Plain`, `alone`, saves in place,
`Connected`, `SharesIndex`, `KnownRefusal`, `Miscompiled`, ...) are the conditions
under which the code keeps its promise.

### Fairness

- `MigrateCLI`: strong fairness of `Statement(p)`. A database serves the
  waiters of a row lock in turn, so a statement that is enabled again and again
  is executed. The user owes no answer at a prompt and no command.
- `ExecutorWrites`: weak fairness of the goroutines' own steps, strong fairness
  of those that need a connection, because `database/sql` hands a returned
  connection to the oldest request.
- `RuntimeClient`: strong fairness of the steps of a call, for the same reason,
  and weak fairness of the goroutine that closes cancelled rows. Nothing makes a
  caller close its rows or end its context.
- `MiddlewareChain`: weak fairness of every goroutine, of time, and of a handler
  whose context is done, as drivers give up then; a handler whose context is not
  done may hang for ever.
- `Telemetry`: weak fairness of each goroutine, of the ticker and of requests,
  which have a timeout of 5 seconds. Nothing makes a command end.
- `SchemaWatch`: weak fairness of the loop, the callback and the timer; strong
  fairness of `Debounced`, because a Go `select` with two ready cases chooses at
  random and so does not pass over one for ever.
- `MigrationService`: weak fairness of the steps of a command; a process may be
  killed instead, and the user need not give another command.

## 4. Proofs

Each theorem holds for every number of processes, migrations, events, records
and so on, under the assumptions its module names for its constants. An
assumption that a theorem adds to those is named with it below.

**MigrateCLI_proofs.** `TypeCorrect`: the variables keep their types.
`OpenTransactions`: what a transaction may rely on until it commits, on every
provider. `TruthfulHistory`: `HistoryIsTruthful` always holds, on every provider,
for the migrations that are `Transactional` there. It is not inductive: a commit
adds one to `effect`, which is right only if the row is still absent. `OpenTransactionsHold` says
exactly that, and is inductive together with the types: the name an open
transaction inserted is locked by it, so that nobody else commits a row for it.
The argument for the undo side is the same with the row an UPDATE matched; names
resolved by hand are excepted, because `migrate resolve` forgets a row whatever
others are doing.

- `RecordedLast` is the action property `RecordedAfterExecuted`, for all
  migrations, with the DDL that MySQL commits implicitly. There is no induction over
  the recording alone, as the SQL was executed steps before it. `EffectsFirst`: a
  migration without a row has been taken back no more often than executed, a
  transaction that protects nothing has no commit to wait for, and a process that
  is about to record such a migration, when it has no row, has executed it.
- `HonestSummary` is `SummaryIsHonest`, whichever statement ends the command: the
  commit, or on MySQL the INSERT or UPDATE of a migration with DDL. It looks only at its
  own migration;
  `DoneSoFar` says of every migration that the loop has passed that it has a row, or
  was rolled back; `RowsStay` that nobody undoes that except by hand.
- `LedgerIsKept`: the commands implement `MigrationLedger`, step by step, under
  `OneAtATime`: a single process, migrations that are all `Transactional`, no
  rollback file of comments. What a command has read of the row it will change then
  stays true until it commits (`Undisturbed`), so that the commit is the one step of the
  ledger and every other statement, failure and kill a stutter.

**DbPush_proofs.** `DataKept` is `KeepsItsData`: no push or migration drops a table or
a column that its own schema has, nor the history table, on any of the three
databases, for any schemas, catalogs and processes, whatever others have done since
it read the catalog, and in whatever order the differ met its changes. A step
executes one statement of a script that was written long before, from a catalog
that may be gone, so that the invariant has to say of every script, from its
making on, that each statement of it spares the schema it was written for
(`FineScript`). The argument goes through the whole pipeline, a lemma for each
stage:

- conversion gives every model a finite table whose keys are columns of it
  (`SchemaConverted`), and introspection keeps tables tables (`Introspected`);
- the differ, in every order, drops only tables that are not in the target under
  their normalised name, and columns that the target's table does not have
  (`SchemasCompared`, with a lemma for columns, indexes and keys);
- each generator drops a table or a column only where the diff does
  (`ScriptGenerated`); the way back from a diff is a script, too
  (`RollbackGenerated`);
- each statement turns a catalog into a catalog and takes away only what it names
  (`Executing`), and so does a transaction of any length (`ScriptExecuted`).

`TypeCorrect` (`TypeOK`) comes with the same invariant; it contains that in the catalog no
key and no index outlives a column it is made of. Scripts are of any length: that
what holds of every part holds of the scripts put together, and what holds after
each statement after all of them, is induction over a number, with a set of numbers in the
place of a predicate (`UpTo`, `Flattened`, `ScriptExecuted`).
Assumed are databases among the three (`ProvidersAssumption`), finitely many models with
sequences of fields (`SchemasAssumption`), catalogs to begin with whose keys are
columns (`FirstCatalogsAssumption`), and that `_prisma_migrations` is written in
lower case (`HistoryAssumption`): the differ looks for it after normalising names.

`PushReachesTarget` is `PushedIsTarget`: success, and "no differences found", are
reported only of a database that has the schema, and no push of the same schema
beside or after it takes it away, wherever it fails or dies. `Undone` says of a
table, a column or an index what is left to do in the catalog (`create`, `drop`,
`add`, `remove`, `type`, `null`, `index`, `extra`), `Found` the same of what a
process has read, and `Settles` what a statement does about it. The invariant says
of every process that is `alone` (`Ahead`):

- while it reads, whatever is left is found in what it has read, or lies in a table
  it has still to read (`Behind`);
- while it executes, everything left has a statement in its script that settles it
  (`Leads`), and a statement that drops an index of its own schema has one before it
  that cannot execute (`Blocked`): the differ creates a kept unique index and drops
  it again, and only the failure in between keeps the index;
- when it has reported success, nothing is left (`Done`).

The rest is about every process, alone or not (`Sound`): scripts, old ones and those
of other schemas, too, keep the columns of types that introspection knows and put
under the name of a schema's index nothing else. Every statement of such a script
leaves no more to do than was left before (`OneStep`); the whole script of a
comparison settles all that the comparison has found, in any order the differ visits
it (`SchemasDiffer`, `Answered`, `Generated`); and what a rollback may execute is
sound, too (`RollbackIsDown`), although nobody is alone after it. The proof found
`alone` wrong as it was first written, without the words "that were alone
themselves": with a fourth command, beyond the bound of the run, a push of the same
schema that had read an old catalog drops an index that another has just kept.

It is proved where databases are ordinary (`OrdinaryAssumption`, which TLC evaluates
for the schemas and catalogs of the run): no two tables differ only by case, which
MySQL's flavour normalises; no model is called `_prisma_migrations`; a catalog made
by hand has only columns of types that introspection maps, no index called
`PRIMARY`, on PostgreSQL no two of one name, and under the name of a schema's index
only that index. Where this does not hold the differ pairs other tables or keeps an
index of another structure, and the property fails. No other theorem needs it.

**CachedReads_proofs.** The system of the run is the executor's cache or the cache
itself, and so are the proofs:

- `CacheNeverStale`: the cache implements `LossyCache`, for any size, any keys and
  values and any number of nodes, whatever `moveToFront` does to the list. No
  statement about the list would be inductive, as the code breaks every one; what
  is left is `Owns`: an entry of the map leads to a node that was created, for the
  same key. An invalidation by pattern removes a set of entries one after the
  other, as a fold over their nodes; what it leaves is proved by induction over the
  length of the fold, with a set of numbers in the place of a predicate.
  `Cacheable`: there are keys and values, the nodes are counted, and Set is given no
  time that is over already.
- `OwnAnswers` and `ConsistentAnswers`, for any queries: a read is answered with rows
  of a query whose SQL and arguments print as its own, as one state of the database
  had them. More does not hold: two argument lists that print alike, as (1, 23) and
  (12, 3), share an entry and are answered with each other's rows; the run has such
  a pair. The invariant `IInv` says that every entry was found by a query
  of its key in a state the database has been in, and so were the rows of every
  reader past its query; types alone say nothing about what is in the cache. The
  facts about cache keys use only that `Parts` is a function of the query, which
  has what is hashed as its third part.

**QueryLibrary_proofs.** A clause of a `WhereBuilder` and a filter of v3 contain
others, to any depth. A filter of v3 comes after those it contains, a clause that is
shared may be anywhere, so that its text is computed level by level; either way what
holds of all of them follows by induction over a number (`UpTo`), with a set of
numbers in the place of a predicate.

- `StatementsBound` is `StatementsBind`, for any builders, conditions and calls.
  The invariant `BuilderInv` is about the clauses only: each contains conditions of
  the mix and clauses that there are, however builders were put into one another and
  shared. The rest is what the generators compute from such clauses. `Standing`
  says of a text generated from argIndex n on that its placeholders are numbered n,
  n + 1, ... in turn, that each has its value at that place of the arguments, and
  that argIndex has gone as far; what is put behind such a text by a group, a limit,
  a HAVING keeps that, whatever the style. SQLite gives every distinct name an
  index in the order of the text (`SQLiteIndexes`), which is the number only of
  texts of that form.
- `WhatWasAsked` is `TouchesWhatWasAsked`, which says nothing of programs with a `Misread`
  condition. What the conditions of a builder mean says
  nothing about its clause: groups are other builders' clauses, handed over as pointers,
  and Build adds the conditions to the clause a second time. The invariant `LinkInv`
  says, as long as no builder that was put into another is used again and no OR is lost
  (`Usable`), that there are texts and ranks for all clauses. `Sound`: the text of each
  clause is what its conditions and the texts of its groups say, and a clause ranks above
  its groups, so that none is below itself and the levels of the generator reach every
  text (`ClauseText`). `Owned`: what a builder's calls meant is what its conditions
  mean, joined with the texts of its clause's groups; the conditions that Build has
  added to that clause are its own, so that adding them again says nothing new; and
  the clause belongs to no other builder and is a group of no clause, so that no call of
  another builder changes it. Each kind of call has a lemma: `BuildLinks` for what Build
  adds, `GroupLinks` and `AddGroupLinks` for a group and the builders put into it, and
  from them those of AND, OR, NOT, the conditions and the statements. NOT
  negates the clause that Build returned, which the builder it belonged to owns no more;
  a clause that a call makes ranks above all others.
- `CompiledRight` is `CompiledAsAsked`, for any operators, requests and options; what it
  promises is what is left by `KnownRefusal` and `Miscompiled`, which name the refusals
  that come with DISTINCT ON, ORDER BY and `has` on MySQL, too.
  `CompilerInv` adds the types of the query and `Shaped`: its filters are
  nested in those after them, each with something in it. `TextsFrom`
  numbers a text as above; `Wheres` adds the rows its WHERE leaves. The heart of it is
  precedence: a text of ANDs joined to another by AND is one conjunction
  (`JoinOfTwo`), an OR is that only in parentheses, so that every filter's text has to
  be a single part before it goes into that around it (`GroupedText`), and NOT before
  each part leaves what NOT means (`NegatedParts`). From there each statement of the
  compiler has a lemma: SELECT with its cursor and page, the aggregates, the writes, and
  the one or two statements of a write to a relation with what they do to its children.

**ClientTransaction_proofs.** `LevelsHaveSavepoints` and `LevelsAreKept`, for any
rows, depth and number of savepoints (`Bounded`: the depth is a number).
`SavepointsNest` compares a level with the newest savepoint of its name, which is
not inductive: a name is taken again after a failure, and PostgreSQL only
hides the old one. `LevelsNest` adds that every open level has one and that those of
inner levels are younger, so that `ROLLBACK TO` cuts off only those of the
levels that are closed. Lemmas say which savepoint of a
name is the newest after a push, a cut and a replacement. With these the
refinement follows action by action: a savepoint, a release and a rollback to
one are the abstract level's begin, success and failure, a level that cannot reach its
savepoint gives up, doomed or expired, and a database that ends the transaction by
itself is `voided`.

**ClientWrites_proofs.**

- `ReturnedIsStored`: `StoredAsReturned`, for any goroutines, records and pool.
  The invariant `CallInv` says for every goroutine which calls come to a point, and
  where a transaction is open (`CallFits`), and how many rows are stored there
  (`RowsOf`): those of the records that the loop has passed, one more between an INSERT
  and what follows it, none while a transaction is open.
- `WritesTypeCorrect` contains that the pool never hands out more connections than
  it has, a sum over all goroutines, hence the assumption that they are finitely many.
- `OwnRecords`: `RecordsAreTheirOwn`, for any schema. What is scanned by position was
  selected by name in the same order, and what is scanned by name takes the
  column of its tag. The property is about fields without `@map`, of which converter
  and generator make the same name.
- `ServedClientsAnswered`: `ServedClientsWork`, under `NamesApart`: no field of a
  model is called what another one is, by its column or in the struct, and every
  field has a name in the struct. A schema that maps one field onto the name of another
  would be served with the wrong column, so that the assumption is needed; the
  run's schemas satisfy it. The invariant says that tables have only columns of
  their own model, and that every generated model has a column at least, without
  which a SELECT would have no list.
- `LevelsNest` and `NestingKept` carry the theorems about transactions over to the
  program that does other things too: every step of it is one of
  `ClientTransaction` or leaves its variables alone.

**Telemetry_proofs.** `NoEventLost` and `ShutdownLeavesNothing`. `OnePlace` is
inductive once a pending flusher is known to have been started by a recorded
event; `ShutdownEmpties` needs that nothing records after the command.

**V3Processes_proofs.**

- `OnlyExecutedIsApplied` and `AppliedInOrder`, for any processes and migrations, with
  failures and crashes at every step. `AppliedInOrder` is an action property: a
  migration is executed only when no older one is pending. Its invariant says of a
  loop that it still has something to do, that what it has passed is not pending
  any more, and that a written migration stays written; `executed` together with
  `undone` only grows, so that a mark or a record that came late is still about
  something that was executed. The oldest pending migration exists because the
  naturals are well-founded.
- `CallsAreAllOrNothing`: `AllOrNothing`, for any goroutines, pool and batch.
  `CallStored` is the property for one call; it needs `CallFits`, that a call at a statement is
  of a kind that comes there, and that a batch at its commit has all its operations
  behind it, since the commit stores what was sent.
- `ChainEntersOnce`: `EnteredOnce`, for chains of any length and any number of
  retries. `ChainOrder` says that only one goroutine goes on with the chain at a
  time, which fails when a retry surrounds a timeout (`SharesIndex`), that the
  middlewares of a goroutine are stacked in their order, none beyond `index`, and that
  the calls of the handler keep to what the retries behind each middleware allow
  (`Budget`), with the attempts of that middleware added. `Direct` adds to it that a
  goroutine about to call the handler again has the retry on top of its stack.
- `V3TypeCorrect`: the types of all three parts. The pools of the clients give no more
  connections than they have, and the sum is again over finitely many goroutines.

Not proved, only model-checked:

- all liveness (`CommandsFinish`, `WritesReturn`, `BufferDrains`, `ShutdownReturns`,
  `LastSaveGenerated`, `CommandsEnd`, `ConnectionsReturn`, `GoroutinesEnd`): fairness and `ENABLED` are
  out of the prover's reach;
- `NextPushRuns`: it says that no statement of a script meets an obstacle an earlier
  one has left, for any catalog that broken-off commands may leave. That is an
  induction over a diff with what each remaining statement finds, and the reverse of
  what is proved, where a statement is known to have executed;
- `RollbackRestores`: it compares the catalog with one two scripts earlier, so that
  the invariant would have to say exactly what each of them makes of it, and not only
  what it settles and spares.

## 5. What the models leave out

- The content of rows, and of SQL beyond what it does to a catalog, to
  placeholders or to the rows that it leaves.
- Where `splitSQLStatements` cuts a script: it knows strings, but also cuts at a
  `;` inside a comment, or not at all after a quote in one. Any statement may fail
  in the models of the commands, which covers the pieces such a cut sends.
- Isolation levels and read-only transactions of the client, and one `Tx` used
  by several goroutines.
- The nested write operations behind `ExecuteNestedWrites`: Create passes an
  empty map of relations, so that they fail before any of them runs.
- v3 on MySQL, whose DDL commits implicitly and which rejects the TEXT key of
  the history table.
- The memory that callers, the cache and later readers share when
  `copyCachedResult` assigns a slice header: a caller that changes its rows is not
  modelled.
- PostgreSQL and an unconnected adapter in the run of the v3 migration service, and
  PostgreSQL in those of the migrate commands: there most commands end at the
  errors section 2 names.
- Enums, views and sequences of a catalog, which are read and never compared.
- Hooks and extensions of the two runtime clients, scanning and aggregation in v3.

## 6. Plan

Done: the modules above.

Next, extending the model: the schema file and the commands that rewrite it
(`init`, `format`, `db pull`) with the grammar of the parser; the passes of
`psl/database` over models and relations, should a command come to use them;
`StepOrdering`, once SQL is generated in its order.

Then, proving more: `RollbackRestores`, from the exact effect of a script and of the one
that undoes it; `NextPushRuns`, from what each statement of a script requires.
