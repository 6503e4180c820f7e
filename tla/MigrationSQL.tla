---------------------------- MODULE MigrationSQL ----------------------------
(***************************************************************************)
(* The SQL of a diff, and of its rollback, for PostgreSQL, MySQL and       *)
(* SQLite (migrate/sqlgen).  A script is a sequence of statements; a       *)
(* comment is kept as a statement of its own where the generator writes    *)
(* nothing else for a change.                                              *)
(***************************************************************************)
EXTENDS SchemaDiff, TLC

Comment == [op |-> "comment"]
Invalid == [op |-> "invalid"]

DropTable(t, cascade) == [op |-> "dropTable", table |-> t, cascade |-> cascade]
DropColumn(t, c) == [op |-> "dropColumn", table |-> t, column |-> c]
SetType(t, c, type) == [op |-> "setType", table |-> t, column |-> c, type |-> type]
SetNullable(t, c, null) == [op |-> "setNullable", table |-> t, column |-> c, nullable |-> null]
DropIndex(t, i) == [op |-> "dropIndex", table |-> t, index |-> i]
RenameIndex(t, old, new) == [op |-> "renameIndex", table |-> t, old |-> old, new |-> new]
CreateIndex(t, i, def) == [op |-> "createIndex", table |-> t, index |-> i, def |-> def]

\* Types a diff can meet, declared to the database and read from it.
MapToMySQLType(type) == IF type = "BOOLEAN" THEN "TINYINT(1)" ELSE type
MapToSQLiteType(type) == IF type = "DATETIME" THEN "TEXT" ELSE type

SinglePK(pk, c) == pk = <<c>>

\* PostgreSQL: numbers and Booleans are written as they are, other literals in quotes.
QuoteDefaultValue(default, type) ==
  IF type = "INTEGER" \/ default \in {"none", "true", "false"} THEN default ELSE "'" \o default \o "'"

\* What a column definition declares: PostgreSQL knows no auto-increment here,
PostgresColumn(col) == [col EXCEPT !.default = QuoteDefaultValue(@, col.type), !.auto = FALSE]

\* MySQL writes no default beside one,
MySQLColumn(col) == [col EXCEPT !.type = MapToMySQLType(@), !.default = IF col.auto THEN "none" ELSE @]

\* and SQLite knows none outside a primary key of one column, which stays nullable.
SQLiteColumn(col, inKey) ==
  [col EXCEPT !.type = MapToSQLiteType(@), !.nullable = @ \/ inKey,
              !.default = IF col.auto THEN "none" ELSE @, !.auto = @ /\ inKey]

CreateIndexes(t, idxs) == Each(SetToSeq(DOMAIN idxs), LAMBDA i : <<CreateIndex(t, i, idxs[i])>>)

\* The foreign keys of a target, which would follow, are none.
NewTableSQL(t, table, cols) ==
  <<[op |-> "createTable", table |-> t, pk |-> table.pk, cols |-> cols]>> \o CreateIndexes(t, table.idxs)

PostgresCreateTable(t, table) ==
  NewTableSQL(t, table, [c \in DOMAIN table.cols |-> PostgresColumn(table.cols[c])])

MySQLCreateTable(t, table) ==
  NewTableSQL(t, table, [c \in DOMAIN table.cols |-> MySQLColumn(table.cols[c])])

\* A key of one column is declared with the column.
SQLiteCreateTable(t, table) ==
  NewTableSQL(t, table, [c \in DOMAIN table.cols |-> SQLiteColumn(table.cols[c], SinglePK(table.pk, c))])

\* The definition from the metadata of a change is the same, without the name.
AddColumn(t, c, def, inKey) == [op |-> "addColumn", table |-> t, column |-> c, def |-> def, inKey |-> inKey]

PostgresAddColumn(t, ch) == AddColumn(t, ch.column, PostgresColumn(ch.meta), FALSE)

MySQLMetadata(ch) == MySQLColumn(ch.meta)

SQLiteAddColumn(t, ch, pk) ==
  LET inKey == SinglePK(pk, ch.column)
  IN  AddColumn(t, ch.column, SQLiteColumn(ch.meta, inKey), inKey)

-----------------------------------------------------------------------------
\* The statements of one change of table t; target is the schema of the target.

PostgresAlterColumn_elseIf(t, ch) ==
  IF ch.meta.type # ch.oldType THEN <<SetType(t, ch.column, ch.meta.type)>>
  ELSE IF ch.meta.nullable # ch.oldNullable THEN <<SetNullable(t, ch.column, ch.meta.nullable)>>
  ELSE <<Comment>>

PostgresAlterColumn(t, ch) ==
  (IF ch.meta.type # ch.oldType THEN <<SetType(t, ch.column, ch.meta.type)>> ELSE <<>>) \o
  (IF ch.meta.nullable # ch.oldNullable THEN <<SetNullable(t, ch.column, ch.meta.nullable)>> ELSE <<>>) \o
  (IF ch.meta.default = "none" THEN <<Comment>>
   ELSE <<[op |-> "setDefault", table |-> t, column |-> ch.column,
            default |-> QuoteDefaultValue(ch.meta.default, ch.meta.type)]>>)

PostgresAlter(t, ch, target) ==
  CASE ch.type = "AddColumn" -> <<PostgresAddColumn(t, ch)>>
    [] ch.type = "DropColumn" -> <<DropColumn(t, ch.column)>>
    [] ch.type = "AlterColumn" -> PostgresAlterColumn(t, ch)
    [] ch.type = "CreateIndex" -> <<CreateIndex(t, ch.index, target[t].idxs[ch.index])>>
    [] ch.type = "DropIndex" -> <<DropIndex(t, ch.index)>>
    [] ch.type = "RenameIndex" -> <<RenameIndex(t, ch.old, ch.new)>>
    [] ch.type = "DropForeignKey" -> <<Invalid>>  \* DROP CONSTRAINT IF EXISTS ""
    [] ch.type = "ChangePrimaryKey" -> <<Comment>>

MySQLAlter(t, ch) ==
  CASE ch.type = "AddColumn" -> <<AddColumn(t, ch.column, MySQLMetadata(ch), FALSE)>>
    [] ch.type = "DropColumn" -> <<DropColumn(t, ch.column)>>
    [] ch.type = "AlterColumn" -> <<[op |-> "modifyColumn", table |-> t, column |-> ch.column,
                                     def |-> MySQLMetadata(ch)]>>
    [] ch.type = "CreateIndex" -> <<Invalid>>  \* the column of the change is empty
    [] ch.type = "DropIndex" -> <<DropIndex(t, ch.index)>>
    [] ch.type = "RenameIndex" -> <<RenameIndex(t, ch.old, ch.new)>>
    [] ch.type \in {"DropForeignKey", "ChangePrimaryKey"} -> <<Comment>>

\* SQLite adds columns first; everything else is a comment.
SQLiteAlterTable(t, changes, target) ==
  LET adds == Only(changes, LAMBDA ch : ch.type = "AddColumn")
      others == Only(changes, LAMBDA ch : ch.type # "AddColumn")
      pk == IF t \in DOMAIN target THEN target[t].pk ELSE <<>>
  IN  [i \in DOMAIN adds |-> SQLiteAddColumn(t, adds[i], pk)] \o
      (IF others = <<>> THEN <<>> ELSE <<Comment>>)

\* Tables are created, altered and dropped in this order.
PostgresMigrationSQL(diff, target) ==
  Each(diff.create, LAMBDA t : PostgresCreateTable(t, target[t])) \o
  Each(diff.alter, LAMBDA a : Each(a.changes, LAMBDA ch : PostgresAlter(a.table, ch, target))) \o
  Each(diff.drop, LAMBDA t : <<DropTable(t, TRUE)>>)

MySQLMigrationSQL(diff, target) ==
  Each(diff.create, LAMBDA t : MySQLCreateTable(t, target[t])) \o
  Each(diff.alter, LAMBDA a : Each(a.changes, LAMBDA ch : MySQLAlter(a.table, ch))) \o
  Each(diff.drop, LAMBDA t : <<DropTable(t, FALSE)>>)

SQLiteMigrationSQL(diff, target) ==
  Each(diff.create, LAMBDA t : SQLiteCreateTable(t, target[t])) \o
  Each(diff.alter, LAMBDA a : SQLiteAlterTable(a.table, a.changes, target)) \o
  Each(diff.drop, LAMBDA t : <<DropTable(t, FALSE)>>)

GenerateMigrationSQL(provider, diff, target) ==
  CASE provider = "postgresql" -> PostgresMigrationSQL(diff, target)
    [] provider = "mysql" -> MySQLMigrationSQL(diff, target)
    [] provider = "sqlite" -> SQLiteMigrationSQL(diff, target)

-----------------------------------------------------------------------------
\* Rollback: the changes backwards, as far as the diff knows what was before.

PostgresRollbackColumn_typeOnly(t, ch) == <<SetType(t, ch.column, ch.oldType)>>

PostgresRollbackColumn(t, ch) ==
  <<SetType(t, ch.column, ch.oldType), SetNullable(t, ch.column, ch.oldNullable)>>

PostgresRollback(t, ch) ==
  CASE ch.type = "AddColumn" -> <<DropColumn(t, ch.column)>>
    [] ch.type = "AlterColumn" -> PostgresRollbackColumn(t, ch)
    [] ch.type = "CreateIndex" -> <<DropIndex(t, ch.index)>>
    [] ch.type = "RenameIndex" -> <<RenameIndex(t, ch.new, ch.old)>>
    [] ch.type \in {"DropColumn", "DropIndex", "DropForeignKey"} -> <<Comment>>
    [] ch.type = "ChangePrimaryKey" -> <<>>

MySQLRollback(t, ch) ==
  CASE ch.type = "AddColumn" -> <<DropColumn(t, ch.column)>>
    [] ch.type = "AlterColumn" -> <<[op |-> "modifyColumn", table |-> t, column |-> ch.column,
                                     def |-> [type |-> MapToMySQLType(ch.oldType), nullable |-> ch.oldNullable,
                                              default |-> "none", auto |-> FALSE]]>>
    [] ch.type = "CreateIndex" -> <<DropIndex(t, ch.index)>>
    [] ch.type = "RenameIndex" -> <<RenameIndex(t, ch.new, ch.old)>>
    [] ch.type \in {"DropColumn", "DropIndex", "DropForeignKey"} -> <<Comment>>
    [] ch.type = "ChangePrimaryKey" -> <<>>

SQLiteRollback(t, ch) == IF ch.type = "CreateIndex" THEN <<DropIndex(t, ch.index)>> ELSE <<Comment>>

\* No command passes the schema from before, so that a dropped table stays a comment.
PostgresRollbackSQL(diff) ==
  Each(diff.drop, LAMBDA t : <<Comment>>) \o
  Each(diff.alter, LAMBDA a : Each(Reverse(a.changes), LAMBDA ch : PostgresRollback(a.table, ch))) \o
  Each(diff.create, LAMBDA t : <<DropTable(t, TRUE)>>)

MySQLRollbackSQL(diff) ==
  Each(diff.drop, LAMBDA t : <<Comment>>) \o
  Each(diff.alter, LAMBDA a : Each(Reverse(a.changes), LAMBDA ch : MySQLRollback(a.table, ch))) \o
  Each(diff.create, LAMBDA t : <<DropTable(t, FALSE)>>)

SQLiteRollbackSQL(diff) ==
  Each(diff.drop, LAMBDA t : <<Comment>>) \o
  Each(diff.alter, LAMBDA a : Each(Reverse(a.changes), LAMBDA ch : SQLiteRollback(a.table, ch))) \o
  Each(diff.create, LAMBDA t : <<DropTable(t, FALSE)>>)

GenerateRollbackSQL(provider, diff) ==
  CASE provider = "postgresql" -> PostgresRollbackSQL(diff)
    [] provider = "mysql" -> MySQLRollbackSQL(diff)
    [] provider = "sqlite" -> SQLiteRollbackSQL(diff)
=============================================================================
