--------------------------- MODULE DatabaseCatalog ---------------------------
(***************************************************************************)
(* What PostgreSQL, MySQL and SQLite do with the statements of             *)
(* MigrationSQL, and what the introspectors of migrate/introspect read     *)
(* from the result.  A statement may also fail for reasons that are not in *)
(* the catalog (rows that break a constraint, a lost connection): that is  *)
(* up to the caller.                                                       *)
(***************************************************************************)
EXTENDS MigrationSQL

\* A table, a column or an index more, and some of them less.
With(f, x, y) == [z \in DOMAIN f \cup {x} |-> IF z = x THEN y ELSE f[z]]
Without(f, names) == [x \in DOMAIN f \ names |-> f[x]]

\* Declared types as the catalog reports them, and as the introspectors map them.
ReportedType == [
  postgresql |-> [type \in {"INTEGER", "TEXT", "BOOLEAN", "TIMESTAMP"} |->
                    CASE type = "INTEGER" -> "integer" [] type = "TEXT" -> "text" [] type = "BOOLEAN" -> "boolean"
                      [] type = "TIMESTAMP" -> "timestamp without time zone"],
  mysql |-> [type \in {"INT", "VARCHAR(255)", "varchar(255)", "TINYINT(1)", "DATETIME"} |->
               CASE type = "INT" -> "int"
                 [] type \in {"VARCHAR(255)", "varchar(255)"} -> "varchar(255)"
                 [] type = "TINYINT(1)" -> "tinyint(1)"
                 [] type = "DATETIME" -> "datetime"],
  sqlite |-> [INTEGER |-> "INTEGER", TEXT |-> "TEXT"]]

MapPostgresType ==
  [type \in {"integer", "text", "boolean", "timestamp without time zone"} |->
     CASE type = "integer" -> "INTEGER" [] type = "text" -> "TEXT" [] type = "boolean" -> "BOOLEAN"
       [] type = "timestamp without time zone" -> "TIMESTAMP"]
MapMySQLType ==
  [type \in {"int", "varchar(255)", "tinyint(1)", "datetime"} |->
     CASE type = "int" -> "INT" [] type = "varchar(255)" -> "varchar(255)" [] type = "tinyint(1)" -> "BOOLEAN"
       [] type = "datetime" -> "DATETIME"]
MapSQLiteType == [INTEGER |-> "INTEGER", TEXT |-> "TEXT"]

\* A default as the catalog reports it: PostgreSQL adds the type of a text.
ReportedDefault(provider, type, default) ==
  CASE default = "none" -> "none"
    [] default # "none" /\ provider = "postgresql" /\ type = "TEXT" -> default \o "::text"
    [] default = "true" /\ provider = "mysql" -> "1"
    [] OTHER -> default

\* A column that is declared so.
Stored(provider, def) ==
  [def EXCEPT !.type = ReportedType[provider][@], !.default = ReportedDefault(provider, def.type, @)]

-----------------------------------------------------------------------------
\* Introspection of one table.

PostgresColumns(t) == [c \in DOMAIN t.cols |-> [t.cols[c] EXCEPT !.type = MapPostgresType[@]]]
MySQLColumns(t) == [c \in DOMAIN t.cols |-> [t.cols[c] EXCEPT !.type = MapMySQLType[@]]]

\* SQLite: an INTEGER primary key is taken for an auto-increment,
SQLiteColumns(t) ==
  [c \in DOMAIN t.cols |-> [t.cols[c] EXCEPT !.type = MapSQLiteType[@],
                              !.auto = c \in ToSet(t.pk) /\ t.cols[c].type = "INTEGER"]]

\* and no primary key is reported.
SQLitePrimaryKey(t) == <<>>
PostgresPrimaryKey(t) == t.pk
MySQLPrimaryKey(t) == t.pk

\* The indexes of a table with that of its primary key, which has a name apart.
Listed(t) == With(t.idxs, <<"PRIMARY">>, [cols |-> t.pk, unique |-> TRUE])

\* Two leave it out, SQLite has made one only where it needs one (AutoIndex) and lists it.
PostgresIndexes(t) == [i \in DOMAIN Listed(t) \ {<<"PRIMARY">>} |-> Listed(t)[i]]
MySQLIndexes(t) == [i \in DOMAIN Listed(t) \ {<<"PRIMARY">>} |-> Listed(t)[i]]
SQLiteIndexes(t) == t.idxs

PostgresForeignKeys(t) == t.fks
MySQLForeignKeys(t) == t.fks
SQLiteForeignKeys(t) == t.fks

\* A key that refers to the primary key without naming it has NULL for its column, which is
\* scanned into a string.
Reads(provider, t) == provider = "sqlite" => \A fk \in t.fks : fk.to # "NULL"

PostgresTable(t) ==
  [cols |-> PostgresColumns(t), pk |-> PostgresPrimaryKey(t), idxs |-> PostgresIndexes(t), fks |-> PostgresForeignKeys(t)]

MySQLTable(t) ==
  [cols |-> MySQLColumns(t), pk |-> MySQLPrimaryKey(t), idxs |-> MySQLIndexes(t), fks |-> MySQLForeignKeys(t)]

SQLiteTable(t) ==
  [cols |-> SQLiteColumns(t), pk |-> SQLitePrimaryKey(t), idxs |-> SQLiteIndexes(t), fks |-> SQLiteForeignKeys(t)]

IntrospectTable(provider, t) ==
  CASE provider = "postgresql" -> PostgresTable(t)
    [] provider = "mysql" -> MySQLTable(t)
    [] provider = "sqlite" -> SQLiteTable(t)

Introspect(provider, cat) == [t \in DOMAIN cat |-> IntrospectTable(provider, cat[t])]

\* A table that was dropped after its name was listed.
EmptyTable == [cols |-> <<>>, pk |-> <<>>, idxs |-> <<>>, fks |-> {}]

-----------------------------------------------------------------------------
\* Executing a statement.

\* PostgreSQL and SQLite have one name space for the indexes of a schema.
IndexNames(provider, cat, t) ==
  IF provider = "mysql" THEN DOMAIN cat[t].idxs ELSE UNION {DOMAIN cat[u].idxs : u \in DOMAIN cat}

HasColumn(cat, t, c) == t \in DOMAIN cat /\ c \in DOMAIN cat[t].cols
Holder(cat, i) == {t \in DOMAIN cat : i \in DOMAIN cat[t].idxs}
References(cat, t) == {u \in DOMAIN cat \ {t} : \E fk \in cat[u].fks : fk.table = t}

\* A key column is not nullable, and MySQL wants an auto-increment to be a key.
FitsKey(provider, pk, c, def) ==
  /\ c \in ToSet(pk) /\ provider # "sqlite" => ~def.nullable
  /\ provider = "mysql" /\ def.auto => c \in ToSet(pk)

CanCreateTable(provider, cat, s) ==
  /\ s.table \notin DOMAIN cat
  /\ \A c \in DOMAIN s.cols : FitsKey(provider, s.pk, c, s.cols[c])

\* SQLite does not enforce foreign keys unless it is told to.
CanDropTable(provider, cat, s) == s.cascade \/ provider = "sqlite" \/ References(cat, s.table) = {}

CanAddColumn(provider, cat, s) ==
  /\ s.table \in DOMAIN cat /\ ~HasColumn(cat, s.table, s.column)
  /\ ~s.inKey
  /\ FitsKey(provider, <<>>, s.column, s.def)

CanDropColumn(provider, cat, s) ==
  /\ s.table \in DOMAIN cat
  /\ provider = "mysql" =>
       /\ HasColumn(cat, s.table, s.column)
       /\ Cardinality(DOMAIN cat[s.table].cols) > 1
       /\ \A fk \in cat[s.table].fks : fk.column # s.column
  /\ s.column \in ToSet(cat[s.table].pk) => References(cat, s.table) = {}

\* PostgreSQL converts a column by itself only to a text.
CanCast(provider, from, to) ==
  provider = "postgresql" => to = "TEXT" \/ ReportedType[provider][to] = from

CanModify(provider, cat, s) ==
  /\ HasColumn(cat, s.table, s.column)
  /\ s.op = "setNullable" /\ s.nullable => s.column \notin ToSet(cat[s.table].pk)
  /\ s.op = "setType" => CanCast(provider, cat[s.table].cols[s.column].type, s.type)
  /\ s.op = "modifyColumn" => FitsKey(provider, cat[s.table].pk, s.column, s.def)

CanCreateIndex(provider, cat, s) ==
  /\ s.table \in DOMAIN cat
  /\ ToSet(s.def.cols) \subseteq DOMAIN cat[s.table].cols
  /\ s.index \notin IndexNames(provider, cat, s.table)

CanDropIndex(provider, cat, s) ==
  provider = "mysql" => s.table \in DOMAIN cat /\ s.index \in DOMAIN cat[s.table].idxs

CanRenameIndexTo(provider, cat, s) ==
  /\ IF provider = "mysql" THEN s.table \in DOMAIN cat /\ s.old \in DOMAIN cat[s.table].idxs
     ELSE Holder(cat, s.old) # {}
  /\ s.new \notin IndexNames(provider, cat, s.table)

CanExecute(provider, cat, s) ==
  CASE s.op = "createTable" -> CanCreateTable(provider, cat, s)
    [] s.op = "dropTable" -> CanDropTable(provider, cat, s)
    [] s.op = "addColumn" -> CanAddColumn(provider, cat, s)
    [] s.op = "dropColumn" -> CanDropColumn(provider, cat, s)
    [] s.op \in {"setType", "setNullable", "setDefault", "modifyColumn"} -> CanModify(provider, cat, s)
    [] s.op = "createIndex" -> CanCreateIndex(provider, cat, s)
    [] s.op = "dropIndex" -> CanDropIndex(provider, cat, s)
    [] s.op = "renameIndex" -> CanRenameIndexTo(provider, cat, s)
    [] s.op = "comment" -> TRUE
    [] s.op = "invalid" -> FALSE

\* With CASCADE foreign keys to a table go with it.
DroppedTable(cat, s) ==
  [u \in DOMAIN cat \ {s.table} |-> [cat[u] EXCEPT !.fks = {fk \in @ : s.cascade => fk.table # s.table}]]

\* So do the keys and indexes a dropped column is part of.
DroppedColumn(t, c) ==
  [cols |-> Without(t.cols, {c}),
   pk   |-> IF c \in ToSet(t.pk) THEN <<>> ELSE t.pk,
   idxs |-> Without(t.idxs, {i \in DOMAIN t.idxs : c \in ToSet(t.idxs[i].cols)}),
   fks  |-> {fk \in t.fks : fk.column # c}]

RenamedIndex(t, old, new) ==
  [t EXCEPT !.idxs = With(Without(@, {old}), new, t.idxs[old])]

\* SQLite makes an index for a primary key, unless it is a single INTEGER.
AutoIndex(provider, s) ==
  IF provider = "sqlite" /\ s.pk # <<>> /\ ~\E c \in DOMAIN s.cols : s.pk = <<c>> /\ s.cols[c].type = "INTEGER"
  THEN With(<<>>, <<"sqlite_autoindex", s.table>>, [cols |-> s.pk, unique |-> TRUE])
  ELSE <<>>

NewTable(provider, s) ==
  [cols |-> [c \in DOMAIN s.cols |-> Stored(provider, s.cols[c])],
   pk |-> s.pk, idxs |-> AutoIndex(provider, s), fks |-> {}]

\* The default of a column that becomes a text is cast to one.
Retyped(provider, col, type) ==
  [col EXCEPT !.type = ReportedType[provider][type],
              !.default = IF @ = "none" \/ type # "TEXT" \/ col.type = "text" THEN @ ELSE "(" \o @ \o ")::text"]

Redefaulted(provider, col, default) ==
  [col EXCEPT !.default = IF provider = "postgresql" /\ col.type = "text" THEN default \o "::text" ELSE default]

\* The catalog after a statement that CanExecute.
Executed(provider, cat, s) ==
  CASE s.op = "createTable" -> With(cat, s.table, NewTable(provider, s))
    [] s.op = "dropTable" -> DroppedTable(cat, s)
    [] s.op = "addColumn" -> [cat EXCEPT ![s.table].cols = With(@, s.column, Stored(provider, s.def))]
    [] s.op = "dropColumn" -> [cat EXCEPT ![s.table] = DroppedColumn(@, s.column)]
    [] s.op = "setType" -> [cat EXCEPT ![s.table].cols[s.column] = Retyped(provider, @, s.type)]
    [] s.op = "setNullable" -> [cat EXCEPT ![s.table].cols[s.column].nullable = s.nullable]
    [] s.op = "setDefault" -> [cat EXCEPT ![s.table].cols[s.column] = Redefaulted(provider, @, s.default)]
    [] s.op = "modifyColumn" -> [cat EXCEPT ![s.table].cols[s.column] = Stored(provider, s.def)]
    [] s.op = "createIndex" -> [cat EXCEPT ![s.table].idxs = With(@, s.index, s.def)]
    [] s.op = "dropIndex" -> [t \in DOMAIN cat |-> IF provider = "mysql" /\ t # s.table THEN cat[t]
                                ELSE [cat[t] EXCEPT !.idxs = Without(@, {s.index})]]
    [] s.op = "renameIndex" -> [t \in DOMAIN cat |->
                                 IF s.old \in DOMAIN cat[t].idxs /\ (provider = "mysql" => t = s.table)
                                 THEN RenamedIndex(cat[t], s.old, s.new) ELSE cat[t]]
    [] s.op = "comment" -> cat

\* A whole script in one transaction: all of it or nothing.
ExecutedAll(provider, cat, script) ==
  LET step(r, s) == IF r.ok /\ CanExecute(provider, r.cat, s)
                    THEN [ok |-> TRUE, cat |-> Executed(provider, r.cat, s)]
                    ELSE [ok |-> FALSE, cat |-> cat]
  IN  FoldLeft(step, [ok |-> TRUE, cat |-> cat], script)

\* A script that ends in comments ends in a statement of comments only, which
\* MySQL rejects ("Query was empty").
CommentsOnly(script) == \A i \in DOMAIN script : script[i].op = "comment"
=============================================================================
