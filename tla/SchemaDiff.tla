----------------------------- MODULE SchemaDiff -----------------------------
(***************************************************************************)
(* From a Prisma schema to the changes a database needs: the conversion of *)
(* models to tables (migrate/converter), and the comparison of two         *)
(* database schemas (migrate/diff with its flavours).                      *)
(*                                                                         *)
(* A Prisma schema is a set of models, a model a name and a sequence of    *)
(* fields.  Names are those after toSnakeCase and @map; a default is the   *)
(* text of its literal, since function calls are dropped.  A field's       *)
(* arity is what the schema says of it (String, String? or String[]).  A   *)
(* database schema maps table names to tables, a table its column and      *)
(* index names to their definitions.                                       *)
(***************************************************************************)
EXTENDS Integers, Sequences, FiniteSets, SequencesExt

CONSTANT Lower  \* Lower[n]: the table name n in lower case

\* What each member of a sequence yields, one after the other; and the members that pass a test.
Each(seq, Script(_)) == FlattenSeq([i \in DOMAIN seq |-> Script(seq[i])])
Only(seq, Test(_)) == Each(seq, LAMBDA x : IF Test(x) THEN <<x>> ELSE <<>>)

Scalars == {"Int", "String", "Boolean", "DateTime"}

MapPrismaTypeToDB == [
  postgresql |-> [Int |-> "INTEGER", String |-> "TEXT", Boolean |-> "BOOLEAN", DateTime |-> "TIMESTAMP"],
  mysql      |-> [Int |-> "INT", String |-> "VARCHAR(255)", Boolean |-> "TINYINT(1)", DateTime |-> "DATETIME"],
  sqlite     |-> [Int |-> "INTEGER", String |-> "TEXT", Boolean |-> "INTEGER", DateTime |-> "DATETIME"]]

\* The parser keeps `?` and `[]` apart from the arity, which nothing ever sets.
Arity(f) == "required"

isAutoIncrement(f) == f.default = "autoincrement"
extractDefaultValue(f) == IF isAutoIncrement(f) THEN "none" ELSE f.default

ConvertField(provider, f) ==
  [type |-> MapPrismaTypeToDB[provider][f.type], nullable |-> Arity(f) = "optional",
   default |-> extractDefaultValue(f), auto |-> isAutoIncrement(f)]

\* It collects the keys of @relation and makes nothing of them.
ExtractForeignKeys(model) == {}

\* Relation fields become no columns; a list of scalars becomes a plain one.
Columns(model) == Only(model.fields, LAMBDA f : f.type \in Scalars /\ Arity(f) # "list")

ConvertModel(provider, model) ==
  LET fields == Columns(model)
      named(c) == CHOOSE f \in ToSet(fields) : f.name = c
      unique == {f.name : f \in {g \in ToSet(fields) : "unique" \in g.attrs}}
      ids == Only(fields, LAMBDA f : "id" \in f.attrs)
  IN  [cols |-> [c \in {f.name : f \in ToSet(fields)} |-> ConvertField(provider, named(c))],
       pk   |-> [i \in DOMAIN ids |-> ids[i].name],
       idxs |-> [n \in {<<model.name, c, "unique">> : c \in unique} |->
                  [cols |-> <<n[2]>>, unique |-> TRUE]],
       fks  |-> ExtractForeignKeys(model)]

ConvertSchema(provider, models) ==
  [n \in {m.name : m \in models} |->
     ConvertModel(provider, CHOOSE m \in models : m.name = n)]

-----------------------------------------------------------------------------
\* Flavours.

PostgresFlavour == [lowerCasesTableNames |-> FALSE, canRenameIndex |-> TRUE, canRenameForeignKey |-> TRUE]
MySQLFlavour == [lowerCasesTableNames |-> TRUE, canRenameIndex |-> TRUE, canRenameForeignKey |-> TRUE]
SQLiteFlavour == [lowerCasesTableNames |-> FALSE, canRenameIndex |-> FALSE, canRenameForeignKey |-> FALSE]

Flavour == [postgresql |-> PostgresFlavour, mysql |-> MySQLFlavour, sqlite |-> SQLiteFlavour]

TableShouldBeIgnored(name) == name = "_prisma_migrations"

Normalize(provider, n) == IF Flavour[provider].lowerCasesTableNames THEN Lower[n] ELSE n

IndexesMatch(i, j) == i = j
IndexShouldBeRenamed(i, j, prevName, nextName) == IndexesMatch(i, j) /\ prevName # nextName

\* Names apart; a target has no key to compare with.
ForeignKeysMatch(prev, next) == prev.column = next.column /\ prev.table = next.table /\ prev.to = next.to

-----------------------------------------------------------------------------
\* The differ.  Go's map order makes the order within each kind of change
\* arbitrary; Orders(S) is the set of sequences S may be visited in.

Orders(S) == IF Cardinality(S) < 2 THEN {SetToSeq(S)} ELSE SetToSeqs(S)

\* Literals are compared as they are written.
DefaultsMatch(prev, next) == prev.default = next.default

AllColumnChanges(prev, next) ==
  {w \in {"type", "nullable", "auto"} : prev[w] # next[w]} \cup (IF DefaultsMatch(prev, next) THEN {} ELSE {"default"})

Altered(prev, next) == {c \in DOMAIN prev \cap DOMAIN next : AllColumnChanges(prev[c], next[c]) # {}}

AddColumns(next, names) == {[type |-> "AddColumn", column |-> c, meta |-> next[c]] : c \in names}
DropColumns(names) == {[type |-> "DropColumn", column |-> c] : c \in names}
AlterColumns(prev, next) ==
  {[type |-> "AlterColumn", column |-> c, meta |-> next[c],
    oldType |-> prev[c].type, oldNullable |-> prev[c].nullable] : c \in Altered(prev, next)}

CompareColumns_recreates(provider, prev, next, name) ==
  LET changed == Altered(prev.cols, next.cols)
  IN  {d \o a : d \in Orders(DropColumns((DOMAIN prev.cols \ DOMAIN next.cols) \cup changed)),
                a \in Orders(AddColumns(next.cols, (DOMAIN next.cols \ DOMAIN prev.cols) \cup changed))}

CompareColumns_addsFirst(provider, prev, next, name) ==
  LET changed == Altered(prev.cols, next.cols)
  IN  {a \o d : a \in Orders(AddColumns(next.cols, (DOMAIN next.cols \ DOMAIN prev.cols) \cup changed)),
                d \in Orders(DropColumns((DOMAIN prev.cols \ DOMAIN next.cols) \cup changed))}

\* buildColumns files the columns under the normalised name, compareColumns
\* looks them up under the name of the target.
CompareColumns(provider, prev, next, name) ==
  IF Normalize(provider, name) # name THEN {<<>>}
  ELSE {a \o d \o u : a \in Orders(AddColumns(next.cols, DOMAIN next.cols \ DOMAIN prev.cols)),
                      d \in Orders(DropColumns(DOMAIN prev.cols \ DOMAIN next.cols)),
                      u \in Orders(AlterColumns(prev.cols, next.cols))}

\* An index is paired with the only one of the target that has its structure.
IndexPairs(prev, next) ==
  {r \in (DOMAIN prev) \X (DOMAIN next) :
     {n \in DOMAIN next : IndexesMatch(prev[r[1]], next[n])} = {r[2]}}

CompareIndexes(provider, prev, next) ==
  LET renames == {r \in IndexPairs(prev, next) :
                    /\ Flavour[provider].canRenameIndex
                    /\ IndexShouldBeRenamed(prev[r[1]], next[r[2]], r[1], r[2])}
      created == {n \in DOMAIN next : \A r \in renames : r[2] # n}
      dropped == {n \in DOMAIN prev : \A r \in renames : r[1] # n}
  IN  {r \o c \o d :
         r \in Orders({[type |-> "RenameIndex", old |-> x[1], new |-> x[2]] : x \in renames}),
         c \in Orders({[type |-> "CreateIndex", index |-> n] : n \in created}),
         d \in Orders({[type |-> "DropIndex", index |-> n] : n \in dropped})}

ForeignKeyPairs(prev, next) ==
  {r \in prev \X next : {k \in next : ForeignKeysMatch(r[1], k)} = {r[2]}}

\* A target has no key, so that none is renamed or created.  The changes carry no name, so that one
\* is like the other.
CompareForeignKeys(provider, prev, next) ==
  LET renamed == {r \in ForeignKeyPairs(prev, next) : Flavour[provider].canRenameForeignKey}
      dropped == {k \in prev : \A r \in renamed : r[1] # k}
  IN  [i \in 1..Cardinality(dropped) |-> [type |-> "DropForeignKey"]]

ComparePrimaryKeys(prev, next) == IF prev = next THEN <<>> ELSE <<[type |-> "ChangePrimaryKey"]>>

CompareTables(provider, prev, next, name) ==
  {c \o i \o CompareForeignKeys(provider, prev.fks, next.fks) \o ComparePrimaryKeys(prev.pk, next.pk) :
     c \in CompareColumns(provider, prev, next, name),
     i \in CompareIndexes(provider, prev.idxs, next.idxs)}

\* The names a differ database knows tables by: those of either schema, normalised.
TableNames(provider, tables) ==
  {n \in {Normalize(provider, t) : t \in DOMAIN tables} : ~TableShouldBeIgnored(n)}
Table(provider, tables, name) == CHOOSE t \in DOMAIN tables : Normalize(provider, t) = name

\* The results CompareSchemas may return.  The tables to alter are sorted and go by their normalised
\* names, the others by their own.
CompareSchemas(provider, prev, next) ==
  LET old == TableNames(provider, prev)
      new == TableNames(provider, next)
      created == {Table(provider, next, n) : n \in new \ old}
      dropped == {Table(provider, prev, n) : n \in old \ new}
      changes == [n \in old \cap new |->
                    LET target == Table(provider, next, n)
                    IN  CompareTables(provider, prev[Table(provider, prev, n)], next[target], target)]
      altered == {n \in old \cap new : <<>> \notin changes[n]}
      sorted == SetToSeq(altered)
  IN  {[create |-> c, drop |-> d,
        alter |-> [i \in DOMAIN sorted |-> [table |-> sorted[i], changes |-> f[sorted[i]]]]] :
         c \in Orders(created), d \in Orders(dropped),
         f \in {g \in [altered -> UNION {changes[n] : n \in altered}] :
                  \A n \in altered : g[n] \in changes[n]}}

NoDifferences(diff) == diff.create = <<>> /\ diff.alter = <<>> /\ diff.drop = <<>>
=============================================================================
