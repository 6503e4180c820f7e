-------------------------- MODULE GeneratedClient --------------------------
(***************************************************************************)
(* A program written against the client that generator/codegen generates,  *)
(* over query/executor: the schema is edited, generated and pushed at      *)
(* times of their own, so that the client may be older or newer than the   *)
(* tables.  A call says which columns its statement names, whether the     *)
(* database accepts it, and from where every field of the record comes     *)
(* that the executor scans.                                                *)
(***************************************************************************)
EXTENDS CodeGenerator

CONSTANTS
  Databases,    \* "postgresql", "mysql", "sqlite"
  MaxFeatures   \* bound: features of the schema

VARIABLES
  database,  \* the provider of the datasource
  schema,    \* the features of schema.prisma
  generated, \* those the client was generated from, {} without a client
  tables,    \* database: the columns of every table in their order
  call,      \* the call made since, or NoCall
  returned     \* what it returned

clientVars == <<database, schema, generated, tables, call, returned>>

NoCall == [op |-> "none"]
NoAnswer == [result |-> "none"]

ClientInit ==
  /\ database \in Databases
  /\ schema = {"base"}
  /\ generated = {}
  /\ tables = [m \in Models |-> <<>>]
  /\ call = NoCall /\ returned = NoAnswer

Forget == call' = NoCall /\ returned' = NoAnswer

Edit(feature) ==
  /\ feature \notin schema /\ Cardinality(schema) < MaxFeatures
  /\ schema' = schema \cup {feature}
  /\ Forget /\ UNCHANGED <<database, generated, tables>>

\* What was generated is written whether it compiles or not.
GenerateClient ==
  /\ generated' = schema
  /\ Forget /\ UNCHANGED <<database, schema, tables>>

\* db push: a new table has its columns in the order of the schema, an old one gets the
\* new ones at its end.
Push ==
  /\ tables' = [m \in Models |->
                  tables[m] \o Among(TableColumns(schema, m), Range(TableColumns(schema, m)) \ Range(tables[m]))]
  /\ Forget /\ UNCHANGED <<database, schema, generated>>

-----------------------------------------------------------------------------
(* The calls a client offers: the operation, and a field that it names in  *)
(* a clause of its statement, or none.                                     *)

None == [name |-> <<>>]

Request(op, m, clause, f) == [op |-> op, model |-> m, clause |-> clause, field |-> f, include |-> {}, found |-> FALSE]
Bare(op, m) == {Request(op, m, "none", None)}

\* A filter compares with a value or, on a pointer, with nothing.
Filtering(op, m) ==
  {Request(op, m, "where", f) : f \in Fields(generated, m)} \cup
  {Request(op, m, "isNull", f) : f \in {g \in Fields(generated, m) : IsPointer(g)}}

FindManyCalls(m) == Bare("findMany", m) \cup Filtering("findMany", m)
FindFirstCalls(m) == Bare("findFirst", m) \cup Filtering("findFirst", m)

\* What Where() leads to.
WhereCalls(m) == Filtering("findMany", m) \cup Filtering("findFirst", m)

\* What Query() leads to, its end being Execute or ExecuteFirst.  Select has the fields that are no
\* relations, Include the others; Join takes any table, here that of a relation.
QueryCalls(op, m) ==
  LET relations == {g \in Fields(generated, m) : IsRelation(g)}
  IN  Bare(op, m) \cup Filtering(op, m)
        \cup {Request(op, m, "orderBy", f) : f \in Fields(generated, m)}
        \cup {Request(op, m, "select", f) : f \in Fields(generated, m) \ relations}
        \cup {Request(op, m, "join", f) : f \in relations}
        \cup {[c EXCEPT !.include = {r.name : r \in rs}] : c \in Bare(op, m), rs \in SUBSET relations}

ExecuteCalls(m) == QueryCalls("query", m)
ExecuteFirstCalls(m) == QueryCalls("queryFirst", m)

CreateCalls(m) == Bare("create", m)
UpdateCalls(m) == {Request("update", m, clause, f) : clause \in {"set", "setAll"}, f \in Fields(generated, m)}

\* Filters of a DeleteBuilder compare with values only.
DeleteCalls(m) == Bare("delete", m) \cup {Request("delete", m, "where", f) : f \in Fields(generated, m)}

CountCalls(m) == Bare("count", m) \cup Filtering("count", m)

\* Sum, Avg, Min and Max, with a WHERE or without.
AggregateCalls(m) ==
  {Request(op, m, clause, f) :
     op \in Totals \cup Extremes, clause \in {"of", "ofWhere"}, f \in {g \in Fields(generated, m) : IsNumeric(g)}}

\* Of the client itself.
RawCalls(m) == UNION {Bare(op, m) : op \in {"Raw", "RawScan", "RawExec", "RawQuery"}}

Calls ==
  UNION {FindManyCalls(m) \cup FindFirstCalls(m) \cup WhereCalls(m) \cup ExecuteCalls(m) \cup ExecuteFirstCalls(m)
           \cup CreateCalls(m) \cup UpdateCalls(m) \cup DeleteCalls(m) \cup CountCalls(m) \cup AggregateCalls(m) \cup RawCalls(m) : m \in Models}

\* Mutant of ColumnIn: WHERE, ORDER BY and SET have the name of the field too.
ColumnIn_unchanged(clause, f) == f.name

\* The select builder is given the name of the field, the others that of its column.
ColumnIn(clause, f) == IF clause = "select" THEN f.name ELSE toSnakeCase[f.name]

-----------------------------------------------------------------------------
(* The database.                                                           *)

Has(table, column) == column \in Range(tables[table])

\* The type of the only field that a column of this name can come from.
TypeOf(m, column) ==
  (CHOOSE f \in {g \in Range(Lines) : g.model = m /\ IsScalar(g)} :
     column \in {f.column, toSnakeCase[f.name]}).type

\* The relations that are joined.  An include that the model client knows no relation for
\* is ignored, and Execute drops what was given to Join.
Joined(c) ==
  {r.table : r \in {q \in RelationMetadata(generated, c.model) : q.name \in c.include}}
    \cup (IF c.op = "queryFirst" /\ c.clause = "join" THEN {c.field.type} ELSE {})

\* SQLite takes a quoted name that means no column for a string.
Resolves(c, column) == Has(c.model, column) \/ database = "sqlite"

\* A joined table goes by its own name, so that no table can be joined to itself.
AcceptsJoins(c) == \A table \in Joined(c) : table # c.model /\ tables[table] # <<>>

\* Pointers that are nil are left out of an INSERT.
InsertColumns(m) == {StructColumn(f) : f \in {g \in Fields(generated, m) : ~IsPointer(g)}}

\* No driver takes the struct of a relation for an argument, nor the slice that Raw,
\* RawScan and RawExec pass on as one.
Binds(c) ==
  /\ c.clause \in {"where", "set", "setAll"} => ~IsRelation(c.field)
  /\ c.op \notin {"Raw", "RawScan", "RawExec"}

\* The types whose columns are TEXT for want of a case of their own (mapPrismaTypeToDB).
IsText(type) == type \in {"String", "BigInt", "Decimal", "Bytes"}

\* Only PostgreSQL refuses to add texts.
Adds(c) ==
  database = "postgresql" /\ c.op \in Totals => ~IsText(TypeOf(c.model, ColumnIn(c.clause, c.field)))

\* The WHERE of an UPDATE or DELETE is PostgreSQL's for MySQL too.
Accepts(c) ==
  LET column == ColumnIn(c.clause, c.field)
  IN  /\ Binds(c)
      /\ c.op # "RawQuery" => tables[c.model] # <<>>
      /\ AcceptsJoins(c)
      /\ c.op = "create" => InsertColumns(c.model) \subseteq Range(tables[c.model])
      /\ c.clause \in {"set", "setAll"} => Has(c.model, column)
      /\ c.clause \in {"where", "isNull", "orderBy", "select", "of", "ofWhere"} => Resolves(c, column)
      /\ c.clause \in {"of", "ofWhere"} => Adds(c)
      /\ database = "mysql" => c.clause # "set" /\ ~(c.op = "delete" /\ c.clause = "where")

-----------------------------------------------------------------------------
(* Scanning: for every field of the struct the table and the column of its *)
(* value, <<>> for one that keeps its zero value.                          *)

\* What the driver hands out for a column; none of them is NULL, as `?` is lost.
DriverValue(type) ==
  CASE type = "Int" -> "int64"
    [] type = "Boolean" -> IF database = "postgresql" THEN "bool" ELSE "int64"
    [] type = "DateTime" -> IF database = "postgresql" THEN "time.Time" ELSE "time string"
    [] type = "Float" -> "float64"
    [] type \in {"String", "BigInt", "Decimal", "Json", "Bytes"} -> "string"

\* setFieldValue.  Go itself converts numbers, and an integer to a string of one rune, as
\* which an enum is kept; slices are skipped; a time is parsed.
Converts(value, goType) ==
  \/ goType \in {value, "interface{}", "[]byte"}
  \/ value \in {"int64", "float64"} /\ goType \in {"int", "int64", "float64"}
  \/ value = "int64" /\ goType \in {"string", "bool"}
  \/ value = "time string" /\ goType \in {"string", "time.Time"}
  \/ value \in {"int64", "string", "time string"} /\ goType = "*enum"

Record(from) == [result |-> "record", from |-> from]
Only(result) == [result |-> result, from |-> <<>>]

\* A record of the fields that have a column, unless a value does not convert.
Scanned(m, from) ==
  IF \A f \in DOMAIN from : from[f] # <<>> => Converts(DriverValue(TypeOf(m, from[f][2])), GoType(f))
  THEN Record([f \in DOMAIN from |-> IF GoType(f) = "[]byte" THEN <<>> ELSE from[f]])
  ELSE Only("error")

\* mapValuesToStruct: by the name of the column.
ByName(m) ==
  [f \in Fields(generated, m) |-> IF Has(m, StructColumn(f)) THEN <<m, StructColumn(f)>> ELSE <<>>]

\* Only the column that was selected.
Selected(c) ==
  [f \in Fields(generated, c.model) |->
     IF c.clause = "select" /\ StructColumn(f) # ColumnIn("select", c.field) THEN <<>> ELSE ByName(c.model)[f]]

StructColumns(m) == [i \in DOMAIN FieldsOf(generated, m) |-> StructColumn(FieldsOf(generated, m)[i])]

\* scanRow, for RETURNING *: by position, where Scan wants as many fields as columns.
ByPosition(m) ==
  [f \in Fields(generated, m) |->
     <<m, tables[m][CHOOSE i \in DOMAIN FieldsOf(generated, m) : FieldsOf(generated, m)[i] = f]>>]

-----------------------------------------------------------------------------
(* What a call returns, c.found being whether there is a row that the      *)
(* statement means.                                                        *)

\* The rows are appended to the slice as pointers, which the slice does not hold; the
\* first of them is scanned before.
AnswersMany(c) ==
  IF ~c.found THEN Only("empty")
  ELSE IF Scanned(c.model, Selected(c)).result = "error" THEN Only("error") ELSE Only("panic")

AnswersFirst(c) == IF c.found THEN Scanned(c.model, ByName(c.model)) ELSE Only("error")

\* Without joins the only row is skipped; with one, the struct is taken for a slice.
AnswersQueryFirst(c) == Only(IF c.found /\ Joined(c) # {} THEN "panic" ELSE "error")

\* PostgreSQL is sent the INSERT twice, the others panic over the row they read back.
AnswersCreate(c) == Only(IF database = "postgresql" THEN "error" ELSE IF c.found THEN "panic" ELSE "done")

\* PostgreSQL returns the row; the others are asked for it, if there was a WHERE.
AnswersUpdate(c) ==
  CASE database = "postgresql" ->
         IF c.found /\ Len(tables[c.model]) = Len(StructColumns(c.model)) THEN Scanned(c.model, ByPosition(c.model))
         ELSE Only("error")
    [] database # "postgresql" /\ c.clause = "setAll" -> Record([f \in Fields(generated, c.model) |-> <<>>])
    [] OTHER -> AnswersFirst(c)

\* An aggregate of no rows is 0.  A name that SQLite takes for a string adds up to 0 too,
\* but is no number as the least or the greatest.
AnswersAggregate(c) ==
  Only(IF c.found /\ c.op \in Extremes /\ ~Has(c.model, ColumnIn(c.clause, c.field)) THEN "error" ELSE "done")

Answers(c) ==
  CASE ~Accepts(c) -> Only("error")
    [] Accepts(c) /\ c.op = "findFirst" -> AnswersFirst(c)
    [] Accepts(c) /\ c.op \in {"findMany", "query"} -> AnswersMany(c)
    [] Accepts(c) /\ c.op = "queryFirst" -> AnswersQueryFirst(c)
    [] Accepts(c) /\ c.op = "create" -> AnswersCreate(c)
    [] Accepts(c) /\ c.op = "update" -> AnswersUpdate(c)
    [] Accepts(c) /\ c.op \in {"delete", "count", "RawQuery"} -> Only("done")
    [] Accepts(c) /\ c.op \in Totals \cup Extremes -> AnswersAggregate(c)

\* The others return the same whether there is a row or not.
ReadsRows(c) == c.op \in {"findFirst", "findMany", "query", "queryFirst", "create", "update"} \cup Extremes

CallClient(c, found) ==
  /\ call' = [c EXCEPT !.found = found]
  /\ returned' = Answers(call')
  /\ UNCHANGED <<database, schema, generated, tables>>

ClientNext ==
  \/ \E feature \in Features : Edit(feature)
  \/ GenerateClient
  \/ Push
  \/ /\ call = NoCall /\ generated # {} /\ Compiles(generated)
     /\ \E c \in Calls, found \in BOOLEAN : (found => ReadsRows(c)) /\ CallClient(c, found)

-----------------------------------------------------------------------------
(* Properties.                                                             *)

ClientTypeOK ==
  /\ database \in Databases
  /\ schema \subseteq Features /\ generated \subseteq schema
  /\ tables \in [Models -> Seq(UNION {Range(TableColumns(Features, m)) : m \in Models})]
  /\ returned.result \in {"none", "record", "empty", "done", "error", "panic"}

\* A scalar whose column bears its name.
Unmapped(f) == IsScalar(f) /\ f.column = <<>>

\* The tables have the columns that the client was generated for; they may have more.
Served(m) == Range(TableColumns(generated, m)) \subseteq Range(tables[m])

\* Without a BigInt, whose column is TEXT, which no integer is made of.
Readable(m) == \A f \in Fields(generated, m) : f.type # "BigInt"

\* Generator, converter and executor agree on the names and the types of columns: on
\* tables as new as the client or newer, counts, aggregates and deletes by any plain field
\* succeed, the first record is found if there is one, and an update answers with the
\* updated record, except that MySQL refuses a WHERE in both writes, that PostgreSQL
\* updates and fails if the table has another number of columns than the struct has
\* fields, or another order, that it adds no BigInt, and that no record of a model with a
\* BigInt can be read.
ServedClientsWork ==
  LET c == call
  IN  c # NoCall /\ c.op \in {"findFirst", "count", "delete", "update", "RawQuery"} \cup Totals \cup Extremes
        /\ Served(c.model)
        /\ (c.clause # "none" => Unmapped(c.field))
        /\ ~(database = "mysql" /\ (c.clause = "set" \/ (c.op = "delete" /\ c.clause = "where")))
        /\ ~(database = "postgresql" /\ c.op \in Totals /\ c.field.type = "BigInt")
      => CASE c.op \in {"count", "delete", "RawQuery"} \cup Totals \cup Extremes -> returned.result = "done"
           [] c.op = "findFirst" ->
                (Readable(c.model) => returned.result = (IF c.found THEN "record" ELSE "error"))
           [] c.op = "update" ->
                (c.found /\ Readable(c.model)
                     /\ (database = "postgresql" => tables[c.model] = StructColumns(c.model))
                   => returned.result = "record")

\* Whatever the client was generated from and whatever was pushed since: a field of a
\* record that is returned holds its own column of its own table if that has one and
\* nothing otherwise, except where PostgreSQL returns the columns of an update in an
\* order that is not the struct's, where another database is not asked for the record of
\* an update without WHERE, and that Bytes are never read.
RecordsAreTheirOwn ==
  returned.result = "record"
    /\ ~(call.op = "update" /\ database = "postgresql" /\ tables[call.model] # StructColumns(call.model))
    /\ ~(call.op = "update" /\ database # "postgresql" /\ call.clause = "setAll") =>
    \A f \in Fields(generated, call.model) :
      LET column == toSnakeCase[f.name]
      IN  Unmapped(f) =>
            returned.from[f] = (IF Has(call.model, column) /\ f.type # "Bytes" THEN <<call.model, column>> ELSE <<>>)
=============================================================================
