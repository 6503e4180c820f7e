--------------------------- MODULE SqlGenerator ---------------------------
(***************************************************************************)
(* The generators of query/sqlgen for PostgreSQL, MySQL and SQLite: which  *)
(* placeholders a statement has, which arguments go with it, and which rows*)
(* its WHERE leaves; and how the three drivers bind the arguments.  A row  *)
(* is the set of the conditions that hold on it, so an SQL condition is the*)
(* set of the rows it leaves.  Names and the rest of the text are left out.*)
(***************************************************************************)
EXTENDS Naturals, SequencesExt

CONSTANT MaxConditions \* conditions of one query

ASSUME ConditionsAssumption == MaxConditions \in Nat

Rows == SUBSET (1..MaxConditions)

\* What a condition compares with: a value (=, !=, <, LIKE ...), two of a list, nothing,
\* no element of a list, the value at a path of a JSON column, an element of the list at a
\* path of one (the text of a JSON value), or a subquery with one argument.
Kinds == {"value", "in", "isNull", "isNotNull", "inEmpty", "notInEmpty", "jsonPath", "jsonArray", "subquery"}

\* The rows the i-th condition means.
Meant(i, kind) ==
  CASE kind = "inEmpty" -> {}
    [] kind = "notInEmpty" -> Rows
    [] OTHER -> {r \in Rows : i \in r}

-----------------------------------------------------------------------------
(* Statements: the placeholders in the order of the text, each with the    *)
(* value that belongs there; the arguments; argIndex; the conditions       *)
(* collected, and whether the text is SQL of the database at all.          *)

Start == [marks |-> <<>>, args |-> <<>>, next |-> 1, parts |-> <<>>, ok |-> TRUE]

\* The text is refused by the database if the condition holds.
Refused(s, condition) == [s EXCEPT !.ok = @ /\ ~condition]

\* A part that comes with numbers of its own, from 1.
Embed(s, style, values) ==
  [s EXCEPT !.marks = @ \o [k \in DOMAIN values |-> [style |-> style, n |-> k, value |-> values[k]]],
            !.args = @ \o values]

\* Placeholders numbered from argIndex on; where they are question marks the number shows nowhere.
Place(s, style, values) ==
  [s EXCEPT !.marks = @ \o [k \in DOMAIN values |->
                              [style |-> style, n |-> s.next + k - 1, value |-> values[k]]],
            !.args = @ \o values,
            !.next = IF style = "?" THEN @ ELSE @ + Len(values)]

\* How a subquery or a CTE is numbered: by GenerateSelect of the provider.
Own(provider) == IF provider = "mysql" THEN "?" ELSE "$"

\* A WHERE is generated for a database in the style and the dialect of some database; with
\* the dialect goes the quotation mark, and what PostgreSQL puts around a name makes it a
\* string on MySQL, the same for every row.
For(provider, style, dialect) == [provider |-> provider, style |-> style, dialect |-> dialect]
NameIsString(g) == g.provider = "mysql" /\ g.dialect = "postgresql"

buildJsonCondition(kind, g) ==
  CASE kind = "jsonPath" -> (IF g.dialect = "postgresql" THEN <<"value">> ELSE <<"path", "value">>)
    [] kind = "jsonArray" -> (IF g.dialect = "mysql" THEN <<"value", "path">> ELSE <<"value">>)

\* The values a condition asks placeholders for.
Asks(kind, g) ==
  CASE kind \in {"jsonPath", "jsonArray"} -> buildJsonCondition(kind, g)
    [] kind = "in" -> <<"first", "second">>
    [] kind \in {"value", "subquery"} -> <<"value">>
    [] OTHER -> <<>>

\* Its SQL asks for something else: on PostgreSQL a path is taken for the name of a key,
\* "field->>'$.path'", NULL on every row; the element is looked for in the column itself,
\* whatever the path, by "@>" of PostgreSQL and json_each of SQLite.
Misread(kind, provider) ==
  \/ kind = "jsonPath" /\ provider = "postgresql"
  \/ kind = "jsonArray" /\ provider # "mysql"

\* The rows its SQL leaves, unless it is Misread: then the model does not tell.
Leaves(i, kind, g) ==
  IF NameIsString(g) THEN (IF kind = "isNotNull" THEN Rows ELSE {}) ELSE Meant(i, kind)

\* The subquery is SQL of GenerateSelect of the same provider, numbered from 1; argIndex
\* goes on behind its arguments.  Lists without elements yield no SQL.
buildCondition(s, i, kind, g) ==
  LET values == [k \in DOMAIN Asks(kind, g) |-> <<i, Asks(kind, g)[k]>>]
      own == Embed(s, Own(g.provider), values)
      placed == IF kind = "subquery" THEN [own EXCEPT !.next = @ + Len(values)]
                ELSE Place(s, g.style, values)
      refused == kind = "jsonArray" /\ g.provider = "sqlite" /\ g.dialect = "postgresql"
  IN  IF kind \in {"inEmpty", "notInEmpty"} THEN s
      ELSE Refused([placed EXCEPT !.parts = Append(@, Leaves(i, kind, g))], refused)

Joined(parts, operator) ==
  IF operator = "OR" THEN UNION parts ELSE {r \in Rows : \A p \in parts : r \in p}

\* What is generated from an argIndex on, and how it goes behind a statement.
From(next) == [Start EXCEPT !.next = next]
Add(s, piece) ==
  [s EXCEPT !.marks = @ \o piece.marks, !.args = @ \o piece.args, !.next = piece.next,
            !.parts = @ \o piece.parts, !.ok = @ /\ piece.ok]

\* The rows that a clause leaves.
Whole(w, parts) ==
  LET rows == Joined(Range(parts), w.operator) IN IF w.isNot THEN Rows \ rows ELSE rows

\* A clause from argIndex on: its conditions, which are numbers, their kinds in kinds, and its
\* groups, groups[<<id, next>>] being what there is of clause id from next on.
buildClause(w, groups, next, kinds, g) ==
  LET direct == FoldLeft(LAMBDA s, i : buildCondition(s, i, kinds[i], g), From(next), w.conditions)
      whole == FoldLeft(LAMBDA s, id : Add(s, groups[<<id, s.next>>]), direct, w.groups)
  IN  [whole EXCEPT !.parts = IF @ = <<>> THEN <<>> ELSE <<Whole(w, @)>>]

\* The clauses of q, with the groups some levels down; there are fewer levels than clauses.
buildWhereRecursive(q, g) ==
  LET build[levels \in 0..Len(q.clauses)] ==
        [x \in (DOMAIN q.clauses) \X Nat |->
           IF levels = 0 THEN From(x[2])
           ELSE buildClause(q.clauses[x[1]], build[levels - 1], x[2], q.kinds, g)]
  IN  build[Len(q.clauses)]

\* Mutant of Where: argIndex is handed over as a value.
Where_byValue(s, q, g) ==
  IF q.id = 0 THEN s ELSE [Add(s, buildWhereRecursive(q, g)[<<q.id, s.next>>]) EXCEPT !.next = s.next]

\* The clause q.id.  No WHERE for a nil clause, nor for one without SQL.
Where(s, q, g) == IF q.id = 0 THEN s ELSE Add(s, buildWhereRecursive(q, g)[<<q.id, s.next>>])

RowsOf(s) == IF s.parts = <<>> THEN Rows ELSE s.parts[1]

\* A value of the query itself rather than of a condition.
Value(name) == <<0, name>>

LimitOffset(s, style, tail) ==
  LET limited == Place(s, style, IF tail \in {"limit", "both"} THEN <<Value("limit")>> ELSE <<>>)
  IN  Place(limited, style, IF tail \in {"offset", "both"} THEN <<Value("offset")>> ELSE <<>>)

\* The values of an INSERT and of SET: some columns, and not only those of the key.
Set == <<Value("column1"), Value("column2")>>

\* The arguments of the CTEs of a query.
CTE == <<Value("cte")>>

\* The conditions of HAVING: "value" is compared with one, "in" with a list, which the
\* HAVING of these three drops; whether the word HAVING is left out then is up to the caller.
buildHaving(s, style, having) == Place(s, style, IF having = "value" THEN <<Value("having")>> ELSE <<>>)

-----------------------------------------------------------------------------
(* PostgresGenerator.                                                      *)

Postgres == For("postgresql", "$", "postgresql")

PostgresSelect(q, tail) == LimitOffset(Where(Start, q, Postgres), "$", tail)

PostgresSelectWithJoins(q, tail) == LimitOffset(Where(Start, q, Postgres), "$", tail)

\* argIndex starts at 1, whatever the CTEs bring.
PostgresSelectWithCTE(q, tail) ==
  LimitOffset(Where(Embed(Start, Own("postgresql"), CTE), q, Postgres), "$", tail)

\* No window function asks for an argument.  g is for the generators that delegate here.
PostgresSelectWithWindows(q, tail, g) == LimitOffset(Where(Start, q, g), "$", tail)

PostgresSelectWithAggregates(q, tail, having) ==
  LimitOffset(buildHaving(Where(Start, q, Postgres), "$", having), "$", tail)

PostgresAggregate(q, having) ==
  Refused(buildHaving(Where(Start, q, Postgres), "$", having), having = "in")

PostgresInsert == Place(Start, "$", Set)

PostgresUpsert == Place(Start, "$", Set)

PostgresUpdate(q) == Where(Place(Start, "$", Set), q, Postgres)

\* WHERE 1=0 unless there is a clause, which need not have SQL.
PostgresDelete(q) ==
  IF q.id = 0 THEN [Start EXCEPT !.parts = <<{}>>] ELSE Where(Start, q, Postgres)

-----------------------------------------------------------------------------
(* MySQLGenerator.  An OFFSET without LIMIT is refused by MySQL; it is     *)
(* given a LIMIT of 2^64 - 1, except by GenerateSelectWithJoins.           *)

MySQL == For("mysql", "?", "mysql")

\* GenerateUpdate and GenerateDelete call for placeholders and names of PostgreSQL.
MySQLWrites == For("mysql", "$", "postgresql")

MySQLSelect(q, tail) == LimitOffset(Where(Start, q, MySQL), "?", tail)

MySQLSelectWithJoins(q, tail) ==
  Refused(LimitOffset(Where(Start, q, MySQL), "?", tail), tail = "offset")

MySQLSelectWithCTE(q, tail) == LimitOffset(Where(Embed(Start, Own("mysql"), CTE), q, MySQL), "?", tail)

\* The table has the quotation marks of PostgreSQL.
MySQLSelectWithWindows(q, tail) == Refused(PostgresSelectWithWindows(q, tail, MySQLWrites), TRUE)

MySQLSelectWithAggregates(q, tail, having) ==
  LimitOffset(buildHaving(Where(Start, q, MySQL), "?", having), "?", tail)

MySQLAggregate(q, having) ==
  Refused(buildHaving(Where(Start, q, MySQL), "?", having), having = "in")

MySQLInsert == Place(Start, "?", Set)

MySQLUpsert == Place(Start, "?", Set)

MySQLUpdate(q) == Where(Place(Start, "?", Set), q, MySQLWrites)

MySQLDelete(q) ==
  IF q.id = 0 THEN [Start EXCEPT !.parts = <<{}>>] ELSE Where(Start, q, MySQLWrites)

-----------------------------------------------------------------------------
(* SQLiteGenerator.  An OFFSET without LIMIT is refused by SQLite.         *)

SQLite == For("sqlite", "?", "sqlite")
SQLiteAsPostgres == For("sqlite", "$", "postgresql")

SQLiteSelect(q, tail) ==
  Refused(LimitOffset(Where(Start, q, SQLiteAsPostgres), "?", tail), tail = "offset")

SQLiteSelectWithJoins(q, tail) ==
  Refused(LimitOffset(Where(Start, q, SQLite), "?", tail), tail = "offset")

SQLiteSelectWithCTE(q, tail) ==
  Refused(LimitOffset(Where(Embed(Start, Own("sqlite"), CTE), q, SQLite), "?", tail), tail = "offset")

SQLiteSelectWithWindows(q, tail) ==
  Refused(PostgresSelectWithWindows(q, tail, SQLiteAsPostgres), tail = "offset")

SQLiteSelectWithAggregates(q, tail, having) ==
  Refused(LimitOffset(buildHaving(Where(Start, q, SQLite), "?", having), "?", tail), tail = "offset")

SQLiteAggregate(q, having) ==
  Refused(buildHaving(Where(Start, q, SQLite), "?", having), having = "in")

SQLiteInsert == Place(Start, "?", Set)

SQLiteUpsert == Place(Start, "?", Set)

SQLiteUpdate(q) == Where(Place(Start, "?", Set), q, SQLiteAsPostgres)

SQLiteDelete(q) ==
  IF q.id = 0 THEN [Start EXCEPT !.parts = <<{}>>] ELSE Where(Start, q, SQLiteAsPostgres)

-----------------------------------------------------------------------------
(* The calls of a Generator: limit and offset, HAVING conditions or neither.*)

Tails == {"none", "limit", "offset", "both"}
Havings == {"none", "value", "in"}

Calls ==
  [verb : {"select", "joins", "cte", "windows"}, tail : Tails, having : {"none"}]
    \cup [verb : {"aggregates"}, tail : Tails, having : Havings]
    \cup [verb : {"aggregate"}, tail : {"none"}, having : Havings]
    \cup [verb : {"insert", "upsert", "update", "delete"}, tail : {"none"}, having : {"none"}]

GeneratePostgres(q, c) ==
  CASE c.verb = "select" -> PostgresSelect(q, c.tail)
    [] c.verb = "joins" -> PostgresSelectWithJoins(q, c.tail)
    [] c.verb = "cte" -> PostgresSelectWithCTE(q, c.tail)
    [] c.verb = "windows" -> PostgresSelectWithWindows(q, c.tail, Postgres)
    [] c.verb = "aggregates" -> PostgresSelectWithAggregates(q, c.tail, c.having)
    [] c.verb = "aggregate" -> PostgresAggregate(q, c.having)
    [] c.verb = "insert" -> PostgresInsert
    [] c.verb = "upsert" -> PostgresUpsert
    [] c.verb = "update" -> PostgresUpdate(q)
    [] c.verb = "delete" -> PostgresDelete(q)

GenerateMySQL(q, c) ==
  CASE c.verb = "select" -> MySQLSelect(q, c.tail)
    [] c.verb = "joins" -> MySQLSelectWithJoins(q, c.tail)
    [] c.verb = "cte" -> MySQLSelectWithCTE(q, c.tail)
    [] c.verb = "windows" -> MySQLSelectWithWindows(q, c.tail)
    [] c.verb = "aggregates" -> MySQLSelectWithAggregates(q, c.tail, c.having)
    [] c.verb = "aggregate" -> MySQLAggregate(q, c.having)
    [] c.verb = "insert" -> MySQLInsert
    [] c.verb = "upsert" -> MySQLUpsert
    [] c.verb = "update" -> MySQLUpdate(q)
    [] c.verb = "delete" -> MySQLDelete(q)

GenerateSQLite(q, c) ==
  CASE c.verb = "select" -> SQLiteSelect(q, c.tail)
    [] c.verb = "joins" -> SQLiteSelectWithJoins(q, c.tail)
    [] c.verb = "cte" -> SQLiteSelectWithCTE(q, c.tail)
    [] c.verb = "windows" -> SQLiteSelectWithWindows(q, c.tail)
    [] c.verb = "aggregates" -> SQLiteSelectWithAggregates(q, c.tail, c.having)
    [] c.verb = "aggregate" -> SQLiteAggregate(q, c.having)
    [] c.verb = "insert" -> SQLiteInsert
    [] c.verb = "upsert" -> SQLiteUpsert
    [] c.verb = "update" -> SQLiteUpdate(q)
    [] c.verb = "delete" -> SQLiteDelete(q)

\* NewGenerator: the generator of a provider.
Generate(provider, q, c) ==
  CASE provider = "postgresql" -> GeneratePostgres(q, c)
    [] provider = "mysql" -> GenerateMySQL(q, c)
    [] provider = "sqlite" -> GenerateSQLite(q, c)

-----------------------------------------------------------------------------
(* The drivers: lib/pq and PostgreSQL bind by number and want as many      *)
(* arguments as there are numbers; MySQL knows question marks only; SQLite *)
(* takes $1 for a name, gives each name and each question mark an index in *)
(* the order of the text, and go-sqlite3 leaves further arguments aside.   *)

SQLiteIndexes(marks) ==
  LET same(k) == {j \in 1..k : marks[j].style = "$" /\ marks[j].n = marks[k].n}
      first == [k \in DOMAIN marks |-> IF marks[k].style = "$" THEN Min(same(k)) ELSE k]
  IN  [k \in DOMAIN marks |-> Cardinality({first[j] : j \in 1..first[k]})]

Accepts(provider, s) ==
  /\ s.ok
  /\ CASE provider = "postgresql" ->
            /\ \A k \in DOMAIN s.marks : s.marks[k].style = "$"
            /\ {s.marks[k].n : k \in DOMAIN s.marks} = 1..Len(s.args)
       [] provider = "mysql" ->
            /\ \A k \in DOMAIN s.marks : s.marks[k].style = "?"
            /\ Len(s.marks) = Len(s.args)
       [] provider = "sqlite" -> \A n \in Range(SQLiteIndexes(s.marks)) : n <= Len(s.args)

\* Every placeholder is bound to the value that belongs there.
BoundRight(provider, s) ==
  LET index == IF provider = "sqlite" THEN SQLiteIndexes(s.marks)
               ELSE [k \in DOMAIN s.marks |-> IF provider = "mysql" THEN k ELSE s.marks[k].n]
  IN  \A k \in DOMAIN s.marks : s.args[index[k]] = s.marks[k].value
=============================================================================
