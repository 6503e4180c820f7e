--------------------------- MODULE QueryCompiler ---------------------------
(***************************************************************************)
(* The query builder and the SQLCompiler of v3: a program builds one query *)
(* call by call, and the compiler turns it into a statement of PostgreSQL, *)
(* MySQL or SQLite, which the drivers of SqlGenerator bind.  The filter is *)
(* compiled to text, and the text is read by the database: AND before OR,  *)
(* parentheses first.  No registry of relations is ever set, so that a     *)
(* query that includes relations does not compile.                         *)
(***************************************************************************)
EXTENDS SqlGenerator

CONSTANTS
  Operators, \* the operators of the conditions that programs use: sequences of Comparisons
  Requests,  \* Requests[ops]: what these programs ask the compiler for
  MaxOptions \* of Take, Skip, Cursor, Distinct, Having and OrderBy, the calls of one query

VARIABLES
  ops,       \* ops[i]: the operator of condition i
  query,     \* the query of the builder
  compiled   \* what became of it

compilerVars == <<ops, query, compiled>>

\* The operators of domain.Condition, those that compile alike together; lists that are
\* empty apart; "some", "every" and "none" are about relations.
Comparisons ==
  {"equals", "in", "inEmpty", "notInEmpty", "isNull", "isEmpty", "has", "hasEvery", "search", "some"}

Finds == {"FindMany", "FindFirst", "FindUnique"}
Reads == Finds \cup {"Aggregate", "GroupBy"}
Mutations == {"Create", "CreateMany", "Upsert", "Update", "UpdateMany", "Delete", "DeleteMany"}

\* A query or a mutation by way of the service or of the runtime, or a write to a relation.
RequestTypes ==
  [operation : Reads \cup Mutations, via : {"service", "runtime"},
   dialect : {"postgresql", "mysql", "sqlite"}, data : {"columns", "none", "ragged", "all"}]
    \cup [operation : {"create", "connect", "disconnect", "update", "delete", "set", "upsert"}, via : {"relation"},
          dialect : {"postgresql", "mysql", "sqlite"}, data : {"columns", "none"}]

ASSUME OperatorsAssumption ==
  Operators \subseteq Seq(Comparisons) /\ \A o \in Operators : Len(o) <= MaxConditions
ASSUME RequestsAssumption == \A o \in Operators : Requests[o] \subseteq RequestTypes
ASSUME OptionsAssumption == MaxOptions \in Nat

\* A query has its filter last, behind those nested in it and in one another; f.nested are
\* the places of filters before f.  An orderBy starts with a column that is none of those of
\* Distinct or GroupBy.
NoFilter == [conditions |-> <<>>, nested |-> <<>>, operator |-> "AND"]
NewQueryBuilder ==
  [filters |-> <<NoFilter>>, take |-> FALSE, skip |-> FALSE, cursor |-> FALSE,
   distinct |-> FALSE, having |-> FALSE, orderBy |-> FALSE]
FilterOf(q) == Last(q.filters)
Options == {"take", "skip", "cursor", "distinct", "having", "orderBy"}
OptionsOf(q) == {option \in Options : q[option]}

\* The condition that is not one of the filter: the cursor's, or being a child of the
\* record whose relation is written.
Extra == MaxConditions
ExtraRows == {r \in Rows : Extra \in r}

-----------------------------------------------------------------------------
(* Text of conditions: the sides of its ORs, each the parts of an AND, and *)
(* each part the rows that it leaves.                                      *)

Part(rows) == <<<<rows>>>>
RowsLeft(text) == UNION {Joined(Range(text[k]), "AND") : k \in DOMAIN text}
Parenthesised(text) == Part(RowsLeft(text))

Both(left, right) == Front(left) \o <<Last(left) \o Head(right)>> \o Tail(right)
JoinTexts(texts, operator) ==
  FoldLeft(LAMBDA t, u : IF operator = "OR" THEN t \o u ELSE Both(t, u), Head(texts), Tail(texts))

-----------------------------------------------------------------------------
(* Conditions.                                                             *)

\* Start of SqlGenerator, with whether the compiler returns an error.
Fresh == [marks |-> <<>>, args |-> <<>>, next |-> 1, parts |-> <<>>, ok |-> TRUE, error |-> FALSE]
Failed == [Fresh EXCEPT !.error = TRUE]

placeholder(dialect) == IF dialect = "postgresql" THEN "$" ELSE "?"

\* hasEvery and hasSome have no SQL but that of PostgreSQL, relation filters none at all.
Unsupported(op, dialect) == op = "some" \/ (op = "hasEvery" /\ dialect # "postgresql")

\* IN () is SQL to SQLite only, array_length to PostgreSQL; JSON_CONTAINS is not to SQLite,
\* and MySQL refuses the value that goes with it: it is bound as it is, not as JSON.  The
\* columns are of types that the operators take, and to_tsquery is given one word.
NotItsSQL(op, dialect) ==
  \/ op \in {"inEmpty", "notInEmpty"} /\ dialect # "sqlite"
  \/ op = "isEmpty" /\ dialect # "postgresql"
  \/ op = "has" /\ dialect # "postgresql"

Values(op) ==
  CASE op \in {"in", "hasEvery"} -> <<"first", "second">>
    [] op \in {"equals", "has", "search"} -> <<"value">>
    [] OTHER -> <<>>

buildConditionOf(s, i, dialect) ==
  LET placed == Place(s, placeholder(dialect), [k \in DOMAIN Values(ops[i]) |-> <<i, Values(ops[i])[k]>>])
  IN  Refused([placed EXCEPT !.parts = Append(@, Part(Meant(i, ops[i]))),
                             !.error = @ \/ Unsupported(ops[i], dialect)],
              NotItsSQL(ops[i], dialect))

\* Mutant of GroupNested: nested filters are joined as they are.
GroupNested_unwrapped(text) == text

\* How the text of a nested filter goes into that around it.
GroupNested(text) == Parenthesised(text)

AddText(s, piece) == [Add(s, piece) EXCEPT !.error = @ \/ piece.error]

\* The parts of a filter as one text.
WholeText(f, parts) ==
  JoinTexts(IF f.operator = "NOT" THEN [k \in DOMAIN parts |-> Part(Rows \ RowsLeft(parts[k]))] ELSE parts,
            f.operator)

\* A filter from argIndex on, nested[n][next] being what there is of the one at n from next
\* on.  The text of a filter is the one part it has then; none for an empty filter.
buildFilter(f, nested, next, dialect) ==
  LET direct == FoldLeft(LAMBDA s, i : buildConditionOf(s, i, dialect), [Fresh EXCEPT !.next = next], f.conditions)
      grouped(piece) == [piece EXCEPT !.parts = [k \in DOMAIN @ |-> GroupNested(@[k])]]
      whole == FoldLeft(LAMBDA s, n : AddText(s, grouped(nested[n][s.next])), direct, f.nested)
  IN  [whole EXCEPT !.parts = IF @ = <<>> THEN <<>> ELSE <<WholeText(f, @)>>]

\* The last of the filters, behind a statement; each comes after those nested in it.
buildWhereClause(s, filters, dialect) ==
  LET build[k \in 0..Len(filters)] ==
        IF k = 0 THEN <<>>
        ELSE LET before == build[k - 1]
             IN  Append(before, [next \in Nat |-> buildFilter(filters[k], before, next, dialect)])
  IN  AddText(s, Last(build[Len(filters)])[s.next])

Leaving(s) == IF s.parts = <<>> THEN Rows ELSE RowsLeft(s.parts[1])

\* " AND " and one more condition behind the text there is.
AndExtra(s, dialect) ==
  [Place(s, placeholder(dialect), <<<<Extra, "value">>>>)
     EXCEPT !.parts = <<JoinTexts(Append(@, Part(ExtraRows)), "AND")>>]

-----------------------------------------------------------------------------
(* The statements.                                                         *)

PageOf(q) == IF q.take /\ q.skip THEN "both" ELSE IF q.take THEN "limit" ELSE IF q.skip THEN "offset" ELSE "none"

\* LIMIT and OFFSET as asked; LIMIT 1 behind them if FindFirst was not given one.  MySQL
\* and SQLite want LIMIT first.
Page(s, q, dialect) ==
  Refused(LimitOffset(s, placeholder(dialect), PageOf(q)), q.skip /\ ~q.take /\ dialect # "postgresql")

\* DISTINCT ON is SQL of PostgreSQL, where an ORDER BY has to start with its columns.
compileSelect(q, dialect) ==
  LET where == buildWhereClause(Fresh, q.filters, dialect)
  IN  Refused(Page(IF q.cursor THEN AndExtra(where, dialect) ELSE where, q, dialect),
              q.distinct /\ (dialect # "postgresql" \/ q.orderBy))

\* Only the conditions of the filter itself make it have a WHERE.
WhereOfConditions(q, dialect) ==
  IF FilterOf(q).conditions = <<>> THEN Fresh ELSE buildWhereClause(Fresh, q.filters, dialect)

\* The data of a write are two columns, none, or, for many records, not the same for all;
\* those of an aggregation columns or "all".

\* The result of COUNT(*) is called count_*, which is no name.
compileAggregate(q, data, dialect) == Refused(WhereOfConditions(q, dialect), data = "all")

\* Only SQLite orders groups by a column that is not theirs.
compileGroupBy(q, data, dialect) ==
  LET having == IF q.having THEN <<Value("having")>> ELSE <<>>
  IN  Refused(Page(Place(WhereOfConditions(q, dialect), placeholder(dialect), having), q, dialect),
              data = "all" \/ (q.orderBy /\ dialect # "sqlite"))

CompileCreate(data, dialect) ==
  IF data = "none" THEN Failed ELSE Place(Fresh, placeholder(dialect), Set)

CompileCreateMany(data, dialect) ==
  IF data \in {"none", "ragged"} THEN Failed
  ELSE Place(Place(Fresh, placeholder(dialect), Set), placeholder(dialect), <<Value("column3"), Value("column4")>>)

\* Nothing to update makes it SET without columns.
CompileUpsert(data, dialect) ==
  Refused(Place(Place(Fresh, placeholder(dialect), Set), placeholder(dialect),
                IF data = "none" THEN <<>> ELSE <<Value("update")>>),
          data = "none")

CompileUpdate(q, data, dialect) ==
  IF data = "none" \/ FilterOf(q).conditions = <<>> THEN Failed
  ELSE buildWhereClause(Place(Fresh, placeholder(dialect), Set), q.filters, dialect)

CompileDelete(q, dialect) ==
  IF FilterOf(q).conditions = <<>> THEN Failed ELSE buildWhereClause(Fresh, q.filters, dialect)

Compile(q, request) ==
  LET op == request.operation
  IN  CASE op \in Finds -> compileSelect(q, request.dialect)
        [] op = "Aggregate" -> compileAggregate(q, request.data, request.dialect)
        [] op = "GroupBy" -> compileGroupBy(q, request.data, request.dialect)
        [] op = "Create" -> CompileCreate(request.data, request.dialect)
        [] op = "CreateMany" -> CompileCreateMany(request.data, request.dialect)
        [] op = "Upsert" -> CompileUpsert(request.data, request.dialect)
        [] op \in {"Update", "UpdateMany"} -> CompileUpdate(q, request.data, request.dialect)
        [] op \in {"Delete", "DeleteMany"} -> CompileDelete(q, request.dialect)

-----------------------------------------------------------------------------
(* Writes to the records of a relation, the rows that are children of a    *)
(* record: statements one after another, each with what it does to the rows*)
(* that its WHERE leaves.                                                  *)

Statement(s, effect) == [s |-> s, effect |-> effect, rows |-> Leaving(s)]

\* WHERE with the conditions of the write only.
OfConditions(start, q, dialect) ==
  buildWhereClause(start, <<[NoFilter EXCEPT !.conditions = FilterOf(q).conditions]>>, dialect)

\* WHERE with the foreign key first, and the conditions behind an AND.
OfChildren(start, q, dialect) ==
  LET key == [Place(start, placeholder(dialect), <<<<Extra, "value">>>>) EXCEPT !.parts = <<Part(ExtraRows)>>]
      all == OfConditions(key, q, dialect)
  IN  [all EXCEPT !.parts = <<JoinTexts(@, "AND")>>]

\* The foreign key is set to the record.
Attach(dialect) == Place(Fresh, placeholder(dialect), <<Value("parent")>>)

CompileNestedWrites(q, operation, data, dialect) ==
  LET conditions == FilterOf(q).conditions
      connect == Statement(OfConditions(Attach(dialect), q, dialect), "attach")
  IN  CASE operation = "create" ->
             <<Statement(IF data = "none" THEN Failed ELSE Place(Attach(dialect), placeholder(dialect), Set), "insert")>>
        [] operation = "connect" ->
             <<IF conditions = <<>> THEN Statement(Failed, "attach") ELSE connect>>
        [] operation = "disconnect" ->
             <<Statement(IF conditions = <<>> THEN Failed ELSE OfConditions(Fresh, q, dialect), "detach")>>
        [] operation = "update" ->
             <<Statement(IF data = "none" THEN Failed
                         ELSE OfChildren(Place(Fresh, placeholder(dialect), Set), q, dialect), "change")>>
        [] operation = "delete" -> <<Statement(OfChildren(Fresh, q, dialect), "delete")>>
        [] operation = "set" ->
             <<Statement(OfChildren(Fresh, NewQueryBuilder, dialect), "detach")>>
               \o (IF conditions = <<>> THEN <<>> ELSE <<connect>>)
        [] OTHER -> <<Statement(Failed, "insert")>>

\* The children after the statements, which run in one transaction.
ChildrenAfter(statements) ==
  FoldLeft(LAMBDA c, t : CASE t.effect = "attach" -> c \cup t.rows
                           [] t.effect \in {"detach", "delete"} -> c \ t.rows
                           [] OTHER -> c,
           ExtraRows, statements)

-----------------------------------------------------------------------------
(* What a program does.                                                    *)

NotSent == [request |-> "none"]

CompilerInit ==
  /\ ops \in Operators
  /\ query = NewQueryBuilder
  /\ compiled = NotSent

ConditionsOf(q) == UNION {Range(f.conditions) : f \in Range(q.filters)}

\* The conditions that a program has left.
Left == {i \in DOMAIN ops : i \notin ConditionsOf(query) /\ (query.cursor => i # Extra)}
NextLeft == Min(Left)

Building == compiled = NotSent /\ UNCHANGED <<ops, compiled>>

\* Where keeps the operator; And, Or and Not set that of the whole filter.
AddWhere(operator) ==
  /\ Building
  /\ Left # {}
  /\ LET filter == [FilterOf(query) EXCEPT !.conditions = Append(@, NextLeft), !.operator = operator]
     IN  query' = [query EXCEPT !.filters = Append(Front(@), filter)]

\* A program puts a filter of its own into the filter of GetQuery: Filter.NestedFilters.
Nest(operator, n) ==
  /\ Building
  /\ Cardinality(Left) >= n
  /\ LET own == [NoFilter EXCEPT !.conditions = [k \in 1..n |-> NextLeft + k - 1], !.operator = operator]
         filter == [FilterOf(query) EXCEPT !.nested = Append(@, Len(query.filters))]
     IN  query' = [query EXCEPT !.filters = Front(@) \o <<own, filter>>]

\* ... or wraps the whole in another: Filter{Operator: operator, NestedFilters: {filter}}.
Wrap(operator) ==
  /\ Building
  /\ FilterOf(query).conditions # <<>>
  /\ query' = [query EXCEPT !.filters =
                 Append(@, [NoFilter EXCEPT !.nested = <<Len(query.filters)>>, !.operator = operator])]

\* Take, Skip, Distinct, Having, Cursor and OrderBy.
Option(option) ==
  /\ Building
  /\ option \notin OptionsOf(query) /\ Cardinality(OptionsOf(query)) < MaxOptions
  /\ option = "cursor" => Extra \notin ConditionsOf(query)
  /\ query' = [query EXCEPT ![option] = TRUE]

\* The executor of v3/runtime asks for the first record of a query in a way of its own:
\* the Pagination of the query gives way to a Take.
Asking(request) ==
  IF request.via = "runtime" /\ request.operation = "FindFirst"
    THEN [query EXCEPT !.take = TRUE, !.skip = FALSE] ELSE query

\* A statement at the database: refused, bound wrong, or the rows that it leaves.
Outcome(request, s) ==
  [request |-> request, error |-> s.error, accepted |-> Accepts(request.dialect, s),
   bound |-> Accepts(request.dialect, s) /\ BoundRight(request.dialect, s), rows |-> Leaving(s)]

\* No program gives options to a write.
Execute(request) ==
  /\ compiled = NotSent
  /\ request.operation \in Reads \/ OptionsOf(query) = {}
  /\ compiled' = Outcome(request, Compile(Asking(request), request))
  /\ UNCHANGED <<ops, query>>

\* CompileNestedWrites: no statement is returned if one of them does not compile.
ExecuteNestedWrites(request) ==
  LET statements == CompileNestedWrites(query, request.operation, request.data, request.dialect)
      of(k) == Outcome(request, statements[k].s)
  IN  /\ compiled = NotSent
      /\ query = [NewQueryBuilder EXCEPT !.filters[1].conditions = FilterOf(query).conditions]
      /\ compiled' = [request |-> request, rows |-> Last(statements).rows,
                      error |-> \E k \in DOMAIN statements : of(k).error,
                      accepted |-> \A k \in DOMAIN statements : of(k).accepted,
                      bound |-> \A k \in DOMAIN statements : of(k).bound,
                      children |-> ChildrenAfter(statements)]
      /\ UNCHANGED <<ops, query>>

Executed ==
  /\ compiled # NotSent
  /\ compiled' = NotSent
  /\ UNCHANGED <<ops, query>>

CompilerNext ==
  \/ \E operator \in {"AND", "OR", "NOT"} :
       \/ AddWhere(operator)
       \/ \E n \in 1..2 : Nest(operator, n)
       \/ Wrap(operator)
  \/ \E option \in Options : Option(option)
  \/ \E request \in Requests[ops] :
       IF request.via = "relation" THEN ExecuteNestedWrites(request) ELSE Execute(request)
  \/ Executed

CompilerSpec == CompilerInit /\ [][CompilerNext]_compilerVars

-----------------------------------------------------------------------------
(* Properties.                                                             *)

Compiled == compiled # NotSent /\ ~compiled.error

\* The rows that a filter means, and those of all the filters of a query, one after the other.
MeansOf(f, before) ==
  LET parts == {Meant(i, ops[i]) : i \in Range(f.conditions)} \cup {before[n] : n \in Range(f.nested)}
  IN  CASE parts = {} -> Rows
        [] parts # {} /\ f.operator = "NOT" -> Rows \ UNION parts
        [] OTHER -> Joined(parts, f.operator)

Means(q) ==
  LET means[k \in 0..Len(q.filters)] ==
        IF k = 0 THEN <<>> ELSE LET before == means[k - 1] IN Append(before, MeansOf(q.filters[k], before))
  IN  Last(means[Len(q.filters)])

Op == compiled.request.operation
Dialect == compiled.request.dialect

\* What the database refuses with the compiler none the wiser: conditions that are not its
\* SQL, DISTINCT ON, and an ORDER BY that does not go with it or with GROUP BY, an OFFSET
\* without or before LIMIT, SET without columns, the name of COUNT(*).
KnownRefusal ==
  \/ \E i \in ConditionsOf(query) : NotItsSQL(ops[i], Dialect)
  \/ Op \in Finds /\ query.distinct /\ (Dialect # "postgresql" \/ query.orderBy)
  \/ Op = "GroupBy" /\ query.orderBy /\ Dialect # "sqlite"
  \/ Op \in Finds \cup {"GroupBy"} /\ query.skip /\ ~query.take /\ Dialect # "postgresql"
  \/ Op = "Upsert" /\ compiled.request.data = "none"
  \/ Op \in {"Aggregate", "GroupBy"} /\ compiled.request.data = "all"

\* What the compiler gets wrong: it puts the cursor behind the last side of an OR; and
\* Aggregate and GroupBy look for nested filters only where there are conditions.
Miscompiled ==
  \/ Op \in Finds /\ query.cursor /\ FilterOf(query).operator = "OR"
       /\ Len(FilterOf(query).conditions) + Len(FilterOf(query).nested) > 1
  \/ Op \in {"Aggregate", "GroupBy"} /\ FilterOf(query).conditions = <<>> /\ FilterOf(query).nested # <<>>

\* The rows of a query or a write.
RowsAsAsked ==
  CASE Op \in Finds -> compiled.rows = Means(query) \cap (IF query.cursor THEN ExtraRows ELSE Rows)
    [] Op \in {"Aggregate", "GroupBy", "Update", "UpdateMany", "Delete", "DeleteMany"} ->
         compiled.rows = Means(query)
    [] OTHER -> TRUE

\* Updates and deletes of a relation stay with the children; the others leave the children
\* that they are to leave.
ChildrenAsAsked ==
  LET meant == Means(query)
  IN  CASE Op = "connect" -> compiled.children = ExtraRows \cup meant
        [] Op = "disconnect" -> compiled.children = ExtraRows \ meant
        [] Op = "set" -> compiled.children = IF FilterOf(query).conditions = <<>> THEN {} ELSE meant
        [] Op = "update" -> compiled.rows = ExtraRows \cap meant
        [] Op = "delete" -> compiled.rows = ExtraRows \cap meant /\ compiled.children = ExtraRows \ meant
        [] OTHER -> TRUE

\* Apart from these, what the compiler makes of a query is accepted, binds every placeholder
\* to its value, and leaves the rows that the filter means, however it is nested and
\* whatever LIMIT, OFFSET, cursor, ORDER BY or HAVING comes with it.
CompiledAsAsked ==
  Compiled /\ ~KnownRefusal =>
    /\ compiled.accepted /\ compiled.bound
    /\ ~Miscompiled => IF compiled.request.via = "relation" THEN ChildrenAsAsked ELSE RowsAsAsked
=============================================================================
