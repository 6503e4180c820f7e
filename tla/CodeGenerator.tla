--------------------------- MODULE CodeGenerator ---------------------------
(***************************************************************************)
(* generator/codegen: the client that is generated from a schema, namely   *)
(* the columns and the Go types of its structs, the relations its model    *)
(* clients are given, the methods of its builders and whether it compiles; *)
(* beside it the columns that migrate/converter gives the tables of the    *)
(* same schema.  Tables have the name of their model; a name is the        *)
(* sequence of its parts, each the sequence of its words: "createdAt" is   *)
(* one part of two words, "created_at" two parts.                          *)
(* Nothing sets the Arity of a parsed field (psl/parsing/v2/ast/field.go), *)
(* so that what `?` and `[]` say is lost on both: no list, no optional.    *)
(***************************************************************************)
EXTENDS Naturals, FiniteSets, SequencesExt

CONSTANT Lines \* the fields a schema may have, in the order of the file

Scalars == {"Int", "BigInt", "String", "Boolean", "DateTime", "Float", "Decimal", "Json", "Bytes"}
Models == {f.model : f \in Range(Lines)}
Features == {f.feature : f \in Range(Lines)}

\* The members of a sequence that are in a set, in their order: SelectSeq for a set, as the
\* recursive function that the proofs expand.
Among(s, S) ==
  LET kept[i \in 0..Len(s)] ==
        IF i = 0 THEN <<>> ELSE IF s[i] \in S THEN Append(kept[i - 1], s[i]) ELSE kept[i - 1]
  IN  kept[Len(s)]

\* The fields of a model in the schema with these features.
FieldsOf(schema, m) == Among(Lines, {f \in Range(Lines) : f.model = m /\ f.feature \in schema})
Fields(schema, m) == Range(FieldsOf(schema, m))

\* An enum is neither; the Go types of enums and relations are pointers.
IsScalar(f) == f.type \in Scalars
IsRelation(f) == ~IsScalar(f) /\ f.type \in Models
IsPointer(f) == ~IsScalar(f)

\* The fields of a file, where every model begins with one that has a column.
ASSUME LinesAssumption ==
  /\ Lines \in Seq(Range(Lines)) /\ Lines # <<>>
  /\ \A m \in Models : \E f \in Range(Lines) : f.model = m /\ f.feature = "base" /\ IsScalar(f)

Name(parts) == [i \in DOMAIN parts |-> <<parts[i]>>]

toSnakeCase == [name \in {f.name : f \in Range(Lines)} |-> FlattenSeq([i \in DOMAIN name |-> Name(name[i])])]

\* convertModelToTable: enums and relations have no column, and @map names it.
TableColumns(schema, m) ==
  LET stored == Among(FieldsOf(schema, m), {f \in Range(Lines) : IsScalar(f)})
  IN  [i \in DOMAIN stored |-> IF stored[i].column # <<>> THEN stored[i].column
                               ELSE toSnakeCase[stored[i].name]]

\* Mutant of StructColumn: the tag has the name of the field.
StructColumn_unchanged(f) == f.name

\* The column a field of the struct stands for: that of its tag, which heeds no @map, or
\* what the executor makes of the name in Go, where a part is one word.
StructColumn(f) == IF IsScalar(f) THEN toSnakeCase[f.name] ELSE f.name

-----------------------------------------------------------------------------
(* Relations.                                                              *)

\* The argument of @relation, or a field of the own model named after the other; <<>> if
\* there is none.
findForeignKeyFromRelation(schema, f) ==
  LET named == Among(FieldsOf(schema, f.model),
                     {g \in Range(Lines) : g.name \in {<<<<f.type, "id">>>>, Name(<<f.type, "id">>)}})
  IN  IF f.key # <<>> THEN f.key ELSE IF named = <<>> THEN <<>> ELSE named[1].name

\* The relations of a model: those with a key, in a table that is the model's own where
\* no relation is a list.
Relations(schema, m) ==
  {[name |-> f.name, table |-> m, key |-> findForeignKeyFromRelation(schema, f)] :
     f \in {g \in Fields(schema, m) : IsRelation(g) /\ findForeignKeyFromRelation(schema, g) # <<>>}}

\* The relations that a model client is given: RelatedTable is the table of the key.
RelationMetadata(schema, m) == {[r EXCEPT !.key = toSnakeCase[r.key]] : r \in Relations(schema, m)}

-----------------------------------------------------------------------------
(* The Go code.  A method is <<prefix, field, suffix>>, so that two of one *)
(* builder may have the same name; one of no field has the name "".        *)

\* mapPrismaTypeToGo; an enum or a model has its own name.
GoType(f) ==
  CASE f.type = "Int" -> "int"
    [] f.type = "BigInt" -> "int64"
    [] f.type \in {"String", "Decimal"} -> "string"
    [] f.type = "Boolean" -> "bool"
    [] f.type = "DateTime" -> "time.Time"
    [] f.type = "Float" -> "float64"
    [] f.type = "Json" -> "interface{}"
    [] f.type = "Bytes" -> "[]byte"
    [] IsRelation(f) -> "*struct"
    [] OTHER -> "*enum"

IsNumeric(f) == GoType(f) \in {"int", "int64", "float64"}

Fixed(words) == {<<Name(word), [name |-> <<>>], <<>>>> : word \in words}
Named(prefix, f, suffix) == <<Name(prefix), f, Name(suffix)>>

\* The filters of a field.
Equality(f) == {Named(<<>>, f, <<"equals">>), Named(<<>>, f, <<"not", "equals">>)}
Comparison(f) ==
  {Named(<<>>, f, s) : s \in IF IsNumeric(f) THEN {<<"greater", "than">>, <<"less", "than">>} ELSE {}}
TextFilter(f) == {Named(<<>>, f, s) : s \in IF GoType(f) = "string" THEN {<<"contains">>} ELSE {}}
NullFilter(f) ==
  {Named(<<>>, f, s) : s \in IF IsPointer(f) THEN {<<"is", "null">>, <<"is", "not", "null">>} ELSE {}}

Orders(f) == {Named(<<"order", "by">>, f, <<d>>) : d \in {"asc", "desc"}}

\* Of a QueryBuilder.
QueryMethods(fields) ==
  Fixed({<<"where">>, <<"where", "condition">>, <<"where", "conditions">>, <<"limit">>, <<"offset">>,
         <<"execute">>, <<"execute", "first">>, <<"join">>, <<"include">>, <<"select">>})
    \cup UNION {Equality(f) \cup Comparison(f) \cup TextFilter(f) \cup NullFilter(f) \cup Orders(f) : f \in fields}

\* Of the builders that it leads to, each with its way back.
IncludeMethods(fields) == Fixed({<<"done">>}) \cup {Named(<<>>, f, <<>>) : f \in {g \in fields : IsRelation(g)}}
SelectMethods(fields) == Fixed({<<"done">>}) \cup {Named(<<>>, f, <<>>) : f \in {g \in fields : ~IsRelation(g)}}

UpdateMethods(fields) == Fixed({<<"where">>, <<"execute">>}) \cup {Named(<<"set">>, f, <<>>) : f \in fields}

DeleteMethods(fields) ==
  Fixed({<<"execute">>}) \cup UNION {Equality(f) \cup Comparison(f) : f \in fields}

\* Of a model client.
Totals == {"sum", "avg"}
Extremes == {"min", "max"}
Aggregates(f) == {Named(<<of>>, f, s) : of \in Totals \cup Extremes, s \in {<<>>, <<"where">>}}

ModelMethods(fields) ==
  Fixed({<<"where">>, <<"subquery">>, <<"find", "many">>, <<"find", "many", "where">>, <<"query">>,
         <<"find", "first">>, <<"find", "first", "where">>, <<"create">>, <<"update">>, <<"delete">>,
         <<"count">>, <<"count", "where">>})
    \cup UNION {Aggregates(f) : f \in {g \in fields : IsNumeric(g)}}

MethodName(method) == method[1] \o method[2].name \o method[3]

\* models.go: a struct, whose fields differ in their names from its only method.
ModelCompiles(fields) == \A f \in fields : f.name # Name(<<"table", "name">>)

\* client.go imports "time", which only the type of a DateTime field uses; the methods
\* of a type differ in their names.
Compiles(schema) ==
  /\ \E m \in Models : \E f \in Fields(schema, m) : GoType(f) = "time.Time"
  /\ \A m \in Models :
       LET fields == Fields(schema, m)
       IN  /\ ModelCompiles(fields)
           /\ \A methods \in {ModelMethods(fields), QueryMethods(fields), IncludeMethods(fields),
                              SelectMethods(fields), UpdateMethods(fields), DeleteMethods(fields)} :
                Cardinality({MethodName(q) : q \in methods}) = Cardinality(methods)
=============================================================================
