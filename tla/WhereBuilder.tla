--------------------------- MODULE WhereBuilder ---------------------------
(***************************************************************************)
(* The WhereBuilder of query/builder: builders that a program calls in any *)
(* order, puts into one another with AND, OR and NOT, and hands to a query.*)
(* Builders and clauses are pointers in the code: a builder that has groups*)
(* gives away its own clause, and Build adds to it.  The statements are    *)
(* those of SqlGenerator.                                                  *)
(***************************************************************************)
EXTENDS SqlGenerator

CONSTANTS
  MaxBuilders,
  Mixes,     \* the kinds of conditions the programs use: sequences of Kinds
  Queries,   \* Queries[mix]: what these programs send, a provider and a call of its generator
  MaxCalls   \* calls in a behaviour that change a builder, those for conditions aside

ASSUME MixesAssumption == Mixes \subseteq Seq(Kinds) /\ \A mix \in Mixes : Len(mix) <= MaxConditions
ASSUME QueriesAssumption == \A mix \in Mixes : Queries[mix] \subseteq {"postgresql", "mysql", "sqlite"} \X Calls
ASSUME BuildersAssumption == MaxBuilders \in Nat
ASSUME CallsAssumption == MaxCalls \in Nat

VARIABLES
  kinds,      \* kinds[i]: what condition i compares with
  conditions, \* conditions[b], operator[b]: the fields of builder b
  operator,
  clause,     \* clause[b]: its whereClause, 0 for nil
  clauses,    \* the clauses that builders hold
  calls,
  asked,      \* asked[b]: what its calls mean, each the rows it leaves; a history variable
  given,      \* builders that were put into others while they had groups
  reused,     \* one of these was called, put or sent after that
  sent        \* the statement the database is at

clauseVars == <<conditions, operator, clause, clauses>>
builderVars == <<kinds, clauseVars, calls, asked, given, reused, sent>>

Builders == 1..MaxBuilders
Nil == 0
NoStatement == [verb |-> "none"]

Init ==
  /\ kinds \in Mixes
  /\ conditions = [b \in Builders |-> <<>>] /\ operator = [b \in Builders |-> "AND"]
  /\ clause = [b \in Builders |-> Nil] /\ clauses = <<>>
  /\ calls = 0
  /\ asked = [b \in Builders |-> {}]
  /\ given = {} /\ reused = FALSE
  /\ sent = NoStatement

\* The rows that the calls of a builder leave, together.
Asked(b) == IF asked[b] = {} THEN Rows ELSE Joined(asked[b], operator[b])

-----------------------------------------------------------------------------
(* Build and the clauses.                                                  *)

\* Mutant of Build: a builder that has groups leaves its own conditions out.
Build_groupsOnly(b, before) ==
  IF clause[b] # Nil THEN [id |-> clause[b], clauses |-> before]
  ELSE IF conditions[b] = <<>> THEN [id |-> Nil, clauses |-> before]
  ELSE [id |-> Len(before) + 1,
        clauses |-> Append(before, [conditions |-> conditions[b], groups |-> <<>>,
                                    operator |-> operator[b], isNot |-> FALSE])]

\* The clause that Build returns, and the clauses after it: the conditions are added to
\* the groups at every call, or copied to a clause of their own.
Build(b, before) ==
  IF clause[b] # Nil
    THEN [id |-> clause[b],
          clauses |-> [before EXCEPT ![clause[b]].conditions = @ \o conditions[b]]]
  ELSE IF conditions[b] = <<>> THEN [id |-> Nil, clauses |-> before]
  ELSE [id |-> Len(before) + 1,
        clauses |-> Append(before, [conditions |-> conditions[b], groups |-> <<>>,
                                    operator |-> operator[b], isNot |-> FALSE])]

\* The clauses of builders put together in a group, those without any left out.
Group(args, op) ==
  LET add(acc, c) == LET built == Build(c, acc.clauses)
                     IN  [groups |-> IF built.id = Nil THEN acc.groups ELSE Append(acc.groups, built.id),
                          clauses |-> built.clauses]
      all == FoldLeft(add, [groups |-> <<>>, clauses |-> clauses], args)
  IN  Append(all.clauses, [conditions |-> <<>>, groups |-> all.groups, operator |-> op, isNot |-> FALSE])

\* w.whereClause.AddGroup.
AddGroup(b, id, before) ==
  IF clause[b] # Nil
    THEN /\ clauses' = [before EXCEPT ![clause[b]].groups = Append(@, id)]
         /\ UNCHANGED clause
    ELSE /\ clauses' = Append(before, [conditions |-> <<>>, groups |-> <<id>>,
                                       operator |-> "AND", isNot |-> FALSE])
         /\ clause' = [clause EXCEPT ![b] = Len(before) + 1]

\* The clauses below a clause, with itself.
Below(id) ==
  LET down[levels \in 0..Len(clauses)] ==
        IF levels = 0 THEN {id}
        ELSE down[levels - 1] \cup UNION {Range(clauses[g].groups) : g \in down[levels - 1]}
  IN  down[Len(clauses)]

-----------------------------------------------------------------------------
(* The calls of a program.                                                 *)

\* NewWhereBuilder: builders are numbered in the order in which they are called first.
Called(b) == conditions[b] # <<>> \/ clause[b] # Nil \/ operator[b] = "OR"
Created == {b \in Builders : \A c \in 1..(b - 1) : Called(c)}

\* A program calls when its query is answered.
Counted == sent = NoStatement /\ calls < MaxCalls /\ calls' = calls + 1

Uses(used) == reused' = (reused \/ used \cap given # {})

Distinct(S, n) == {t \in [1..n -> S] : IsInjective(t)}

\* Equals, In, IsNull, JsonPath, AddSubqueryCondition and the like; the programs use the
\* conditions in turn, each for one builder.
AddCondition(b) ==
  LET i == 1 + Cardinality(UNION {Range(conditions[c]) : c \in Builders})
  IN  /\ sent = NoStatement
      /\ i \in DOMAIN kinds
      /\ conditions' = [conditions EXCEPT ![b] = Append(@, i)]
      /\ asked' = [asked EXCEPT ![b] = @ \cup {Meant(i, kinds[i])}]
      /\ Uses({b})
      /\ UNCHANGED <<kinds, operator, clause, clauses, calls, given, sent>>

SetOperator(b) ==
  /\ Counted
  /\ operator[b] = "AND"
  /\ operator' = [operator EXCEPT ![b] = "OR"]
  /\ Uses({b})
  /\ UNCHANGED <<kinds, conditions, clause, clauses, asked, given, sent>>

\* No program puts a builder into itself, not by way of others either: no Build would end.
Apart(b, c) == b # c /\ (clause[b] # Nil /\ clause[c] # Nil => clause[b] \notin Below(clause[c]))

PutInto(b, args) ==
  /\ \A c \in Range(args) : Apart(b, c)
  /\ given' = given \cup {c \in Range(args) : clause[c] # Nil}
  /\ Uses({b} \cup Range(args))
  /\ UNCHANGED <<kinds, conditions, operator, sent>>

\* w.AND(args...) and w.OR(args...).
ANDOR(b, args, op) ==
  LET parts == {Asked(c) : c \in {c \in Range(args) : asked[c] # {}}}
  IN  /\ Counted
      /\ PutInto(b, args)
      /\ LET after == Group(args, op) IN AddGroup(b, Len(after), after)
      /\ asked' = [asked EXCEPT ![b] = IF parts = {} THEN @ ELSE @ \cup {Joined(parts, op)}]

\* w.NOT(c): the negation is set on the clause that Build returned.
NOT(b, c) ==
  LET built == Build(c, clauses)
  IN  /\ Counted
      /\ PutInto(b, <<c>>)
      /\ IF built.id = Nil THEN UNCHANGED <<clause, clauses>>
         ELSE AddGroup(b, built.id, [built.clauses EXCEPT ![built.id].isNot = TRUE])
      /\ asked' = [asked EXCEPT ![b] = IF asked[c] = {} THEN @ ELSE @ \cup {Rows \ Asked(c)}]

\* The rows are not told where a condition of the program is Misread.
Misreads(provider) == \E i \in DOMAIN kinds : Misread(kinds[i], provider)
Untold == {"untold"}

\* A generated statement at the database.
AtDatabase(b, provider, call, s) ==
  [verb |-> call.verb, tail |-> call.tail, having |-> call.having, by |-> b, provider |-> provider,
   accepted |-> Accepts(provider, s), bound |-> Accepts(provider, s) /\ BoundRight(provider, s),
   rows |-> IF Misreads(provider) THEN Untold ELSE RowsOf(s)]

\* A query with w.Build(): the generated statement goes to the database.
Send(b, provider, call) ==
  LET built == Build(b, clauses)
      kept == IF clause[b] # Nil THEN built.clauses ELSE clauses
  IN  /\ sent = NoStatement
      /\ call.verb \in {"insert", "upsert"} => built.id = Nil  \* these have no WHERE
      /\ clauses' = kept
      /\ IF kept = clauses THEN UNCHANGED calls ELSE Counted
      /\ Uses({b})
      /\ sent' = AtDatabase(b, provider, call,
                             Generate(provider, [id |-> built.id, clauses |-> built.clauses, kinds |-> kinds], call))
      /\ UNCHANGED <<kinds, conditions, operator, clause, asked, given>>

Answered ==
  /\ sent # NoStatement
  /\ sent' = NoStatement
  /\ UNCHANGED <<kinds, clauseVars, calls, asked, given, reused>>

Next ==
  \/ \E b \in Created :
       \/ AddCondition(b)
       \/ SetOperator(b)
       \/ \E n \in 0..2 : \E args \in Distinct(Created, n), op \in {"AND", "OR"} : ANDOR(b, args, op)
       \/ \E c \in Created : NOT(b, c)
       \/ \E query \in Queries[kinds] : Send(b, query[1], query[2])
  \/ Answered

Spec == Init /\ [][Next]_builderVars

-----------------------------------------------------------------------------
(* Properties.                                                             *)

Sent == sent # NoStatement
Has(kind) == \E i \in DOMAIN kinds : kinds[i] = kind
Writes == {"update", "delete"}

\* What the generators get wrong on their own: subqueries and, on PostgreSQL, CTEs bring
\* numbers that are used a second time ("Update argIndex based on number of args in
\* subquery" moves the numbers behind them only; on SQLite a second subquery, or SET and
\* the conditions of an UPDATE, use the same numbers); MySQL is sent placeholders of PostgreSQL;
\* SQLite is sent JSON operators of PostgreSQL; OFFSET without LIMIT; an empty HAVING.
Misgenerated ==
  \/ Has("subquery") /\ sent.provider # "mysql"
  \/ sent.provider = "postgresql" /\ sent.verb = "cte"
  \/ sent.provider = "mysql" /\ sent.verb \in Writes \cup {"windows"}
  \/ sent.provider = "mysql" /\ sent.verb = "joins" /\ sent.tail = "offset"
  \/ sent.provider = "sqlite" /\ (Has("jsonArray") \/ sent.tail = "offset")
  \/ sent.verb = "aggregate" /\ sent.having = "in"

\* Apart from these, and from an INSERT or UPDATE of no column and an upsert of none but the
\* key, the database accepts every statement, and binds every placeholder to the value it
\* was generated for: groups, limits, HAVING and SET share one numbering.
StatementsBind == Sent /\ ~Misgenerated => sent.accepted /\ sent.bound

\* Where groups are mixed with SetOperator the operator is lost, and where a list is empty
\* or a group has nothing in it the condition is; a builder with groups is shared by those
\* it was put into.
Plain(b) ==
  /\ ~reused
  /\ clause[b] # Nil => operator[b] = "AND"
  /\ ~Has("inEmpty") /\ ~Has("notInEmpty")
  /\ asked[b] = {} => clause[b] = Nil

\* Apart from that, and from JSON conditions that the database takes for others (Misread), a
\* statement that is bound right touches exactly the rows that the calls of its builder
\* meant, however they were nested and however often it was built before; a DELETE that
\* nothing was asked of touches none.
TouchesWhatWasAsked ==
  Sent /\ sent.bound /\ sent.provider # "mysql" /\ sent.verb \notin {"insert", "upsert"}
       /\ ~Misreads(sent.provider) /\ (\A b \in Builders : Plain(b)) =>
    sent.rows = IF sent.verb = "delete" /\ asked[sent.by] = {} THEN {} ELSE Asked(sent.by)

=============================================================================
