--------------------------- MODULE MCQueryLibrary ---------------------------
(* QueryLibrary for TLC.  Every method of the generators is called; limits, offsets and *)
(* HAVING in the combinations that number differently or that some database refuses.    *)
EXTENDS QueryLibrary

MCMixes == {<<"value", "isNotNull", "isNull">>, <<"value", "in">>, <<"jsonPath", "in">>, <<"jsonArray">>, <<"subquery">>}

Call(verb, tail, having) == [verb |-> verb, tail |-> tail, having |-> having]
Selects == {Call("select", "both", "none")}
Rowwise == {Call("update", "none", "none"), Call("delete", "none", "none")}
Everywhere ==
  Rowwise \cup
  {Call("joins", "both", "none"), Call("cte", "limit", "none"), Call("windows", "both", "none"),
   Call("aggregate", "none", "value"), Call("insert", "none", "none"), Call("upsert", "none", "none")}
\* With three conditions it is about how they are put together.
MCQueries == [mix \in MCMixes |->
  IF Len(mix) = 3
    THEN ({"postgresql", "sqlite"} \X Rowwise) \cup ({"postgresql", "mysql"} \X Selects)
    ELSE ({"postgresql", "mysql", "sqlite"} \X Everywhere)
           \cup ({"postgresql", "sqlite"} \X (Selects \cup {Call("aggregates", "both", "value")}))
           \cup ({"mysql"} \X {Call("select", "offset", "none"), Call("aggregates", "offset", "in")})]

MCOperators ==
  {<<"equals", "in", "equals">>, <<"search", "has">>, <<"hasEvery", "isEmpty">>, <<"inEmpty">>,
   <<"notInEmpty">>, <<"isNull">>, <<"some">>}

Ask(via, operations, dialects, data) ==
  [operation : operations, dialect : dialects, via : {via}, data : data]
Few ==
  Ask("service", {"FindMany", "Delete", "GroupBy"}, {"postgresql"}, {"columns"})
    \cup Ask("relation", {"update", "set"}, {"postgresql"}, {"columns"})
Many ==
  Ask("service", {"FindMany", "FindFirst", "Aggregate", "GroupBy", "Update", "Delete"},
      {"postgresql", "mysql", "sqlite"}, {"columns"})
    \cup Ask("service", {"Aggregate"}, {"postgresql"}, {"all"})
    \cup Ask("runtime", {"FindFirst"}, {"mysql"}, {"columns"})
    \cup Ask("service", {"Create", "CreateMany", "Upsert"}, {"postgresql", "mysql"}, {"columns", "none", "ragged"})
    \cup Ask("relation", {"create", "connect", "disconnect", "update", "delete", "set", "upsert"},
              {"postgresql", "mysql"}, {"columns"})
\* Again the nesting of three conditions for few of them.
MCRequests == [o \in MCOperators |-> IF Len(o) = 3 THEN Few ELSE Few \cup Many]
=============================================================================
