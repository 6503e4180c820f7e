--------------------------- MODULE MCWhereBuilder ---------------------------
(* WhereBuilder for TLC: programs that delete. *)
EXTENDS WhereBuilder
MCMixes == {<<"inEmpty", "value">>, <<"isNotNull", "notInEmpty">>}
MCQueries == [mix \in MCMixes |->
  {"postgresql", "mysql", "sqlite"} \X [verb : {"delete"}, tail : {"none"}, having : {"none"}]]
=============================================================================
