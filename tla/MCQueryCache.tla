---------------------------- MODULE MCQueryCache ----------------------------
(* QueryCache for TLC: a query of one table, another that prints alike     *)
(* ("1", "23" and "12", "3"), and one that joins a second table.         *)
EXTENDS QueryCache, TLC
CONSTANTS c1, c2

Where(table, args) == [sql |-> <<"SELECT", table>>, args |-> args, reads |-> {table}]
Join == [sql |-> <<"SELECT", "users", "JOIN", "posts">>, args |-> << <<"1">> >>,
         reads |-> {"users", "posts"}]

TwoTables == {"users", "posts"}
OneTable == {"users"}
Alike == {Where("users", << <<"1">>, <<"2", "3">> >>), Where("users", << <<"1", "2">>, <<"3">> >>)}
AlikeAndJoin == Alike \cup {Join}
OneQuery == {Where("users", << <<"1">> >>)}
Symmetry == Permutations({c1, c2})
=============================================================================
