------------------------------ MODULE MCDbPush ------------------------------
(* DbPush for TLC: three schemas around one model, and catalogs made by hand. *)
EXTENDS DbPush

CONSTANTS p1, p2
Symmetry == Permutations({p1, p2})

MCLower == [n \in {"user", "Post", "_prisma_migrations"} |-> IF n = "Post" THEN "post" ELSE n]

Field(name, type, arity, attrs, default) ==
  [name |-> name, type |-> type, arity |-> arity, attrs |-> attrs, default |-> default]
Id == Field("id", "Int", "required", {"id", "default"}, "autoincrement")
Model(name, fields) == [name |-> name, fields |-> fields]

\* MySQL rejects a default that is a bare word, so that a push with one never succeeds there.
MCSchemas == [prov \in {"postgresql", "mysql", "sqlite"} |-> [
  unique |-> {Model("user", <<Id, Field("email", "String", "required", {"unique"}, "none")>>)},
  plain |-> {Model("user", <<Field("id", "Int", "required", {"id"}, "none"),
                   Field("age", "Int", "optional", {"default"}, "5"),
                   Field("tags", "String", "list", {}, "none")>>)},
  related |-> {Model("user", <<Id, Field("email", "String", "optional", {}, "none"),
                   Field("age", "String", "required", {"default"}, IF prov = "mysql" THEN "none" ELSE "x"),
                   Field("posts", "Post", "list", {}, "none")>>),
   Model("Post", <<Id, Field("published", "Boolean", "required", {"default"}, "true"),
                   Field("author", "user", "required", {"relation"}, "none")>>)}]]

Col(type, null) == [type |-> type, nullable |-> null, default |-> "none", auto |-> FALSE]
IntType == [postgresql |-> "integer", mysql |-> "int", sqlite |-> "INTEGER"]
TextType == [postgresql |-> "text", mysql |-> "varchar(255)", sqlite |-> "TEXT"]

History(prov) ==
  "_prisma_migrations" :> [cols |-> [migration_name |-> Col(TextType[prov], FALSE)],
                           pk |-> <<>>, idxs |-> <<>>, fks |-> {}]

\* A table user whose unique index has a name of its own, and a table that refers to it, for which
\* MySQL needs an index.  On SQLite the reference may leave out the column.
HandMade(prov, to) ==
  [user |-> [cols |-> [id |-> Col(IntType[prov], FALSE), email |-> Col(TextType[prov], FALSE),
                       age |-> Col(IntType[prov], TRUE)],
             pk |-> <<"id">>, fks |-> {},
             idxs |-> <<"email_key">> :> [cols |-> <<"email">>, unique |-> TRUE]],
   Post |-> [cols |-> [user_id |-> Col(IntType[prov], TRUE)], pk |-> <<>>,
             idxs |-> IF prov = "mysql" THEN <<"user_id">> :> [cols |-> <<"user_id">>, unique |-> FALSE] ELSE <<>>,
             fks |-> {[column |-> "user_id", table |-> "user", to |-> to]}]]

MCFirstCatalogs == [prov \in {"postgresql", "mysql", "sqlite"} |->
  {IF prov = "postgresql" THEN History(prov) ELSE <<>>,
   HandMade(prov, IF prov = "sqlite" THEN "NULL" ELSE "id")}]
=============================================================================
