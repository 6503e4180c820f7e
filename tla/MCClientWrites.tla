--------------------------- MODULE MCClientWrites ---------------------------
(* ClientWrites for TLC. *)
EXTENDS ClientWrites
CONSTANTS c1, c2, w1, w2

\* A User and a Post, and what may be added to them: fields without the column of their
\* name (@map, an enum), a name that makes two methods one, the only DateTime, columns of
\* other types than their fields (BigInt, Bytes), and one or two relations between them.
W(word) == <<<<word>>>>
Field(feature, model, name, type) ==
  [feature |-> feature, model |-> model, name |-> name, type |-> type,
   column |-> <<>>, key |-> <<>>]
MCLines == <<
  Field("base", "user", W("id"), "Int"),
  [Field("unstored", "user", W("nick"), "String") EXCEPT !.column = W("nickname")],
  Field("base", "user", W("name"), "String"),
  Field("base", "user", W("active"), "Boolean"),
  Field("wide", "user", W("photo"), "Bytes"),
  Field("clash", "user", <<<<"name">>, <<"not">>>>, "String"),
  Field("since", "user", <<<<"created", "at">>>>, "DateTime"),
  Field("unstored", "user", W("role"), "Role"),
  Field("posts", "user", W("posts"), "post"),
  Field("edited", "user", W("edited"), "post"),
  Field("base", "post", W("id"), "Int"),
  Field("base", "post", <<<<"page", "views">>>>, "Int"),
  Field("base", "post", W("title"), "String"),
  Field("base", "post", W("rating"), "Float"),
  Field("wide", "post", W("likes"), "BigInt"),
  Field("unstored", "post", W("kind"), "Role"),
  [Field("posts", "post", W("user"), "user") EXCEPT !.key = <<<<"user", "id">>>>],
  Field("posts", "post", <<<<"user", "id">>>>, "Int"),
  [Field("edited", "post", W("editor"), "user") EXCEPT !.key = <<<<"editor", "id">>>>],
  Field("edited", "post", <<<<"editor", "id">>>>, "Int") >>
=============================================================================
