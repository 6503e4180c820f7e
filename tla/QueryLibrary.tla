---------------------------- MODULE QueryLibrary ----------------------------
(***************************************************************************)
(* What a program does with the query libraries: it builds queries and     *)
(* sends them (WhereBuilder), or builds a query of v3 and has it compiled  *)
(* (QueryCompiler).  These share nothing, as generators and compilers are  *)
(* without state.  So one behaviour follows one of them.                   *)
(***************************************************************************)
EXTENDS WhereBuilder, QueryCompiler

VARIABLE part \* "query" or "compiler"

libraryVars == <<part, builderVars, compilerVars>>

LibraryInit ==
  /\ Init
  /\ CompilerInit
  /\ part \in {"query", "compiler"}
  /\ part # "query" => kinds = CHOOSE mix \in Mixes : TRUE
  /\ part # "compiler" => ops = CHOOSE o \in Operators : TRUE

LibraryNext ==
  /\ \/ part = "query" /\ Next /\ UNCHANGED compilerVars
     \/ part = "compiler" /\ CompilerNext /\ UNCHANGED builderVars
  /\ UNCHANGED part

LibrarySpec == LibraryInit /\ [][LibraryNext]_libraryVars
=============================================================================
