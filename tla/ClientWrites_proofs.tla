------------------------- MODULE ClientWrites_proofs -------------------------
(***************************************************************************)
(* Proofs about programs that work with the library, for any goroutines,   *)
(* pool, records, providers and schemas: what the writes of the executor   *)
(* leave stored is what they return, and what a generated client asks for  *)
(* succeeds and holds the columns of its own fields.  A behaviour follows  *)
(* the executor, a transaction or a generated client, and the others stand *)
(* still, so that each is proved by itself.                                *)
(***************************************************************************)
EXTENDS ClientWrites, FiniteSetTheorems, WellFoundedInduction, TLAPS

-----------------------------------------------------------------------------
(* The executor.                                                           *)

\* The points at which a Create, or the Create of a record of a CreateMany, can be.
Creating == {"begin", "insert", "lastId", "nestedWrites", "readBack", "again", "deferred"}

\* A transaction is that of a call with nested writes, which creates one record; without one
\* PostgreSQL creates several records in one statement, and the others one after the other.
CallFits(c) ==
  /\ asked[c] > 0 => left[c] > 0 /\ left[c] <= asked[c]
  /\ asked[c] = 0 => left[c] = 0
  /\ nested[c] => asked[c] = 1 /\ pc[c] \notin {"insertMany", "write", "find", "again"}
  /\ inTx[c] => nested[c] /\ pc[c] \in Creating \ {"begin", "again"}
  /\ pc[c] \in {"nestedWrites", "deferred"} => inTx[c]
  /\ pc[c] = "begin" => nested[c]
  /\ nested[c] /\ pc[c] \in {"insert", "lastId", "readBack"} => inTx[c]
  /\ pc[c] \in Creating => asked[c] > 0
  /\ pc[c] \in {"idle", "write", "find"} => asked[c] = 0
  /\ provider = "postgresql" /\ pc[c] \in Creating => asked[c] = 1
  /\ provider = "postgresql" /\ pc[c] = "readBack" => inTx[c]
  /\ pc[c] = "insertMany" => provider = "postgresql" /\ left[c] = asked[c]
  /\ pc[c] = "again" => provider = "postgresql"

\* What is stored at each point: the records of the loop so far, with the current one after
\* its INSERT, and nothing while a transaction is open.
RowsOf(c) ==
  /\ inTx[c] => stored[c] = 0
  /\ pc[c] \in {"idle", "begin", "insert", "insertMany", "write"} => stored[c] = asked[c] - left[c]
  /\ pc[c] \in {"lastId", "readBack", "again"} /\ ~inTx[c] => stored[c] = asked[c] - left[c] + 1
  /\ pc[c] = "done" =>
       /\ answer[c] = "error" /\ Plain(c) => stored[c] = asked[c] - left[c]
       /\ answer[c] = "panic" /\ Plain(c) => stored[c] = asked[c] - left[c] + 1
       /\ answer[c] = "record" /\ (Plain(c) \/ asked[c] > 1) => stored[c] = asked[c]

CallInv(c) == CallFits(c) /\ RowsOf(c)
ExecutorInv == TypeOK /\ \A c \in Clients : CallInv(c)

\* The types, without the limit of the pool.
ExecutorTypes ==
  /\ provider \in Providers
  /\ pc \in [Clients -> PCs]
  /\ asked \in [Clients -> 0..MaxRecords] /\ left \in [Clients -> 0..MaxRecords]
  /\ nested \in [Clients -> BOOLEAN] /\ hasId \in [Clients -> BOOLEAN]
  /\ err \in [Clients -> BOOLEAN] /\ inTx \in [Clients -> BOOLEAN]
  /\ answer \in [Clients -> {"none", "record", "error", "panic"}]
  /\ pending \in [Clients -> 0..1] /\ stored \in [Clients -> 0..(MaxRecords + 1)]

OpenTxs == {c \in Clients : inTx[c]}

\* A step that opens no transaction keeps to the limit of the pool, and BeginTx asks for a free
\* connection.
LEMMA PoolKept ==
  ASSUME TypeOK, [Next]_vars
  PROVE  Cardinality(OpenTxs') <= PoolSize
<1>0. IsFiniteSet(OpenTxs) /\ Cardinality(OpenTxs) \in Nat /\ Cardinality(OpenTxs) <= PoolSize /\ PoolSize \in Nat
  BY ClientsAssumption, PoolAssumption, FS_Subset, FS_CardinalityType DEF OpenTxs, TypeOK
<1>1. ASSUME NEW c \in Clients, BeginTx(c) PROVE Cardinality(OpenTxs') <= PoolSize
  <2>1. OpenTxs' = OpenTxs \cup {c}
    BY <1>1 DEF BeginTx, OpenTxs, TypeOK
  <2>2. Cardinality(OpenTxs) < PoolSize
    BY <1>1 DEF BeginTx, FreeConnection, OpenTxs
  <2>3. PICK n \in Nat : n = Cardinality(OpenTxs)
    BY <1>0
  <2>4. Cardinality(OpenTxs') = n \/ Cardinality(OpenTxs') = n + 1
    BY <1>0, <2>1, <2>3, FS_AddElement
  <2> QED
    BY <1>0, <2>2, <2>3, <2>4
<1>2. CASE OpenTxs' \subseteq OpenTxs
  <2>1. Cardinality(OpenTxs') <= Cardinality(OpenTxs) /\ Cardinality(OpenTxs') \in Nat
    BY <1>0, <1>2, FS_Subset, FS_CardinalityType
  <2> QED
    BY <1>0, <2>1
<1>3. CASE UNCHANGED inTx
  BY <1>2, <1>3 DEF OpenTxs
<1>4. ASSUME NEW c \in Clients, Deferred(c) PROVE OpenTxs' \subseteq OpenTxs
  BY <1>4 DEF Deferred, OpenTxs, TypeOK
<1> QED
  BY <1>1, <1>2, <1>3, <1>4 DEF Next, Connected, vars, Call, CallMany, CallWrite, Start, BeginFails, InsertFails,
     LastInsertId, NestedWrites, Insert, ReadBack, InsertAgain, InsertMany, Write, FindBack

\* A step of one goroutine leaves the calls of the others alone.
LEMMA OthersKept ==
  ASSUME NEW c \in Clients, \A d \in Clients : CallInv(d), CallInv(c)', UNCHANGED provider,
         \A d \in Clients : d # c =>
           /\ pc'[d] = pc[d] /\ asked'[d] = asked[d] /\ left'[d] = left[d] /\ nested'[d] = nested[d]
           /\ answer'[d] = answer[d] /\ inTx'[d] = inTx[d] /\ stored'[d] = stored[d]
  PROVE  \A d \in Clients : CallInv(d)'
<1> SUFFICES ASSUME NEW d \in Clients, d # c PROVE CallInv(d)'
  OBVIOUS
<1>1. CallInv(d)
  OBVIOUS
<1> QED
  BY <1>1 DEF CallInv, CallFits, RowsOf, Plain

\* What a step of c may touch.
Touches(c) ==
  \A d \in Clients : d # c =>
    /\ pc'[d] = pc[d] /\ asked'[d] = asked[d] /\ left'[d] = left[d] /\ nested'[d] = nested[d]
    /\ answer'[d] = answer[d] /\ inTx'[d] = inTx[d] /\ stored'[d] = stored[d]

LEMMA ExecutorStep ==
  ASSUME ExecutorTypes, \A c \in Clients : CallInv(c), Next
  PROVE  ExecutorTypes' /\ \A c \in Clients : CallInv(c)'
<1>0. MaxRecords \in Nat /\ MaxRecords >= 1
  BY RecordsAssumption
<1>1. ASSUME NEW c \in Clients, NEW withNested \in NestedCalls, NEW withId \in BOOLEAN, Call(c, withNested, withId)
      PROVE  ExecutorTypes' /\ CallInv(c)' /\ Touches(c) /\ UNCHANGED provider
  <2>0. CallInv(c) /\ UNCHANGED provider
    BY <1>1 DEF Call, Start
  <2>1. Touches(c)
    BY <1>1 DEF Touches, ExecutorTypes, Call, Start, GoTo, Answer
  <2>2. ExecutorTypes'
    BY <1>0, <1>1, <2>0, NestedAssumption DEF ExecutorTypes, PCs, CallInv, CallFits, RowsOf, Creating, Call, Start, GoTo, Answer
  <2>3. CallInv(c)'
    BY <1>0, <1>1, <2>0 DEF ExecutorTypes, CallInv, CallFits, RowsOf, Plain, Creating, Call, Start, GoTo, Answer
  <2> QED
    BY <2>0, <2>1, <2>2, <2>3
<1>2. ASSUME NEW c \in Clients, NEW records \in 1..MaxRecords, CallMany(c, records)
      PROVE  ExecutorTypes' /\ CallInv(c)' /\ Touches(c) /\ UNCHANGED provider
  <2>0. CallInv(c) /\ UNCHANGED provider
    BY <1>2 DEF CallMany, Start
  <2>1. Touches(c)
    BY <1>2 DEF Touches, ExecutorTypes, CallMany, Start, GoTo, Answer
  <2>2. ExecutorTypes'
    BY <1>0, <1>2, <2>0 DEF ExecutorTypes, PCs, CallInv, CallFits, RowsOf, Creating, CallMany, Start, GoTo, Answer
  <2>3. CallInv(c)'
    BY <1>0, <1>2, <2>0 DEF ExecutorTypes, CallInv, CallFits, RowsOf, Plain, Creating, CallMany, Start, GoTo, Answer
  <2> QED
    BY <2>0, <2>1, <2>2, <2>3
<1>3. ASSUME NEW c \in Clients, CallWrite(c)
      PROVE  ExecutorTypes' /\ CallInv(c)' /\ Touches(c) /\ UNCHANGED provider
  <2>0. CallInv(c) /\ UNCHANGED provider
    BY <1>3 DEF CallWrite, Start
  <2>1. Touches(c)
    BY <1>3 DEF Touches, ExecutorTypes, CallWrite, Start, GoTo, Answer
  <2>2. ExecutorTypes'
    BY <1>0, <1>3, <2>0 DEF ExecutorTypes, PCs, CallInv, CallFits, RowsOf, Creating, CallWrite, Start, GoTo, Answer
  <2>3. CallInv(c)'
    BY <1>0, <1>3, <2>0 DEF ExecutorTypes, CallInv, CallFits, RowsOf, Plain, Creating, CallWrite, Start, GoTo, Answer
  <2> QED
    BY <2>0, <2>1, <2>2, <2>3
<1>4. ASSUME NEW c \in Clients, BeginTx(c)
      PROVE  ExecutorTypes' /\ CallInv(c)' /\ Touches(c) /\ UNCHANGED provider
  <2>0. CallInv(c) /\ UNCHANGED provider
    BY <1>4 DEF BeginTx
  <2>1. Touches(c)
    BY <1>4 DEF Touches, ExecutorTypes, BeginTx, At, GoTo
  <2>2. ExecutorTypes'
    BY <1>0, <1>4, <2>0 DEF ExecutorTypes, PCs, CallInv, CallFits, RowsOf, Creating, BeginTx, At, GoTo
  <2>3. CallInv(c)'
    BY <1>0, <1>4, <2>0 DEF ExecutorTypes, CallInv, CallFits, RowsOf, Plain, Creating, BeginTx, At, GoTo
  <2> QED
    BY <2>0, <2>1, <2>2, <2>3
<1>5. ASSUME NEW c \in Clients, BeginFails(c)
      PROVE  ExecutorTypes' /\ CallInv(c)' /\ Touches(c) /\ UNCHANGED provider
  <2>0. CallInv(c) /\ UNCHANGED provider
    BY <1>5 DEF BeginFails
  <2>1. Touches(c)
    BY <1>5 DEF Touches, ExecutorTypes, BeginFails, At, Return, GoTo, Answer
  <2>2. ExecutorTypes'
    BY <1>0, <1>5, <2>0 DEF ExecutorTypes, PCs, CallInv, CallFits, RowsOf, Creating, BeginFails, At, Return, GoTo, Answer
  <2>3. CallInv(c)'
    BY <1>0, <1>5, <2>0 DEF ExecutorTypes, CallInv, CallFits, RowsOf, Plain, Creating, BeginFails, At, Return, GoTo, Answer
  <2> QED
    BY <2>0, <2>1, <2>2, <2>3
<1>6. ASSUME NEW c \in Clients, Insert(c)
      PROVE  ExecutorTypes' /\ CallInv(c)' /\ Touches(c) /\ UNCHANGED provider
  <2>0. CallInv(c) /\ UNCHANGED provider
    BY <1>6 DEF Insert
  <2>1. Touches(c)
    BY <1>6 DEF Touches, ExecutorTypes, Insert, At, GoTo
  <2>2. ExecutorTypes'
    <3>1. stored'[c] \in 0..(MaxRecords + 1)
      BY <1>0, <1>6, <2>0 DEF ExecutorTypes, CallInv, CallFits, RowsOf, Creating, Insert, At
    <3> QED
      BY <1>0, <1>6, <3>1 DEF ExecutorTypes, PCs, Insert, At, GoTo
  <2>3. CallInv(c)'
    BY <1>0, <1>6, <2>0 DEF ExecutorTypes, CallInv, CallFits, RowsOf, Plain, Creating, Insert, At, GoTo
  <2> QED
    BY <2>0, <2>1, <2>2, <2>3
<1>7. ASSUME NEW c \in Clients, InsertFails(c)
      PROVE  ExecutorTypes' /\ CallInv(c)' /\ Touches(c) /\ UNCHANGED provider
  <2>0. CallInv(c) /\ UNCHANGED provider
    BY <1>7 DEF InsertFails
  <2>1. Touches(c)
    BY <1>7 DEF Touches, ExecutorTypes, InsertFails, At, Return, GoTo, Answer
  <2>2. ExecutorTypes'
    BY <1>0, <1>7, <2>0 DEF ExecutorTypes, PCs, CallInv, CallFits, RowsOf, Creating, InsertFails, At, Return, GoTo, Answer
  <2>3. CallInv(c)'
    BY <1>0, <1>7, <2>0 DEF ExecutorTypes, CallInv, CallFits, RowsOf, Plain, Creating, InsertFails, At, Return, GoTo, Answer
  <2> QED
    BY <2>0, <2>1, <2>2, <2>3
<1>8. ASSUME NEW c \in Clients, LastInsertId(c)
      PROVE  ExecutorTypes' /\ CallInv(c)' /\ Touches(c) /\ UNCHANGED provider
  <2>0. CallInv(c) /\ UNCHANGED provider
    BY <1>8 DEF LastInsertId
  <2>1. Touches(c)
    BY <1>8 DEF Touches, ExecutorTypes, LastInsertId, At, GoTo
  <2>2. ExecutorTypes'
    BY <1>0, <1>8, <2>0 DEF ExecutorTypes, PCs, CallInv, CallFits, RowsOf, Creating, LastInsertId, At, GoTo
  <2>3. CallInv(c)'
    BY <1>0, <1>8, <2>0 DEF ExecutorTypes, CallInv, CallFits, RowsOf, Plain, Creating, LastInsertId, At, GoTo
  <2> QED
    BY <2>0, <2>1, <2>2, <2>3
<1>9. ASSUME NEW c \in Clients, NestedWrites(c)
      PROVE  ExecutorTypes' /\ CallInv(c)' /\ Touches(c) /\ UNCHANGED provider
  <2>0. CallInv(c) /\ UNCHANGED provider
    BY <1>9 DEF NestedWrites
  <2>1. Touches(c)
    BY <1>9 DEF Touches, ExecutorTypes, NestedWrites, At, Return, GoTo, Answer
  <2>2. ExecutorTypes'
    BY <1>0, <1>9, <2>0 DEF ExecutorTypes, PCs, CallInv, CallFits, RowsOf, Creating, NestedWrites, At, Return, GoTo, Answer
  <2>3. CallInv(c)'
    BY <1>0, <1>9, <2>0 DEF ExecutorTypes, CallInv, CallFits, RowsOf, Plain, Creating, NestedWrites, At, Return, GoTo, Answer
  <2> QED
    BY <2>0, <2>1, <2>2, <2>3
<1>10. ASSUME NEW c \in Clients, ReadBack(c)
      PROVE  ExecutorTypes' /\ CallInv(c)' /\ Touches(c) /\ UNCHANGED provider
  <2>0. CallInv(c) /\ UNCHANGED provider
    BY <1>10 DEF ReadBack
  <2>1. Touches(c)
    BY <1>10 DEF Touches, ExecutorTypes, ReadBack, At, Return, GoTo, Answer
  <2>2. ExecutorTypes'
    BY <1>0, <1>10, <2>0 DEF ExecutorTypes, PCs, CallInv, CallFits, RowsOf, Creating, ReadBack, At, Return, GoTo, Answer
  <2>3. CallInv(c)'
    BY <1>0, <1>10, <2>0 DEF ExecutorTypes, CallInv, CallFits, RowsOf, Plain, Creating, ReadBack, At, Return, GoTo, Answer
  <2> QED
    BY <2>0, <2>1, <2>2, <2>3
<1>11. ASSUME NEW c \in Clients, InsertAgain(c)
      PROVE  ExecutorTypes' /\ CallInv(c)' /\ Touches(c) /\ UNCHANGED provider
  <2>0. CallInv(c) /\ UNCHANGED provider
    BY <1>11 DEF InsertAgain
  <2>1. Touches(c)
    BY <1>11 DEF Touches, ExecutorTypes, InsertAgain, At, Return, GoTo, Answer
  <2>2. ExecutorTypes'
    <3>1. stored'[c] \in 0..(MaxRecords + 1)
      BY <1>0, <1>11, <2>0 DEF ExecutorTypes, CallInv, CallFits, RowsOf, Creating, InsertAgain, At
    <3> QED
      BY <1>0, <1>11, <3>1 DEF ExecutorTypes, PCs, InsertAgain, At, Return, GoTo, Answer
  <2>3. CallInv(c)'
    BY <1>0, <1>11, <2>0 DEF ExecutorTypes, CallInv, CallFits, RowsOf, Plain, Creating, InsertAgain, At, Return, GoTo, Answer
  <2> QED
    BY <2>0, <2>1, <2>2, <2>3
<1>12. ASSUME NEW c \in Clients, InsertMany(c)
      PROVE  ExecutorTypes' /\ CallInv(c)' /\ Touches(c) /\ UNCHANGED provider
  <2>0. CallInv(c) /\ UNCHANGED provider
    BY <1>12 DEF InsertMany
  <2>1. Touches(c)
    BY <1>12 DEF Touches, ExecutorTypes, InsertMany, At, GoTo, Answer
  <2>2. ExecutorTypes'
    BY <1>0, <1>12, <2>0 DEF ExecutorTypes, PCs, CallInv, CallFits, RowsOf, Creating, InsertMany, At, GoTo, Answer
  <2>3. CallInv(c)'
    BY <1>0, <1>12, <2>0 DEF ExecutorTypes, CallInv, CallFits, RowsOf, Plain, Creating, InsertMany, At, GoTo, Answer
  <2> QED
    BY <2>0, <2>1, <2>2, <2>3
<1>13. ASSUME NEW c \in Clients, Write(c)
      PROVE  ExecutorTypes' /\ CallInv(c)' /\ Touches(c) /\ UNCHANGED provider
  <2>0. CallInv(c) /\ UNCHANGED provider
    BY <1>13 DEF Write
  <2>1. Touches(c)
    BY <1>13 DEF Touches, ExecutorTypes, Write, At, Return, GoTo, Answer
  <2>2. ExecutorTypes'
    BY <1>0, <1>13, <2>0 DEF ExecutorTypes, PCs, CallInv, CallFits, RowsOf, Creating, Write, At, Return, GoTo, Answer
  <2>3. CallInv(c)'
    BY <1>0, <1>13, <2>0 DEF ExecutorTypes, CallInv, CallFits, RowsOf, Plain, Creating, Write, At, Return, GoTo, Answer
  <2> QED
    BY <2>0, <2>1, <2>2, <2>3
<1>14. ASSUME NEW c \in Clients, FindBack(c)
      PROVE  ExecutorTypes' /\ CallInv(c)' /\ Touches(c) /\ UNCHANGED provider
  <2>0. CallInv(c) /\ UNCHANGED provider
    BY <1>14 DEF FindBack
  <2>1. Touches(c)
    BY <1>14 DEF Touches, ExecutorTypes, FindBack, At, Return, GoTo, Answer
  <2>2. ExecutorTypes'
    BY <1>0, <1>14, <2>0 DEF ExecutorTypes, PCs, CallInv, CallFits, RowsOf, Creating, FindBack, At, Return, GoTo, Answer
  <2>3. CallInv(c)'
    BY <1>0, <1>14, <2>0 DEF ExecutorTypes, CallInv, CallFits, RowsOf, Plain, Creating, FindBack, At, Return, GoTo, Answer
  <2> QED
    BY <2>0, <2>1, <2>2, <2>3
<1>15. ASSUME NEW c \in Clients, Deferred(c)
      PROVE  ExecutorTypes' /\ CallInv(c)' /\ Touches(c) /\ UNCHANGED provider
  <2>0. CallInv(c) /\ UNCHANGED provider
    BY <1>15 DEF Deferred
  <2>1. Touches(c)
    BY <1>15 DEF Touches, ExecutorTypes, Deferred, At, GoTo
  <2>2. ExecutorTypes'
    BY <1>0, <1>15, <2>0 DEF ExecutorTypes, PCs, CallInv, CallFits, RowsOf, Creating, Deferred, At, GoTo
  <2>3. CallInv(c)'
    BY <1>0, <1>15, <2>0 DEF ExecutorTypes, CallInv, CallFits, RowsOf, Plain, Creating, Deferred, At, GoTo
  <2> QED
    BY <2>0, <2>1, <2>2, <2>3
<1> QED
  BY <1>1, <1>2, <1>3, <1>4, <1>5, <1>6, <1>7, <1>8, <1>9, <1>10, <1>11, <1>12, <1>13, <1>14, <1>15, OthersKept DEF Next, Connected, Touches

-----------------------------------------------------------------------------
(* The generated client.                                                   *)

Ops == {"findFirst", "findMany", "query", "queryFirst", "create", "update", "delete", "count",
        "Raw", "RawScan", "RawExec", "RawQuery"} \cup Totals \cup Extremes

LEMMA CallsAreRequests ==
  ASSUME NEW x \in Calls, NEW found \in BOOLEAN
  PROVE  [x EXCEPT !.found = found].op \in Ops
<1>1. \A op, m, clause, f : [Request(op, m, clause, f) EXCEPT !.found = found].op = op
  BY DEF Request
<1>2. \A op, m : op \in Ops => \A y \in Bare(op, m) \cup Filtering(op, m) : [y EXCEPT !.found = found].op \in Ops
  BY <1>1 DEF Bare, Filtering
<1>3. \A op, m : op \in Ops => \A y \in QueryCalls(op, m) : [y EXCEPT !.found = found].op \in Ops
  <2> SUFFICES ASSUME NEW op \in Ops, NEW m, NEW y \in QueryCalls(op, m)
               PROVE  [y EXCEPT !.found = found].op \in Ops
    OBVIOUS
  <2>1. CASE y \in Bare(op, m) \cup Filtering(op, m)
    BY <1>2, <2>1
  <2>2. CASE \E clause, f : y = Request(op, m, clause, f)
    BY <1>1, <2>2
  <2>3. CASE \E i : y = [Request(op, m, "none", None) EXCEPT !.include = i]
    BY <2>3 DEF Request
  <2>4. \/ y \in Bare(op, m) \cup Filtering(op, m)
        \/ \E clause, f : y = Request(op, m, clause, f)
        \/ \E i : y = [Request(op, m, "none", None) EXCEPT !.include = i]
    BY DEF QueryCalls, Bare
  <2> QED
    BY <2>1, <2>2, <2>3, <2>4
<1>4. PICK m \in Models : x \in FindManyCalls(m) \cup FindFirstCalls(m) \cup WhereCalls(m) \cup ExecuteCalls(m)
        \cup ExecuteFirstCalls(m) \cup CreateCalls(m) \cup UpdateCalls(m) \cup DeleteCalls(m) \cup CountCalls(m)
        \cup AggregateCalls(m) \cup RawCalls(m)
  BY DEF Calls
<1>5. CASE x \in FindManyCalls(m) \cup FindFirstCalls(m) \cup WhereCalls(m) \cup CountCalls(m)
  BY <1>2, <1>5 DEF FindManyCalls, FindFirstCalls, WhereCalls, CountCalls, Ops
<1>6. CASE x \in ExecuteCalls(m) \cup ExecuteFirstCalls(m)
  BY <1>3, <1>6 DEF ExecuteCalls, ExecuteFirstCalls, Ops
<1>7. CASE x \in CreateCalls(m) \cup RawCalls(m)
  BY <1>2, <1>7 DEF CreateCalls, RawCalls, Ops
<1>8. CASE x \in UpdateCalls(m) \cup DeleteCalls(m) \cup AggregateCalls(m)
  <2>1. \E op \in Ops : \E clause, f : x = Request(op, m, clause, f)
    BY <1>8 DEF UpdateCalls, DeleteCalls, AggregateCalls, Bare, Ops
  <2> QED
    BY <1>1, <2>1
<1> QED
  BY <1>4, <1>5, <1>6, <1>7, <1>8

\* Where the value of a field is to come from.
OwnColumn(m, f) ==
  IF Has(m, toSnakeCase[f.name]) /\ f.type # "Bytes" THEN <<m, toSnakeCase[f.name]>> ELSE <<>>

LEMMA BytesAreScalar ==
  ASSUME NEW f, IsScalar(f)
  PROVE  GoType(f) = "[]byte" <=> f.type = "Bytes"
<1>0. f.type \in Scalars /\ ~IsRelation(f)
  BY DEF IsScalar, IsRelation
<1>1. CASE f.type = "Bytes"
  BY <1>0, <1>1 DEF GoType
<1>2. CASE f.type # "Bytes"
  BY <1>0, <1>2 DEF GoType, Scalars
<1> QED
  BY <1>1, <1>2

LEMMA ScannedField ==
  ASSUME NEW m, NEW from, NEW f \in DOMAIN from, IsScalar(f), Scanned(m, from).result = "record"
  PROVE  Scanned(m, from).from[f] = IF f.type = "Bytes" THEN <<>> ELSE from[f]
<1>1. Scanned(m, from).from = [g \in DOMAIN from |-> IF GoType(g) = "[]byte" THEN <<>> ELSE from[g]]
  BY DEF Scanned, Record, Only
<1> QED
  BY <1>1, BytesAreScalar

LEMMA OwnByName ==
  ASSUME NEW m, Scanned(m, ByName(m)).result = "record", NEW f \in Fields(generated, m), Unmapped(f)
  PROVE  Scanned(m, ByName(m)).from[f] = OwnColumn(m, f)
<1>1. IsScalar(f) /\ StructColumn(f) = toSnakeCase[f.name]
  BY DEF Unmapped, StructColumn
<1>2. DOMAIN ByName(m) = Fields(generated, m)
      /\ ByName(m)[f] = IF Has(m, toSnakeCase[f.name]) THEN <<m, toSnakeCase[f.name]>> ELSE <<>>
  BY <1>1 DEF ByName
<1>3. Scanned(m, ByName(m)).from[f] = IF f.type = "Bytes" THEN <<>> ELSE ByName(m)[f]
  BY <1>1, <1>2, ScannedField
<1> QED
  BY <1>2, <1>3 DEF OwnColumn

LEMMA OwnByPosition ==
  ASSUME NEW m, tables[m] = StructColumns(m), Scanned(m, ByPosition(m)).result = "record",
         NEW f \in Fields(generated, m), Unmapped(f)
  PROVE  Scanned(m, ByPosition(m)).from[f] = OwnColumn(m, f)
<1> DEFINE fields == FieldsOf(generated, m)
           i == CHOOSE k \in DOMAIN fields : fields[k] = f
<1>1. IsScalar(f) /\ StructColumn(f) = toSnakeCase[f.name]
  BY DEF Unmapped, StructColumn
<1>2. i \in DOMAIN fields /\ fields[i] = f
  BY DEF Fields, Range
<1>3. i \in DOMAIN tables[m] /\ tables[m][i] = toSnakeCase[f.name]
  BY <1>1, <1>2 DEF StructColumns
<1>4. Has(m, toSnakeCase[f.name])
  BY <1>3 DEF Has, Range
<1>5. DOMAIN ByPosition(m) = Fields(generated, m) /\ ByPosition(m)[f] = <<m, toSnakeCase[f.name]>>
  BY <1>3 DEF ByPosition
<1>6. Scanned(m, ByPosition(m)).from[f] = IF f.type = "Bytes" THEN <<>> ELSE ByPosition(m)[f]
  BY <1>1, <1>5, ScannedField
<1> QED
  BY <1>4, <1>5, <1>6 DEF OwnColumn

\* Which calls answer with a record, and how it was scanned.
LEMMA RecordsAnswered ==
  ASSUME NEW c, c.op \in Ops, Answers(c).result = "record"
  PROVE  \/ c.op \in {"findFirst", "update"} /\ Answers(c) = Scanned(c.model, ByName(c.model))
         \/ /\ c.op = "update" /\ database = "postgresql"
            /\ Answers(c) = Scanned(c.model, ByPosition(c.model))
         \/ c.op = "update" /\ database # "postgresql" /\ c.clause = "setAll"
<1>0. Accepts(c) \in BOOLEAN
  BY DEF Accepts
<1>1. Accepts(c)
  BY <1>0 DEF Answers, Only
<1>2. \A result : Only(result).result = result
  BY DEF Only
<1>3. CASE c.op = "findFirst"
  BY <1>1, <1>2, <1>3 DEF Answers, AnswersFirst, Totals, Extremes
<1>4. CASE c.op = "update"
  <2>1. Answers(c) = AnswersUpdate(c)
    BY <1>1, <1>4 DEF Answers, Totals, Extremes
  <2>2. CASE database = "postgresql"
    BY <1>2, <1>4, <2>1, <2>2 DEF AnswersUpdate
  <2>3. CASE database # "postgresql" /\ c.clause # "setAll"
    <3>1. Answers(c) = AnswersFirst(c)
      BY <2>1, <2>3 DEF AnswersUpdate
    <3> QED
      BY <1>2, <1>4, <3>1 DEF AnswersFirst
  <2> QED
    BY <1>4, <2>2, <2>3
<1>5. CASE c.op \in {"findMany", "query"}
  BY <1>1, <1>2, <1>5 DEF Answers, AnswersMany, Totals, Extremes
<1>6. CASE c.op \in {"queryFirst", "create"}
  BY <1>1, <1>2, <1>6 DEF Answers, AnswersQueryFirst, AnswersCreate, Totals, Extremes
<1>7. CASE c.op \in {"delete", "count", "RawQuery"}
  BY <1>1, <1>2, <1>7 DEF Answers, Totals, Extremes
<1>8. CASE c.op \in Totals \cup Extremes
  BY <1>1, <1>2, <1>8 DEF Answers, AnswersAggregate, Totals, Extremes
<1>9. CASE c.op \in {"Raw", "RawScan", "RawExec"}
  BY <1>1, <1>9 DEF Accepts, Binds
<1> QED
  BY <1>3, <1>4, <1>5, <1>6, <1>7, <1>8, <1>9 DEF Ops

LEMMA ClientStep ==
  ASSUME RecordsAreTheirOwn, [ClientNext]_clientVars
  PROVE  RecordsAreTheirOwn'
<1>1. CASE UNCHANGED clientVars
  BY <1>1 DEF clientVars, RecordsAreTheirOwn, Has, Unmapped, StructColumns
<1>2. CASE Forget
  BY <1>2 DEF Forget, NoAnswer, RecordsAreTheirOwn
<1>3. ASSUME NEW x \in Calls, NEW found \in BOOLEAN, CallClient(x, found)
      PROVE  RecordsAreTheirOwn'
  <2> DEFINE c == [x EXCEPT !.found = found]
  <2>0. c.op \in Ops
    BY CallsAreRequests
  <2>1. call' = c /\ UNCHANGED <<database, schema, generated, tables>>
    BY <1>3 DEF CallClient
  <2>2. returned' = Answers(c)
    BY <1>3 DEF CallClient
  <2> HIDE DEF c
  <2> SUFFICES ASSUME returned'.result = "record",
                      ~(c.op = "update" /\ database = "postgresql" /\ tables[c.model] # StructColumns(c.model)),
                      ~(c.op = "update" /\ database # "postgresql" /\ c.clause = "setAll"),
                      NEW f \in Fields(generated, c.model), Unmapped(f)
               PROVE  returned'.from[f] = OwnColumn(c.model, f)
    BY <2>1 DEF RecordsAreTheirOwn, OwnColumn, Has, Unmapped, StructColumns
  <2> QED
    BY <2>0, <2>2, RecordsAnswered, OwnByName, OwnByPosition
<1> QED
  BY <1>1, <1>2, <1>3 DEF ClientNext, Edit, GenerateClient, Push

-----------------------------------------------------------------------------
(* The fields and the columns of a schema, as Among selects them.          *)

\* Induction up to a number, with a set in the place of a predicate.
LEMMA UpTo ==
  ASSUME NEW n \in Nat, NEW S, 0 \in S, \A k \in 0..n : k \in S /\ k < n => k + 1 \in S
  PROVE  \A k \in 0..n : k \in S
<1> DEFINE R == OpToRel(<, Nat)
           T == (0..n) \ S
<1> SUFFICES ASSUME T # {} PROVE FALSE
  OBVIOUS
<1>1. IsWellFoundedOn(R, Nat)
  BY NatLessThanWellFounded
<1>2. \A x, y \in Nat : x < y => <<x, y>> \in R
  BY DEF OpToRel
<1>3. PICK m \in T : \A k \in T : ~(<<k, m>> \in R)
  <2>1. T \in SUBSET Nat
    OBVIOUS
  <2> HIDE DEF R, T
  <2> QED
    BY <1>1, <2>1, WFMin
<1>4. \A k \in T : ~(k < m)
  <2>1. T \in SUBSET Nat
    OBVIOUS
  <2> HIDE DEF R, T
  <2> QED
    BY <1>2, <1>3, <2>1
<1>5. m # 0 /\ m \in 0..n /\ m \notin S
  OBVIOUS
<1>6. m - 1 \in 0..n /\ m - 1 < n /\ m - 1 < m /\ (m - 1) + 1 = m
  BY <1>5
<1>7. m - 1 \in S
  BY <1>4, <1>6
<1> QED
  BY <1>5, <1>6, <1>7

\* What Among has kept after every member.
Keeps(kept, s, S, n) ==
  kept = [i \in 0..n |-> IF i = 0 THEN <<>> ELSE IF s[i] \in S THEN Append(kept[i - 1], s[i]) ELSE kept[i - 1]]

LEMMA KeptExists ==
  ASSUME NEW s, NEW S, NEW n \in Nat
  PROVE  \E kept : Keeps(kept, s, S, n)
<1> DEFINE T == {k \in 0..n : \E kept : Keeps(kept, s, S, k)}
<1>1. 0 \in T
  <2>1. Keeps([i \in 0..0 |-> <<>>], s, S, 0)
    BY DEF Keeps
  <2> QED
    BY <2>1
<1>2. ASSUME NEW k \in 0..n, k \in T, k < n PROVE k + 1 \in T
  <2> PICK kept : Keeps(kept, s, S, k)
    BY <1>2
  <2> DEFINE more == [i \in 0..(k + 1) |->
                        IF i <= k THEN kept[i] ELSE IF s[i] \in S THEN Append(kept[k], s[i]) ELSE kept[k]]
  <2>0. k \in Nat /\ k + 1 \in 0..n
    BY <1>2
  <2>1. ASSUME NEW i \in 0..(k + 1)
        PROVE  more[i] = IF i = 0 THEN <<>> ELSE IF s[i] \in S THEN Append(more[i - 1], s[i]) ELSE more[i - 1]
    <3>1. CASE i \in 0..k
      <4>1. more[i] = kept[i] /\ (i # 0 => more[i - 1] = kept[i - 1])
        BY <3>1, <2>0
      <4>2. kept[i] = IF i = 0 THEN <<>> ELSE IF s[i] \in S THEN Append(kept[i - 1], s[i]) ELSE kept[i - 1]
        BY <3>1 DEF Keeps
      <4> QED
        BY <4>1, <4>2
    <3>2. CASE i \notin 0..k
      <4>1. i = k + 1 /\ i # 0 /\ ~(i <= k) /\ i - 1 = k /\ k \in 0..(k + 1)
        BY <3>2, <2>0
      <4> QED
        BY <4>1
    <3> QED
      BY <3>1, <3>2
  <2>2. Keeps(more, s, S, k + 1)
    <3> DEFINE other == [i \in 0..(k + 1) |->
                           IF i = 0 THEN <<>> ELSE IF s[i] \in S THEN Append(more[i - 1], s[i]) ELSE more[i - 1]]
    <3>1. \A i \in 0..(k + 1) : more[i] = other[i]
      BY <2>1
    <3>2. more = other
      BY <3>1
    <3> QED
      BY <3>2 DEF Keeps
  <2> QED
    BY <2>0, <2>2
<1>3. n \in T
  <2> HIDE DEF T
  <2> QED
    BY <1>1, <1>2, UpTo
<1> QED
  BY <1>3

\* Among keeps the members of the set, and no others.
LEMMA AmongMembers ==
  ASSUME NEW T, NEW s \in Seq(T), NEW S
  PROVE  Among(s, S) \in Seq(T \cap S) /\ Range(Among(s, S)) = Range(s) \cap S
<1> DEFINE n == Len(s)
           kept == CHOOSE k : Keeps(k, s, S, n)
<1>0. n \in Nat
  OBVIOUS
<1>1. Keeps(kept, s, S, n)
  BY <1>0, KeptExists
<1>2. Among(s, S) = kept[n]
  BY DEF Among, Keeps
<1> DEFINE G == {k \in 0..n : /\ kept[k] \in Seq(T \cap S)
                              /\ Range(kept[k]) = {s[i] : i \in 1..k} \cap S}
<1> HIDE DEF kept
<1>3. 0 \in G
  <2>1. kept[0] = <<>>
    BY <1>0, <1>1 DEF Keeps
  <2>2. <<>> \in Seq(T \cap S) /\ Range(<<>>) = {}
    BY DEF Range
  <2>3. 1..0 = {} /\ 0 \in 0..n
    BY <1>0
  <2>4. {s[i] : i \in 1..0} = {}
    BY <2>3
  <2> QED
    BY <2>1, <2>2, <2>3, <2>4
<1>4. ASSUME NEW k \in 0..n, k \in G, k < n PROVE k + 1 \in G
  <2>0. k \in Nat /\ k + 1 \in 1..n /\ k + 1 \in 0..n /\ k + 1 # 0 /\ (k + 1) - 1 = k /\ s[k + 1] \in T
    BY <1>0, <1>4
  <2>1. kept[k + 1] = IF s[k + 1] \in S THEN Append(kept[k], s[k + 1]) ELSE kept[k]
    BY <1>1, <2>0 DEF Keeps
  <2>2. {s[i] : i \in 1..(k + 1)} = {s[i] : i \in 1..k} \cup {s[k + 1]}
    <3>1. 1..(k + 1) = 1..k \cup {k + 1}
      BY <2>0
    <3> QED
      BY <3>1
  <2>3. \A q \in Seq(T \cap S), x \in T \cap S : Append(q, x) \in Seq(T \cap S) /\ Range(Append(q, x)) = Range(q) \cup {x}
    <3> SUFFICES ASSUME NEW q \in Seq(T \cap S), NEW x \in T \cap S
                 PROVE  Append(q, x) \in Seq(T \cap S) /\ Range(Append(q, x)) = Range(q) \cup {x}
      OBVIOUS
    <3>1. DOMAIN Append(q, x) = DOMAIN q \cup {Len(q) + 1} /\ DOMAIN q = 1..Len(q)
      OBVIOUS
    <3>2. \A i \in DOMAIN q : Append(q, x)[i] = q[i]
      OBVIOUS
    <3>3. Append(q, x)[Len(q) + 1] = x
      OBVIOUS
    <3> QED
      BY <3>1, <3>2, <3>3 DEF Range
  <2>4. CASE s[k + 1] \in S
    <3>1. s[k + 1] \in T \cap S /\ kept[k] \in Seq(T \cap S)
      BY <1>4, <2>0, <2>4
    <3>2. kept[k + 1] \in Seq(T \cap S) /\ Range(kept[k + 1]) = Range(kept[k]) \cup {s[k + 1]}
      BY <2>1, <2>3, <2>4, <3>1
    <3> QED
      BY <1>4, <2>0, <2>2, <2>4, <3>2
  <2>5. CASE s[k + 1] \notin S
    BY <1>4, <2>0, <2>1, <2>2, <2>5
  <2> QED
    BY <2>4, <2>5
<1>5. n \in G
  <2>1. \A k \in 0..n : k \in G /\ k < n => k + 1 \in G
    BY <1>4
  <2>2. \A k \in 0..n : k \in G
    <3> HIDE DEF G
    <3> QED
      BY <1>0, <1>3, <2>1, UpTo
  <2>3. n \in 0..n
    BY <1>0
  <2> QED
    BY <2>2, <2>3
<1>6. Range(s) = {s[i] : i \in 1..n}
  BY DEF Range
<1> QED
  BY <1>2, <1>5, <1>6

\* The fields of a model, and the columns of its table.
LEMMA FieldsAre ==
  ASSUME NEW features, NEW m
  PROVE  /\ FieldsOf(features, m) \in Seq(Range(Lines))
         /\ Fields(features, m) = {f \in Range(Lines) : f.model = m /\ f.feature \in features}
<1> DEFINE S == {f \in Range(Lines) : f.model = m /\ f.feature \in features}
<1>1. Among(Lines, S) \in Seq(Range(Lines) \cap S) /\ Range(Among(Lines, S)) = Range(Lines) \cap S
  BY LinesAssumption, AmongMembers
<1>2. Range(Lines) \cap S = S
  OBVIOUS
<1>3. FieldsOf(features, m) = Among(Lines, S)
  BY DEF FieldsOf
<1>4. FieldsOf(features, m) \in Seq(Range(Lines) \cap S)
  BY <1>1, <1>3
<1>5. FieldsOf(features, m) \in Seq(Range(Lines))
  <2> HIDE DEF S
  <2> QED
    BY <1>4
<1> QED
  BY <1>1, <1>2, <1>3, <1>5 DEF Fields

\* The column of a field that has one.
ColumnOf(f) == IF f.column # <<>> THEN f.column ELSE toSnakeCase[f.name]

LEMMA ColumnsAre ==
  ASSUME NEW features, NEW m
  PROVE  /\ TableColumns(features, m) \in Seq(Range(TableColumns(features, m)))
         /\ Range(TableColumns(features, m)) = {ColumnOf(f) : f \in {g \in Fields(features, m) : IsScalar(g)}}
<1> DEFINE S == {f \in Range(Lines) : IsScalar(f)}
           plain == Among(FieldsOf(features, m), S)
<1>1. plain \in Seq(Range(Lines) \cap S) /\ Range(plain) = Range(FieldsOf(features, m)) \cap S
  BY FieldsAre, AmongMembers
<1>2. Range(plain) = {g \in Fields(features, m) : IsScalar(g)}
  BY <1>1, FieldsAre DEF Fields
<1>3. TableColumns(features, m) = [i \in DOMAIN plain |-> ColumnOf(plain[i])]
  BY DEF TableColumns, ColumnOf
<1>4. PICK n \in Nat : DOMAIN plain = 1..n
  <2> HIDE DEF plain
  <2> QED
    BY <1>1
<1> HIDE DEF plain
<1>5. Range(TableColumns(features, m)) = {ColumnOf(f) : f \in Range(plain)}
  BY <1>3 DEF Range
<1>6. TableColumns(features, m) \in Seq(Range(TableColumns(features, m)))
  <2>1. \A q : DOMAIN q = 1..n /\ q = [i \in 1..n |-> q[i]] => q \in Seq(Range(q))
    BY DEF Range
  <2> QED
    BY <1>3, <1>4, <2>1
<1> QED
  BY <1>2, <1>5, <1>6

LEMMA MoreColumns ==
  ASSUME NEW features, NEW more, features \subseteq more, NEW m
  PROVE  Range(TableColumns(features, m)) \subseteq Range(TableColumns(more, m))
BY ColumnsAre, FieldsAre

LEMMA Joins ==
  ASSUME NEW T, NEW a \in Seq(T), NEW b \in Seq(T)
  PROVE  a \o b \in Seq(T) /\ Range(a \o b) = Range(a) \cup Range(b)
<1>1. DOMAIN a = 1..Len(a) /\ DOMAIN b = 1..Len(b) /\ DOMAIN (a \o b) = 1..(Len(a) + Len(b))
  OBVIOUS
<1>2. \A i \in 1..(Len(a) + Len(b)) : (a \o b)[i] = IF i <= Len(a) THEN a[i] ELSE b[i - Len(a)]
  OBVIOUS
<1>3. Range(a \o b) \subseteq Range(a) \cup Range(b)
  <2> SUFFICES ASSUME NEW i \in 1..(Len(a) + Len(b)) PROVE (a \o b)[i] \in Range(a) \cup Range(b)
    BY <1>1 DEF Range
  <2>1. CASE i <= Len(a)
    BY <1>1, <1>2, <2>1 DEF Range
  <2>2. CASE ~(i <= Len(a))
    <3>1. i - Len(a) \in 1..Len(b)
      BY <2>2
    <3> QED
      BY <1>1, <1>2, <2>2, <3>1 DEF Range
  <2> QED
    BY <2>1, <2>2
<1>4. Range(a) \subseteq Range(a \o b)
  BY <1>1, <1>2 DEF Range
<1>5. Range(b) \subseteq Range(a \o b)
  <2> SUFFICES ASSUME NEW i \in 1..Len(b) PROVE b[i] \in Range(a \o b)
    BY <1>1 DEF Range
  <2>1. Len(a) + i \in 1..(Len(a) + Len(b)) /\ ~(Len(a) + i <= Len(a)) /\ (Len(a) + i) - Len(a) = i
    OBVIOUS
  <2>2. (a \o b)[Len(a) + i] = b[i]
    BY <1>2, <2>1
  <2> QED
    BY <1>1, <2>1, <2>2 DEF Range
<1> QED
  BY <1>3, <1>4, <1>5

-----------------------------------------------------------------------------
(* The types of the generated client.                                      *)

\* A table has columns of its model only; whatever was generated has the fields a model begins with.
ClientInv ==
  /\ ClientTypeOK
  /\ "base" \in schema /\ (generated # {} => "base" \in generated)
  /\ \A m \in Models : Range(tables[m]) \subseteq Range(TableColumns(Features, m))

LEMMA BaseIsFeature == "base" \in Features
<1>1. Lines # <<>> /\ Lines \in Seq(Range(Lines))
  BY LinesAssumption
<1>2. PICK n \in Nat : DOMAIN Lines = 1..n
  BY <1>1
<1>3. Range(Lines) # {}
  <2>1. CASE DOMAIN Lines = {}
    BY <1>1, <2>1
  <2>2. CASE DOMAIN Lines # {}
    BY <2>2 DEF Range
  <2> QED
    BY <2>1, <2>2
<1>4. PICK f \in Range(Lines) : TRUE
  BY <1>3
<1>5. f.model \in Models
  BY DEF Models
<1>6. PICK g \in Range(Lines) : g.feature = "base"
  BY <1>5, LinesAssumption
<1> QED
  BY <1>6 DEF Features

LEMMA AnswerTypes ==
  ASSUME NEW c, c.op \in Ops
  PROVE  Answers(c).result \in {"record", "empty", "done", "error", "panic"}
<1>0. Accepts(c) \in BOOLEAN
  BY DEF Accepts
<1>1. CASE ~Accepts(c)
  BY <1>1 DEF Answers, Only
<1>2. \A result : Only(result).result = result
  BY DEF Only
<1>3. \A m, from : Scanned(m, from).result \in {"record", "error"}
  BY DEF Scanned, Record, Only
<1>4. AnswersFirst(c).result \in {"record", "error"}
  BY <1>2, <1>3 DEF AnswersFirst
<1>5. CASE Accepts(c) /\ c.op = "findFirst"
  BY <1>4, <1>5 DEF Answers, Totals, Extremes
<1>6. CASE Accepts(c) /\ c.op = "update"
  <2>1. Answers(c) = AnswersUpdate(c)
    BY <1>6 DEF Answers, Totals, Extremes
  <2>2. CASE database = "postgresql"
    BY <1>2, <1>3, <2>1, <2>2 DEF AnswersUpdate
  <2>3. CASE database # "postgresql" /\ c.clause = "setAll"
    BY <2>1, <2>3 DEF AnswersUpdate, Record
  <2>4. CASE database # "postgresql" /\ c.clause # "setAll"
    BY <1>4, <2>1, <2>4 DEF AnswersUpdate
  <2> QED
    BY <2>2, <2>3, <2>4
<1>7. CASE Accepts(c) /\ c.op \in {"findMany", "query"}
  BY <1>2, <1>7 DEF Answers, AnswersMany, Totals, Extremes
<1>8. CASE Accepts(c) /\ c.op \in {"queryFirst", "create"}
  BY <1>2, <1>8 DEF Answers, AnswersQueryFirst, AnswersCreate, Totals, Extremes
<1>9. CASE Accepts(c) /\ c.op \in {"delete", "count", "RawQuery"}
  BY <1>2, <1>9 DEF Answers, Totals, Extremes
<1>10. CASE Accepts(c) /\ c.op \in Totals \cup Extremes
  BY <1>2, <1>10 DEF Answers, AnswersAggregate, Totals, Extremes
<1>11. CASE Accepts(c) /\ c.op \in {"Raw", "RawScan", "RawExec"}
  BY <1>11 DEF Accepts, Binds
<1> QED
  BY <1>0, <1>1, <1>5, <1>6, <1>7, <1>8, <1>9, <1>10, <1>11 DEF Ops

LEMMA ClientBegins == ClientInit => ClientInv
<1> SUFFICES ASSUME ClientInit PROVE ClientInv
  OBVIOUS
<1>1. \A T : <<>> \in Seq(T) /\ Range(<<>>) = {}
  BY DEF Range
<1>2. \A m \in Models : tables[m] = <<>>
  BY DEF ClientInit
<1>3. tables \in [Models -> Seq(UNION {Range(TableColumns(Features, m)) : m \in Models})]
  BY <1>1 DEF ClientInit
<1> QED
  BY <1>1, <1>2, <1>3, BaseIsFeature DEF ClientInit, ClientInv, ClientTypeOK, NoAnswer

LEMMA ClientGoesOn == ClientInv /\ [ClientNext]_clientVars => ClientInv'
<1> SUFFICES ASSUME ClientInv, [ClientNext]_clientVars PROVE ClientInv'
  OBVIOUS
<1> DEFINE All == UNION {Range(TableColumns(Features, m)) : m \in Models}
<1>1. ASSUME NEW feature \in Features, Edit(feature) PROVE ClientInv'
  BY <1>1 DEF Edit, Forget, NoAnswer, ClientInv, ClientTypeOK
<1>2. ASSUME GenerateClient PROVE ClientInv'
  BY <1>2 DEF GenerateClient, Forget, NoAnswer, ClientInv, ClientTypeOK
<1>3. ASSUME Push PROVE ClientInv'
  <2>1. ASSUME NEW m \in Models
        PROVE  tables'[m] \in Seq(All) /\ Range(tables'[m]) \subseteq Range(TableColumns(Features, m))
    <3> DEFINE columns == TableColumns(schema, m)
               new == Among(columns, Range(columns) \ Range(tables[m]))
    <3>1. Range(columns) \subseteq Range(TableColumns(Features, m))
      BY MoreColumns DEF ClientInv, ClientTypeOK
    <3>2. Range(columns) \subseteq All /\ columns \in Seq(Range(columns))
      BY <3>1, ColumnsAre
    <3>3. new \in Seq(All) /\ Range(new) \subseteq Range(columns)
      <4> HIDE DEF columns, All
      <4>1. columns \in Seq(All)
        BY <3>2
      <4>2. new \in Seq(All \cap (Range(columns) \ Range(tables[m]))) /\ Range(new) = Range(columns) \cap (Range(columns) \ Range(tables[m]))
        BY <4>1, AmongMembers
      <4>3. \A A, B : \A q \in Seq(A \cap B) : q \in Seq(A)
        OBVIOUS
      <4>4. new \in Seq(All)
        <5> HIDE DEF new
        <5> QED
          BY <4>2, <4>3
      <4> QED
        BY <4>2, <4>4
    <3>4. tables[m] \in Seq(All) /\ Range(tables[m]) \subseteq Range(TableColumns(Features, m))
      BY DEF ClientInv, ClientTypeOK
    <3>5. tables'[m] = tables[m] \o new
      BY <1>3 DEF Push
    <3> HIDE DEF columns, new, All
    <3>6. tables'[m] \in Seq(All) /\ Range(tables'[m]) = Range(tables[m]) \cup Range(new)
      BY <3>3, <3>4, <3>5, Joins
    <3> QED
      BY <3>1, <3>3, <3>4, <3>6
  <2>2. DOMAIN tables' = Models /\ tables' = [m \in Models |-> tables'[m]]
    BY <1>3 DEF Push
  <2>3. tables' \in [Models -> Seq(All)]
    <3> HIDE DEF All
    <3> QED
      BY <2>1, <2>2
  <2> QED
    BY <1>3, <2>1, <2>3 DEF Push, Forget, NoAnswer, ClientInv, ClientTypeOK
<1>4. ASSUME NEW x \in Calls, NEW found \in BOOLEAN, CallClient(x, found) PROVE ClientInv'
  <2> DEFINE c == [x EXCEPT !.found = found]
  <2>1. c.op \in Ops
    BY CallsAreRequests
  <2>2. returned' = Answers(c) /\ UNCHANGED <<database, schema, generated, tables>>
    BY <1>4 DEF CallClient
  <2> HIDE DEF c
  <2>3. Answers(c).result \in {"none", "record", "empty", "done", "error", "panic"}
    BY <2>1, AnswerTypes
  <2> QED
    BY <2>2, <2>3 DEF ClientInv, ClientTypeOK
<1>5. CASE UNCHANGED clientVars
  BY <1>5 DEF clientVars, ClientInv, ClientTypeOK
<1> QED
  BY <1>1, <1>2, <1>3, <1>4, <1>5 DEF ClientNext

-----------------------------------------------------------------------------
(* What a client that is served gets.                                      *)

\* No field of a model is called what another one is, by its column or in the struct.
NamesApart ==
  /\ \A f \in Range(Lines) : StructColumn(f) # <<>>
  /\ \A f, g \in Range(Lines) :
       f # g /\ f.model = g.model => {f.column, StructColumn(f)} \cap {g.column, StructColumn(g)} \subseteq {<<>>}

\* The calls that ServedClientsWork is about: what they name, and in which clause.
Serving == {"findFirst", "count", "delete", "update", "RawQuery"} \cup Totals \cup Extremes

Names(c) ==
  /\ c.model \in Models /\ c.include = {}
  /\ c.clause # "none" => c.field \in Fields(generated, c.model)
  /\ c.op \in {"findFirst", "count"} => c.clause \in {"none", "where", "isNull"}
  /\ c.op = "delete" => c.clause \in {"none", "where"}
  /\ c.op = "update" => c.clause \in {"set", "setAll"}
  /\ c.op = "RawQuery" => c.clause = "none"
  /\ c.op \in Totals \cup Extremes => c.clause \in {"of", "ofWhere"} /\ IsNumeric(c.field)

LEMMA CallsName ==
  ASSUME NEW x \in Calls, NEW found \in BOOLEAN, [x EXCEPT !.found = found].op \in Serving
  PROVE  Names([x EXCEPT !.found = found]) /\ [x EXCEPT !.found = found].found = found
<1> DEFINE c == [x EXCEPT !.found = found]
<1>1. PICK m \in Models : x \in FindManyCalls(m) \cup FindFirstCalls(m) \cup WhereCalls(m) \cup ExecuteCalls(m)
        \cup ExecuteFirstCalls(m) \cup CreateCalls(m) \cup UpdateCalls(m) \cup DeleteCalls(m) \cup CountCalls(m)
        \cup AggregateCalls(m) \cup RawCalls(m)
  BY DEF Calls
<1>2. ASSUME NEW op, NEW clause, NEW f, x = Request(op, m, clause, f)
      PROVE  /\ c.op = op /\ c.model = m /\ c.clause = clause /\ c.field = f /\ c.include = {} /\ c.found = found
  BY <1>2 DEF Request
<1>3. ASSUME NEW op \in {"findFirst", "count"}, x \in Bare(op, m) \cup Filtering(op, m)
      PROVE  Names(c) /\ c.found = found
  <2>1. PICK clause, f :
          clause \in {"none", "where", "isNull"} /\ x = Request(op, m, clause, f) /\ (clause # "none" => f \in Fields(generated, m))
    BY <1>3 DEF Bare, Filtering
  <2>2. /\ c.op = op /\ c.model = m /\ c.clause = clause /\ c.field = f /\ c.include = {} /\ c.found = found
    BY <1>2, <2>1
  <2> HIDE DEF c
  <2> QED
    BY <2>1, <2>2 DEF Names, Totals, Extremes
<1>4. ASSUME NEW op \in {"findMany", "create", "Raw", "RawScan", "RawExec"}, x \in Bare(op, m) \cup Filtering(op, m)
      PROVE  FALSE
  <2>1. PICK clause, f : x = Request(op, m, clause, f)
    BY <1>4 DEF Bare, Filtering
  <2>2. c.op = op
    BY <1>2, <2>1
  <2> QED
    BY <2>2 DEF Serving, Totals, Extremes
<1>5. ASSUME NEW op \in {"query", "queryFirst"}, x \in QueryCalls(op, m)
      PROVE  FALSE
  <2>1. c.op = op
    <3>1. (\E clause, f : x = Request(op, m, clause, f)) \/ (\E i : x = [Request(op, m, "none", None) EXCEPT !.include = i])
      BY <1>5 DEF QueryCalls, Bare, Filtering
    <3>2. CASE \E clause, f : x = Request(op, m, clause, f)
      BY <1>2, <3>2
    <3>3. CASE \E i : x = [Request(op, m, "none", None) EXCEPT !.include = i]
      BY <3>3 DEF Request
    <3> QED
      BY <3>1, <3>2, <3>3
  <2> QED
    BY <2>1 DEF Serving, Totals, Extremes
<1>6. CASE x \in FindManyCalls(m) \cup FindFirstCalls(m) \cup WhereCalls(m) \cup CountCalls(m)
  BY <1>3, <1>4, <1>6 DEF FindManyCalls, FindFirstCalls, WhereCalls, CountCalls
<1>7. CASE x \in ExecuteCalls(m) \cup ExecuteFirstCalls(m)
  BY <1>5, <1>7 DEF ExecuteCalls, ExecuteFirstCalls
<1>8. CASE x \in CreateCalls(m)
  BY <1>4, <1>8 DEF CreateCalls
<1>9. CASE x \in RawCalls(m)
  <2>1. CASE x \in Bare("RawQuery", m)
    <3>1. x = Request("RawQuery", m, "none", None)
      BY <2>1 DEF Bare
    <3>2. c.op = "RawQuery" /\ c.model = m /\ c.clause = "none" /\ c.include = {} /\ c.found = found
      BY <1>2, <3>1
    <3>3. Names(c) /\ c.found = found
      <4> HIDE DEF c
      <4> QED
        BY <3>2 DEF Names, Totals, Extremes
    <3> QED
      BY <3>3
  <2> QED
    BY <1>4, <1>9, <2>1 DEF RawCalls
<1>10. CASE x \in UpdateCalls(m)
  <2>1. PICK clause \in {"set", "setAll"}, f \in Fields(generated, m) : x = Request("update", m, clause, f)
    BY <1>10 DEF UpdateCalls
  <2>2. /\ c.op = "update" /\ c.model = m /\ c.clause = clause /\ c.field = f /\ c.include = {} /\ c.found = found
    BY <1>2, <2>1
  <2>3. Names(c) /\ c.found = found
    <3> HIDE DEF c
    <3> QED
      BY <2>1, <2>2 DEF Names, Totals, Extremes
  <2> QED
    BY <2>3
<1>11. CASE x \in DeleteCalls(m)
  <2>1. PICK clause, f :
          clause \in {"none", "where"} /\ x = Request("delete", m, clause, f) /\ (clause # "none" => f \in Fields(generated, m))
    BY <1>11 DEF DeleteCalls, Bare
  <2>2. /\ c.op = "delete" /\ c.model = m /\ c.clause = clause /\ c.field = f /\ c.include = {} /\ c.found = found
    BY <1>2, <2>1
  <2>3. Names(c) /\ c.found = found
    <3> HIDE DEF c
    <3> QED
      BY <2>1, <2>2 DEF Names, Totals, Extremes
  <2> QED
    BY <2>3
<1>12. CASE x \in AggregateCalls(m)
  <2>1. PICK op \in Totals \cup Extremes, clause \in {"of", "ofWhere"}, f \in {g \in Fields(generated, m) : IsNumeric(g)} :
          x = Request(op, m, clause, f)
    BY <1>12 DEF AggregateCalls
  <2>2. /\ c.op = op /\ c.model = m /\ c.clause = clause /\ c.field = f /\ c.include = {} /\ c.found = found
    BY <1>2, <2>1
  <2>3. Names(c) /\ c.found = found
    <3> HIDE DEF c
    <3> QED
      BY <2>1, <2>2 DEF Names, Totals, Extremes
  <2> QED
    BY <2>3
<1> QED
  BY <1>1, <1>6, <1>7, <1>8, <1>9, <1>10, <1>11, <1>12

\* The type of a column is that of its field.
LEMMA OwnType ==
  ASSUME NamesApart, NEW m, NEW f \in Range(Lines), f.model = m, IsScalar(f),
         NEW column \in {f.column, StructColumn(f)}, column # <<>>
  PROVE  TypeOf(m, column) = f.type
<1> DEFINE Those == {g \in Range(Lines) : g.model = m /\ IsScalar(g)}
           h == CHOOSE g \in Those : column \in {g.column, toSnakeCase[g.name]}
<1>1. \A g \in Those : StructColumn(g) = toSnakeCase[g.name]
  BY DEF StructColumn
<1>2. f \in Those /\ column \in {f.column, toSnakeCase[f.name]}
  BY <1>1
<1>3. h \in Those /\ column \in {h.column, StructColumn(h)}
  BY <1>1, <1>2
<1>4. h = f
  <2> HIDE DEF h
  <2> QED
    BY <1>3 DEF NamesApart
<1> QED
  BY <1>4 DEF TypeOf

\* A field whose name in the struct is that of a column has a column.
LEMMA OnlyScalarsHaveColumns ==
  ASSUME NamesApart, ClientInv, NEW m \in Models, NEW f \in Fields(generated, m), Has(m, StructColumn(f))
  PROVE  IsScalar(f)
<1>1. StructColumn(f) \in Range(TableColumns(Features, m))
  BY DEF Has, ClientInv
<1>2. PICK g \in Fields(Features, m) : IsScalar(g) /\ StructColumn(f) = ColumnOf(g)
  BY <1>1, ColumnsAre
<1>3. StructColumn(f) \in {g.column, StructColumn(g)}
  BY <1>2 DEF ColumnOf, StructColumn
<1>4. f \in Range(Lines) /\ g \in Range(Lines) /\ f.model = m /\ g.model = m
  BY FieldsAre
<1>5. f = g
  BY <1>3, <1>4 DEF NamesApart
<1> QED
  BY <1>2, <1>5

\* What the driver hands out for a column converts to the type of the field, except of a BigInt.
LEMMA ScalarsConvert ==
  ASSUME NEW f, IsScalar(f), f.type # "BigInt"
  PROVE  Converts(DriverValue(f.type), GoType(f))
<1>0. f.type \in Scalars /\ ~IsRelation(f)
  BY DEF IsScalar, IsRelation
<1> DEFINE t == f.type
           value == DriverValue(t)
<1>1. value = CASE t = "Int" -> "int64"
                [] t = "Boolean" -> IF database = "postgresql" THEN "bool" ELSE "int64"
                [] t = "DateTime" -> IF database = "postgresql" THEN "time.Time" ELSE "time string"
                [] t = "Float" -> "float64"
                [] t \in {"String", "BigInt", "Decimal", "Json", "Bytes"} -> "string"
  BY DEF DriverValue
<1>2. CASE t = "Int"
  <2>1. value = "int64" /\ GoType(f) = "int"
    BY <1>1, <1>0, <1>2 DEF GoType
  <2> QED
    BY <2>1 DEF Converts
<1>3. CASE t = "Boolean"
  <2>1. value \in {"bool", "int64"} /\ GoType(f) = "bool"
    BY <1>1, <1>0, <1>3 DEF GoType
  <2> QED
    BY <2>1 DEF Converts
<1>4. CASE t = "DateTime"
  <2>1. value \in {"time.Time", "time string"} /\ GoType(f) = "time.Time"
    BY <1>1, <1>0, <1>4 DEF GoType
  <2> QED
    BY <2>1 DEF Converts
<1>5. CASE t = "Float"
  <2>1. value = "float64" /\ GoType(f) = "float64"
    BY <1>1, <1>0, <1>5 DEF GoType
  <2> QED
    BY <2>1 DEF Converts
<1>6. CASE t \in {"String", "Decimal"}
  <2>1. value = "string"
    BY <1>1, <1>6
  <2>2. GoType(f) = "string"
    BY <1>0, <1>6 DEF GoType
  <2> QED
    BY <2>1, <2>2 DEF Converts
<1>7. CASE t \in {"Json", "Bytes"}
  <2>1. GoType(f) \in {"interface{}", "[]byte"}
    BY <1>0, <1>7 DEF GoType
  <2> QED
    BY <2>1 DEF Converts
<1> QED
  BY <1>0, <1>2, <1>3, <1>4, <1>5, <1>6, <1>7 DEF Scalars

LEMMA ReadByName ==
  ASSUME NamesApart, ClientInv, NEW m \in Models, Readable(m)
  PROVE  Scanned(m, ByName(m)).result = "record"
<1> DEFINE from == ByName(m)
<1>0. DOMAIN from = Fields(generated, m)
  BY DEF ByName
<1>1. ASSUME NEW f \in DOMAIN from, from[f] # <<>>
      PROVE  Converts(DriverValue(TypeOf(m, from[f][2])), GoType(f))
  <2>1. Has(m, StructColumn(f)) /\ from[f] = <<m, StructColumn(f)>>
    BY <1>1 DEF ByName
  <2>2. IsScalar(f) /\ f \in Range(Lines) /\ f.model = m /\ f.type # "BigInt"
    BY <1>0, <2>1, OnlyScalarsHaveColumns, FieldsAre DEF Readable
  <2>3. TypeOf(m, StructColumn(f)) = f.type
    BY <2>2, OwnType DEF NamesApart
  <2>4. from[f][2] = StructColumn(f)
    BY <2>1
  <2> QED
    BY <2>2, <2>3, <2>4, ScalarsConvert
<1> HIDE DEF from
<1>2. Scanned(m, from).result = "record"
  BY <1>1 DEF Scanned, Record
<1> QED
  BY <1>2 DEF from

LEMMA ReadByPosition ==
  ASSUME NamesApart, ClientInv, NEW m \in Models, Readable(m), tables[m] = StructColumns(m)
  PROVE  Scanned(m, ByPosition(m)).result = "record"
<1> DEFINE from == ByPosition(m)
           fields == FieldsOf(generated, m)
<1>0. DOMAIN from = Fields(generated, m)
  BY DEF ByPosition
<1>1. ASSUME NEW f \in DOMAIN from
      PROVE  Converts(DriverValue(TypeOf(m, from[f][2])), GoType(f))
  <2> DEFINE i == CHOOSE k \in DOMAIN fields : fields[k] = f
  <2>1. i \in DOMAIN fields /\ fields[i] = f
    BY <1>0 DEF Fields, Range
  <2>2. i \in DOMAIN tables[m] /\ tables[m][i] = StructColumn(f)
    BY <2>1 DEF StructColumns
  <2>3. from[f] = <<m, StructColumn(f)>> /\ Has(m, StructColumn(f))
    BY <1>0, <2>2 DEF ByPosition, Has, Range
  <2>4. IsScalar(f) /\ f \in Range(Lines) /\ f.model = m /\ f.type # "BigInt"
    BY <1>0, <2>3, OnlyScalarsHaveColumns, FieldsAre DEF Readable
  <2>5. TypeOf(m, StructColumn(f)) = f.type
    BY <2>4, OwnType DEF NamesApart
  <2>6. from[f][2] = StructColumn(f)
    BY <2>3
  <2> QED
    BY <2>4, <2>5, <2>6, ScalarsConvert
<1> HIDE DEF from
<1>2. Scanned(m, from).result = "record"
  BY <1>1 DEF Scanned, Record
<1> QED
  BY <1>2 DEF from

\* A call about plain fields is accepted by tables that serve the client.
LEMMA ServedAccepts ==
  ASSUME NamesApart, ClientInv, generated # {}, NEW c, c.op \in Serving, Names(c), Served(c.model),
         c.clause # "none" => Unmapped(c.field),
         ~(database = "mysql" /\ (c.clause = "set" \/ (c.op = "delete" /\ c.clause = "where"))),
         ~(database = "postgresql" /\ c.op \in Totals /\ c.field.type = "BigInt")
  PROVE  Accepts(c) /\ (c.clause # "none" => Has(c.model, ColumnIn(c.clause, c.field)))
<1> DEFINE m == c.model
           f == c.field
           column == ColumnIn(c.clause, f)
<1>0. m \in Models /\ c.op \notin {"query", "queryFirst", "create", "Raw", "RawScan", "RawExec"} /\ c.clause # "select"
  BY DEF Names, Serving, Totals, Extremes
<1>1. ASSUME c.clause # "none"
      PROVE  /\ IsScalar(f) /\ f \in Range(Lines) /\ f.model = m
             /\ column = StructColumn(f) /\ Has(m, column)
  <2>1. f \in Fields(generated, m) /\ IsScalar(f) /\ f.column = <<>>
    BY <1>1 DEF Names, Unmapped
  <2>2. column = StructColumn(f) /\ column = ColumnOf(f)
    BY <1>0, <2>1 DEF ColumnIn, StructColumn, ColumnOf
  <2>3. column \in Range(TableColumns(generated, m))
    BY <2>1, <2>2, ColumnsAre
  <2> QED
    BY <2>1, <2>2, <2>3, FieldsAre DEF Served, Has
<1>2. Binds(c)
  BY <1>0, <1>1 DEF Binds, IsRelation
<1>3. tables[m] # <<>>
  <2>1. PICK f0 \in Range(Lines) : f0.model = m /\ f0.feature = "base" /\ IsScalar(f0)
    BY <1>0, LinesAssumption
  <2>2. f0 \in Fields(generated, m)
    BY <2>1, FieldsAre DEF ClientInv
  <2>3. ColumnOf(f0) \in Range(tables[m])
    BY <2>1, <2>2, ColumnsAre DEF Served
  <2>4. Range(<<>>) = {}
    BY DEF Range
  <2> QED
    BY <2>3, <2>4
<1>4. AcceptsJoins(c)
  <2>1. Joined(c) = {}
    BY <1>0 DEF Joined, Names
  <2> QED
    BY <2>1 DEF AcceptsJoins
<1>5. c.clause \in {"where", "isNull", "orderBy", "select", "of", "ofWhere"} => Resolves(c, column)
  BY <1>1 DEF Resolves
<1>6. c.clause \in {"of", "ofWhere"} => Adds(c)
  <2> SUFFICES ASSUME c.clause \in {"of", "ofWhere"}, database = "postgresql", c.op \in Totals
               PROVE  ~IsText(TypeOf(m, column))
    BY DEF Adds
  <2>1. TypeOf(m, column) = f.type
    BY <1>1, OwnType DEF NamesApart
  <2>2. f.type # "BigInt" /\ IsNumeric(f)
    BY DEF Names
  <2>3. f.type \notin {"String", "Decimal", "Bytes"}
    BY <2>2 DEF IsNumeric, GoType
  <2> QED
    BY <2>1, <2>2, <2>3 DEF IsText
<1>7. Accepts(c)
  BY <1>0, <1>1, <1>2, <1>3, <1>4, <1>5, <1>6 DEF Accepts
<1> QED
  BY <1>1, <1>7

LEMMA ServedStep ==
  ASSUME NamesApart, ClientInv, ServedClientsWork, [ClientNext]_clientVars
  PROVE  ServedClientsWork'
<1>1. CASE UNCHANGED clientVars
  BY <1>1 DEF clientVars, ServedClientsWork, Served, Readable, Unmapped, StructColumns
<1>2. CASE Forget
  BY <1>2 DEF Forget, NoCall, ServedClientsWork
<1>3. ASSUME NEW x \in Calls, NEW found \in BOOLEAN, CallClient(x, found), generated # {}
      PROVE  ServedClientsWork'
  <2> DEFINE c == [x EXCEPT !.found = found]
  <2>1. call' = c /\ returned' = Answers(c) /\ UNCHANGED <<database, schema, generated, tables>>
    BY <1>3 DEF CallClient
  <2>2. c.op \in Serving => Names(c)
    BY CallsName
  <2> HIDE DEF c
  <2> DEFINE Asked == /\ c.op \in Serving /\ Served(c.model)
                      /\ (c.clause # "none" => Unmapped(c.field))
                      /\ ~(database = "mysql" /\ (c.clause = "set" \/ (c.op = "delete" /\ c.clause = "where")))
                      /\ ~(database = "postgresql" /\ c.op \in Totals /\ c.field.type = "BigInt")
  <2>3. Asked => /\ c.model \in Models /\ Accepts(c)
                 /\ (c.clause # "none" => Has(c.model, ColumnIn(c.clause, c.field)))
    BY <1>3, <2>2, ServedAccepts DEF Names
  <2>4. \A result : Only(result).result = result
    BY DEF Only
  <2>5. ASSUME Asked, c.op \in {"count", "delete", "RawQuery"} PROVE Answers(c).result = "done"
    BY <2>3, <2>4, <2>5 DEF Answers, Totals, Extremes
  <2>6. ASSUME Asked, c.op \in Totals \cup Extremes PROVE Answers(c).result = "done"
    <3>1. c.clause # "none" /\ Has(c.model, ColumnIn(c.clause, c.field))
      BY <2>2, <2>3, <2>6 DEF Names
    <3>2. Answers(c) = AnswersAggregate(c)
      BY <2>3, <2>6 DEF Answers, Totals, Extremes
    <3> QED
      BY <2>4, <3>1, <3>2 DEF AnswersAggregate
  <2>7. Asked /\ Readable(c.model) => (c.found => AnswersFirst(c).result = "record") /\ (~c.found => AnswersFirst(c).result = "error")
    BY <2>3, <2>4, ReadByName DEF AnswersFirst
  <2>8. ASSUME Asked, c.op = "findFirst", Readable(c.model)
        PROVE  Answers(c).result = (IF c.found THEN "record" ELSE "error")
    <3>1. Answers(c) = AnswersFirst(c)
      BY <2>3, <2>8 DEF Answers, Totals, Extremes
    <3> QED
      BY <2>7, <2>8, <3>1
  <2>9. ASSUME Asked, c.op = "update", Readable(c.model), c.found,
               database = "postgresql" => tables[c.model] = StructColumns(c.model)
        PROVE  Answers(c).result = "record"
    <3>1. Answers(c) = AnswersUpdate(c)
      BY <2>3, <2>9 DEF Answers, Totals, Extremes
    <3>2. CASE database = "postgresql"
      <4>1. Answers(c) = Scanned(c.model, ByPosition(c.model))
        BY <2>9, <3>1, <3>2 DEF AnswersUpdate
      <4> QED
        BY <2>3, <2>9, <3>2, <4>1, ReadByPosition
    <3>3. CASE database # "postgresql" /\ c.clause = "setAll"
      BY <3>1, <3>3 DEF AnswersUpdate, Record
    <3>4. CASE database # "postgresql" /\ c.clause # "setAll"
      <4>1. Answers(c) = AnswersFirst(c)
        BY <3>1, <3>4 DEF AnswersUpdate
      <4> QED
        BY <2>7, <2>9, <4>1
    <3> QED
      BY <3>2, <3>3, <3>4
  <2>10. Served(c.model)' = Served(c.model) /\ Readable(c.model)' = Readable(c.model) /\ StructColumns(c.model)' = StructColumns(c.model)
    BY <2>1 DEF Served, Readable, StructColumns
  <2> DEFINE Answered == CASE c.op \in {"count", "delete", "RawQuery"} \cup Totals \cup Extremes -> Answers(c).result = "done"
                        [] c.op = "findFirst" ->
                             (Readable(c.model) => Answers(c).result = (IF c.found THEN "record" ELSE "error"))
                        [] c.op = "update" ->
                             (c.found /\ Readable(c.model)
                                  /\ (database = "postgresql" => tables[c.model] = StructColumns(c.model))
                                => Answers(c).result = "record")
  <2>11. Asked => Answered
    <3> SUFFICES ASSUME Asked PROVE Answered
      OBVIOUS
    <3>1. CASE c.op \in {"count", "delete", "RawQuery"} \cup Totals \cup Extremes
      <4>1. c.op # "findFirst" /\ c.op # "update" /\ Answers(c).result = "done"
        BY <2>5, <2>6, <3>1 DEF Totals, Extremes
      <4> QED
        BY <3>1, <4>1
    <3>2. CASE c.op = "findFirst"
      BY <2>8, <3>2 DEF Totals, Extremes
    <3>3. CASE c.op = "update"
      BY <2>9, <3>3 DEF Totals, Extremes
    <3> QED
      BY <3>1, <3>2, <3>3 DEF Serving
  <2> QED
    BY <2>1, <2>10, <2>11 DEF ServedClientsWork, Serving, Unmapped
<1> QED
  BY <1>1, <1>2, <1>3 DEF ClientNext, Edit, GenerateClient, Push

-----------------------------------------------------------------------------
(* The transactions: what is proved of ClientTransaction holds here.       *)

\* ClientTransaction as its proofs have it.
TxFacts == INSTANCE ClientTransaction_proofs

LEMMA ProviderStays == Next => UNCHANGED provider
  BY DEF Next, Connected, Call, CallMany, CallWrite, Start, BeginTx, BeginFails, Insert, InsertFails, LastInsertId,
     NestedWrites, ReadBack, InsertAgain, InsertMany, Write, FindBack, Deferred

LEMMA SameSteps == Tx!Next => TxFacts!Next
<1>1. Tx!Begin => TxFacts!Begin
  BY DEF Tx!Begin, TxFacts!Begin, Tx!client, TxFacts!client, Tx!server, TxFacts!server
<1>2. Tx!StatementFails => TxFacts!StatementFails
  BY DEF Tx!StatementFails, TxFacts!StatementFails, Tx!Usable, TxFacts!Usable, Tx!client, TxFacts!client, Tx!server, TxFacts!server
<1>3. Tx!DeadlockVictim => TxFacts!DeadlockVictim
  BY DEF Tx!DeadlockVictim, TxFacts!DeadlockVictim, Tx!Usable, TxFacts!Usable, Tx!client, TxFacts!client
<1>4. Tx!Lose => TxFacts!Lose
  BY DEF Tx!Lose, TxFacts!Lose, Tx!client, TxFacts!client, Tx!server, TxFacts!server
<1>5. Tx!Return => TxFacts!Return
  BY DEF Tx!Return, TxFacts!Return, Tx!Usable, TxFacts!Usable, Tx!Finish, TxFacts!Finish
<1>6. Tx!ReturnError => TxFacts!ReturnError
  BY DEF Tx!ReturnError, TxFacts!ReturnError, Tx!Finish, TxFacts!Finish, Tx!server, TxFacts!server
<1>7. Tx!Panics => TxFacts!Panics
  BY DEF Tx!Panics, TxFacts!Panics, Tx!Finish, TxFacts!Finish, Tx!server, TxFacts!server
<1>8. Tx!Enter => TxFacts!Enter
  BY DEF Tx!Enter, TxFacts!Enter, Tx!Usable, TxFacts!Usable, Tx!SavepointName, TxFacts!SavepointName, Tx!WithSavepoint, TxFacts!WithSavepoint, Tx!Named, TxFacts!Named, Tx!Newest, TxFacts!Newest, Tx!RemoveAt, TxFacts!RemoveAt
<1>9. Tx!EnterFails => TxFacts!EnterFails
  BY DEF Tx!EnterFails, TxFacts!EnterFails, Tx!Usable, TxFacts!Usable, Tx!server, TxFacts!server
<1>10. Tx!NestedReturns => TxFacts!NestedReturns
  BY DEF Tx!NestedReturns, TxFacts!NestedReturns, Tx!Usable, TxFacts!Usable, Tx!Named, TxFacts!Named, Tx!Newest, TxFacts!Newest, Tx!Release, TxFacts!Release, Tx!Leave, TxFacts!Leave, Tx!server, TxFacts!server, Tx!Front, TxFacts!Front, Tx!Last, TxFacts!Last
<1>11. Tx!NestedFails => TxFacts!NestedFails
  BY DEF Tx!NestedFails, TxFacts!NestedFails, Tx!Named, TxFacts!Named, Tx!Newest, TxFacts!Newest, Tx!RollbackTo, TxFacts!RollbackTo, Tx!Leave, TxFacts!Leave, Tx!server, TxFacts!server, Tx!Front, TxFacts!Front, Tx!Last, TxFacts!Last
<1>12. ASSUME NEW w \in Works, Tx!Write(w) PROVE TxFacts!Write(w)
  BY <1>12 DEF Tx!Write, TxFacts!Write, Tx!Usable, TxFacts!Usable, Tx!client, TxFacts!client
<1>13. Tx!Expire => TxFacts!Expire
  BY DEF Tx!Expire, TxFacts!Expire, Tx!client, TxFacts!client, Tx!server, TxFacts!server
<1> QED
  BY <1>1, <1>2, <1>3, <1>4, <1>5, <1>6, <1>7, <1>8, <1>9, <1>10, <1>11, <1>12, <1>13 DEF Tx!Next, TxFacts!Next

LEMMA SameSpec == WritesSpec => TxFacts!Spec
<1>1. WritesInit => TxFacts!Init
  BY DEF WritesInit, Tx!Init, TxFacts!Init
<1>2. [WritesNext]_writeVars => [TxFacts!Next]_TxFacts!vars
  BY SameSteps, ProviderStays DEF WritesNext, writeVars, txVars, TxFacts!vars, TxFacts!client, TxFacts!server, vars
<1> QED
  BY <1>1, <1>2, PTL DEF WritesSpec, TxFacts!Spec

LEMMA TxBounded == TxFacts!Bounded
  BY BoundsAssumption DEF TxFacts!Bounded

\* What the promise is about is the same, seen from either instance.
LEMMA SameLevels == TxFacts!Levels = Tx!Levels
  BY DEF TxFacts!Levels, Tx!Levels, Tx!Named, TxFacts!Named, Tx!Newest, TxFacts!Newest

LEMMA SamePromise ==
  /\ TxFacts!Promise!Init => Tx!Promise!Init
  /\ [TxFacts!Promise!Next]_TxFacts!Promise!vars => [Tx!Promise!Next]_Tx!Promise!vars
<1>0. TxFacts!Levels = Tx!Levels /\ TxFacts!Levels' = Tx!Levels'
  BY SameLevels DEF TxFacts!Levels, Tx!Levels, Tx!Named, TxFacts!Named, Tx!Newest, TxFacts!Newest
<1>1. TxFacts!Promise!Init => Tx!Promise!Init
  BY <1>0 DEF Tx!Promise!Init, TxFacts!Promise!Init
<1>2. TxFacts!Promise!Begin => Tx!Promise!Begin
  BY <1>0 DEF Tx!Promise!Begin, TxFacts!Promise!Begin
<1>3. TxFacts!Promise!Doom => Tx!Promise!Doom
  BY <1>0 DEF Tx!Promise!Doom, TxFacts!Promise!Doom
<1>4. TxFacts!Promise!Open => Tx!Promise!Open
  BY <1>0 DEF Tx!Promise!Open, TxFacts!Promise!Open
<1>5. TxFacts!Promise!Keep => Tx!Promise!Keep
  BY <1>0 DEF Tx!Promise!Keep, TxFacts!Promise!Keep, Tx!Promise!Outer, TxFacts!Promise!Outer
<1>6. TxFacts!Promise!Undo => Tx!Promise!Undo
  BY <1>0 DEF Tx!Promise!Undo, TxFacts!Promise!Undo, Tx!Promise!Outer, TxFacts!Promise!Outer, Tx!Promise!Innermost, TxFacts!Promise!Innermost
<1>7. TxFacts!Promise!GiveUp => Tx!Promise!GiveUp
  BY <1>0 DEF Tx!Promise!GiveUp, TxFacts!Promise!GiveUp, Tx!Promise!Outer, TxFacts!Promise!Outer
<1>8. TxFacts!Promise!Commit => Tx!Promise!Commit
  BY <1>0 DEF Tx!Promise!Commit, TxFacts!Promise!Commit
<1>9. TxFacts!Promise!Abort => Tx!Promise!Abort
  BY <1>0 DEF Tx!Promise!Abort, TxFacts!Promise!Abort
<1>10. ASSUME NEW w \in Works, TxFacts!Promise!Work(w) PROVE Tx!Promise!Work(w)
  BY <1>0, <1>10 DEF Tx!Promise!Work, TxFacts!Promise!Work
<1>11. UNCHANGED TxFacts!Promise!vars => UNCHANGED Tx!Promise!vars
  BY <1>0 DEF Tx!Promise!vars, TxFacts!Promise!vars
<1>12. TxFacts!Promise!Expire => Tx!Promise!Expire
  BY <1>0 DEF Tx!Promise!Expire, TxFacts!Promise!Expire
<1>13. TxFacts!Promise!CommitFails => Tx!Promise!CommitFails
  BY <1>0 DEF Tx!Promise!CommitFails, TxFacts!Promise!CommitFails
<1> QED
  BY <1>1, <1>2, <1>3, <1>4, <1>5, <1>6, <1>7, <1>8, <1>9, <1>10, <1>11, <1>12, <1>13 DEF Tx!Promise!Next, TxFacts!Promise!Next, Tx!Promise!Promised, TxFacts!Promise!Promised

-----------------------------------------------------------------------------
(* The theorems.                                                           *)

LEMMA ExecutorStart == Init => ExecutorInv
<1> SUFFICES ASSUME Init PROVE ExecutorInv
  OBVIOUS
<1>0. MaxRecords \in Nat /\ MaxRecords >= 1 /\ PoolSize \in Nat
  BY RecordsAssumption, PoolAssumption
<1>1. ExecutorTypes
  BY <1>0 DEF Init, ExecutorTypes, PCs
<1>2. Cardinality(OpenTxs) <= PoolSize
  <2>1. OpenTxs = {}
    BY DEF Init, OpenTxs
  <2> QED
    BY <1>0, <2>1, FS_EmptySet
<1>3. \A c \in Clients : CallInv(c)
  BY DEF Init, CallInv, CallFits, RowsOf, Creating
<1> QED
  BY <1>1, <1>2, <1>3 DEF ExecutorInv, TypeOK, ExecutorTypes, OpenTxs

LEMMA ExecutorGoesOn == ExecutorInv /\ [Next]_vars => ExecutorInv'
<1> SUFFICES ASSUME ExecutorInv, [Next]_vars PROVE ExecutorInv'
  OBVIOUS
<1>1. ExecutorTypes /\ TypeOK /\ \A c \in Clients : CallInv(c)
  BY DEF ExecutorInv, TypeOK, ExecutorTypes
<1>2. Cardinality(OpenTxs') <= PoolSize
  BY <1>1, PoolKept
<1>3. ExecutorTypes' /\ \A c \in Clients : CallInv(c)'
  <2>1. CASE Next
    BY <1>1, <2>1, ExecutorStep
  <2>2. CASE UNCHANGED vars
    BY <1>1, <2>2 DEF vars, ExecutorTypes, CallInv, CallFits, RowsOf, Plain
  <2> QED
    BY <2>1, <2>2
<1> QED
  BY <1>2, <1>3 DEF ExecutorInv, TypeOK, ExecutorTypes, OpenTxs

\* The steps of a behaviour, as each of the three sees them.
LEMMA StepsOfParts == [WritesNext]_writeVars => [Next]_vars /\ [ClientNext]_clientVars
  BY DEF WritesNext, writeVars

\* The variables of the executor keep their types, and open transactions hold no more connections
\* than the pool has (query/executor/executor.go:459-560, 677-765), for any goroutines, records and pool.
THEOREM ExecutorTypeCorrect == WritesSpec => []TypeOK
<1>1. WritesInit => ExecutorInv
  BY ExecutorStart DEF WritesInit
<1>2. ExecutorInv /\ [WritesNext]_writeVars => ExecutorInv'
  BY ExecutorGoesOn, StepsOfParts
<1>3. ExecutorInv => TypeOK
  BY DEF ExecutorInv
<1> QED
  BY <1>1, <1>2, <1>3, PTL DEF WritesSpec

\* A Create or CreateMany without nested writes has stored as many rows as it returns, and one
\* that fails exactly those before the failure (query/executor/executor.go:459-560, 677-765).
THEOREM ReturnedIsStored == WritesSpec => []StoredAsReturned
<1>1. WritesInit => ExecutorInv
  BY ExecutorStart DEF WritesInit
<1>2. ExecutorInv /\ [WritesNext]_writeVars => ExecutorInv'
  BY ExecutorGoesOn, StepsOfParts
<1>3. ExecutorInv => StoredAsReturned
  BY DEF ExecutorInv, CallInv, RowsOf, StoredAsReturned, At
<1> QED
  BY <1>1, <1>2, <1>3, PTL DEF WritesSpec

\* Every field of a record that a generated client returns holds its own column of its own table,
\* whatever the client was generated from and whatever was pushed since
\* (generator/codegen/model_generator.go:319-395, query/executor/executor.go:856-982).
THEOREM OwnRecords == WritesSpec => []RecordsAreTheirOwn
<1>1. WritesInit => RecordsAreTheirOwn
  BY DEF WritesInit, ClientInit, NoAnswer, RecordsAreTheirOwn
<1>2. RecordsAreTheirOwn /\ [WritesNext]_writeVars => RecordsAreTheirOwn'
  BY ClientStep, StepsOfParts
<1> QED
  BY <1>1, <1>2, PTL DEF WritesSpec

\* The variables of all three keep their types: of the executor with its pool, of the
\* transactions, and of a generated client and the tables that are pushed for it.
THEOREM WritesTypeCorrect == WritesSpec => []WritesTypeOK
<1>1. WritesInit => ClientInv
  BY ClientBegins DEF WritesInit
<1>2. ClientInv /\ [WritesNext]_writeVars => ClientInv'
  BY ClientGoesOn, StepsOfParts
<1>3. TxFacts!Spec => []TxFacts!TypeOK
  BY TxBounded, TxFacts!TypeCorrect
<1>4. TxFacts!TypeOK => Tx!TypeOK
  BY DEF TxFacts!TypeOK, Tx!TypeOK, TxFacts!Savepoints, Tx!Savepoints
<1>5. TypeOK /\ Tx!TypeOK /\ ClientInv => WritesTypeOK
  BY DEF WritesTypeOK, ClientInv
<1> QED
  BY <1>1, <1>2, <1>3, <1>4, <1>5, SameSpec, ExecutorTypeCorrect, PTL DEF WritesSpec

\* Generator, converter and executor agree on the names and types of columns: what a generated
\* client asks of the plain fields of tables that serve it succeeds, whatever else was generated
\* and pushed (generator/codegen/model_generator.go:319-395, migrate/converter/ast_to_db.go:35-139).
THEOREM ServedClientsAnswered ==
  ASSUME NamesApart
  PROVE  WritesSpec => []ServedClientsWork
<1>1. WritesInit => ClientInv /\ ServedClientsWork
  BY ClientBegins DEF WritesInit, ClientInit, NoCall, ServedClientsWork
<1>2. ClientInv /\ [WritesNext]_writeVars => ClientInv'
  BY ClientGoesOn, StepsOfParts
<1>3. ClientInv /\ ServedClientsWork /\ [WritesNext]_writeVars => ServedClientsWork'
  BY ServedStep, StepsOfParts
<1> QED
  BY <1>1, <1>2, <1>3, PTL DEF WritesSpec

\* Every open level of a transaction has its savepoint, and those of the levels within are younger
\* (runtime/client/transaction.go:105-157), in a program that does other things too.
THEOREM LevelsNest == WritesSpec => []SavepointsNest
<1>1. TxFacts!SavepointsNest => SavepointsNest
  BY DEF TxFacts!SavepointsNest, SavepointsNest, Tx!SavepointsNest, Tx!Named, TxFacts!Named, Tx!Newest, TxFacts!Newest
<1>2. TxFacts!Spec => []TxFacts!SavepointsNest
  BY TxBounded, TxFacts!LevelsHaveSavepoints
<1> QED
  BY <1>1, <1>2, SameSpec, PTL

\* Transactions within transactions keep the promise of NestedTransactions: a level that
\* returns an error has its work undone, alone or with the level around it, unless its own
\* context was over by then (runtime/client/transaction.go:20-157), in a program that does
\* other things too.
THEOREM NestingKept == WritesSpec => ImplementsNesting
<1>1. TxFacts!Spec => TxFacts!ImplementsNesting
  BY TxBounded, TxFacts!LevelsAreKept
<1>2. TxFacts!ImplementsNesting => Tx!ImplementsNesting
  BY SamePromise, PTL DEF TxFacts!ImplementsNesting, Tx!ImplementsNesting, TxFacts!Promise!Spec, Tx!Promise!Spec
<1> QED
  BY <1>1, <1>2, SameSpec, PTL DEF ImplementsNesting
=============================================================================
