-------------------------- MODULE ExecutorWrites ---------------------------
(***************************************************************************)
(* The writes of query/executor/executor.go, called by several goroutines  *)
(* over one connection pool: the transaction that Create opens for nested  *)
(* writes, the err its deferred function looks at, the connection it asks  *)
(* for while it holds one; CreateMany, which is one statement on           *)
(* PostgreSQL and a loop of Create elsewhere; Update and Upsert, which     *)
(* read their row back; Delete, UpdateMany and DeleteMany.  The cache they *)
(* invalidate is in QueryCache.                                            *)
(***************************************************************************)
EXTENDS Naturals, FiniteSets

CONSTANTS
  Clients,
  Providers,   \* the databases: "postgresql", "mysql" or "sqlite"
  NestedCalls, \* whether the calls bring nested writes: a set of BOOLEANs
  MaxRecords,  \* records of one CreateMany
  PoolSize     \* sql.DB.SetMaxOpenConns

ASSUME ClientsAssumption == IsFiniteSet(Clients)
ASSUME ProvidersAssumption == Providers \subseteq {"postgresql", "mysql", "sqlite"}
ASSUME NestedAssumption == NestedCalls \subseteq BOOLEAN
ASSUME RecordsAssumption == MaxRecords \in Nat \ {0}
ASSUME PoolAssumption == PoolSize \in Nat \ {0}

VARIABLES
  provider, \* the database of this executor
  pc,
  asked,   \* asked[c]: the records it is to create: 1, those of its CreateMany, or 0
  left,    \* left[c]: those it has not created yet
  nested,  \* nested[c]: the call has nested writes, and so a transaction
  hasId,   \* hasId[c]: the data is a struct with an Id field
  err,     \* err[c]: the err of the outermost scope is not nil
  answer,  \* answer[c]: "none" yet, "record", "error" or "panic", which its caller recovers
  inTx,    \* inTx[c]: its transaction is open and holds a connection
  pending, \* pending[c]: copies of its row inserted in the transaction
  stored   \* stored[c]: copies of its row committed

vars == <<provider, pc, asked, left, nested, hasId, err, answer, inTx, pending, stored>>

PCs == {"idle", "begin", "insert", "insertMany", "write", "find", "lastId", "nestedWrites", "readBack", "again",
        "deferred", "done"}

TypeOK ==
  /\ provider \in Providers
  /\ pc \in [Clients -> PCs]
  /\ asked \in [Clients -> 0..MaxRecords] /\ left \in [Clients -> 0..MaxRecords]
  /\ nested \in [Clients -> BOOLEAN] /\ hasId \in [Clients -> BOOLEAN]
  /\ err \in [Clients -> BOOLEAN] /\ inTx \in [Clients -> BOOLEAN]
  /\ answer \in [Clients -> {"none", "record", "error", "panic"}]
  /\ pending \in [Clients -> 0..1] /\ stored \in [Clients -> 0..(MaxRecords + 1)]
  /\ Cardinality({c \in Clients : inTx[c]}) <= PoolSize

Init ==
  /\ provider \in Providers
  /\ pc = [c \in Clients |-> "idle"]
  /\ asked = [c \in Clients |-> 0] /\ left = [c \in Clients |-> 0]
  /\ nested = [c \in Clients |-> FALSE] /\ hasId = [c \in Clients |-> FALSE]
  /\ err = [c \in Clients |-> FALSE] /\ inTx = [c \in Clients |-> FALSE]
  /\ answer = [c \in Clients |-> "none"]
  /\ pending = [c \in Clients |-> 0] /\ stored = [c \in Clients |-> 0]

\* Statements outside transactions give their connection back as they end; they need
\* one that no open transaction holds.
FreeConnection == Cardinality({c \in Clients : inTx[c]}) < PoolSize

At(c, p) == pc[c] = p
GoTo(c, p) == pc' = [pc EXCEPT ![c] = p]
Answer(c, a) == answer' = [answer EXCEPT ![c] = a]

\* return: the deferred function runs if a transaction was opened; the loop of
\* CreateMany goes on to the next record, or returns the error.  A panic runs the deferred
\* function like a return.
Return(c, a) ==
  IF a = "record" /\ left[c] > 1
    THEN /\ left' = [left EXCEPT ![c] = @ - 1]
         /\ GoTo(c, "insert")
         /\ UNCHANGED answer
    ELSE /\ Answer(c, a)
         /\ GoTo(c, IF inTx[c] THEN "deferred" ELSE "done")
         /\ UNCHANGED left

-----------------------------------------------------------------------------
\* A call starts with variables of its own; stored and pending count its rows alone.
Start(c, label, records, withNested, withId) ==
  /\ pc[c] \in {"idle", "done"}
  /\ GoTo(c, label)
  /\ asked' = [asked EXCEPT ![c] = records]
  /\ left' = [left EXCEPT ![c] = records]
  /\ nested' = [nested EXCEPT ![c] = withNested]
  /\ hasId' = [hasId EXCEPT ![c] = withId]
  /\ err' = [err EXCEPT ![c] = FALSE]
  /\ Answer(c, "none")
  /\ UNCHANGED <<provider, inTx, pending>>

\* Mutant of Call: a second call goes on with the rows of the first.
Call_goesOn(c, withNested, withId) ==
  /\ Start(c, IF withNested THEN "begin" ELSE "insert", 1, withNested, withId)
  /\ UNCHANGED stored

Call(c, withNested, withId) ==
  /\ Start(c, IF withNested THEN "begin" ELSE "insert", 1, withNested, withId)
  /\ stored' = [stored EXCEPT ![c] = 0]

CallMany(c, records) ==
  /\ Start(c, IF provider = "postgresql" THEN "insertMany" ELSE "insert", records, FALSE, FALSE)
  /\ stored' = [stored EXCEPT ![c] = 0]

\* Update, Upsert, Delete, UpdateMany and DeleteMany.
CallWrite(c) ==
  /\ Start(c, "write", 0, FALSE, FALSE)
  /\ stored' = [stored EXCEPT ![c] = 0]

BeginTx(c) ==
  /\ At(c, "begin") /\ FreeConnection
  /\ GoTo(c, "insert")
  /\ inTx' = [inTx EXCEPT ![c] = TRUE]
  /\ UNCHANGED <<provider, asked, left, nested, hasId, err, answer, pending, stored>>

BeginFails(c) ==
  /\ At(c, "begin")
  /\ Return(c, "error")
  /\ UNCHANGED <<provider, asked, nested, hasId, err, inTx, pending, stored>>

Insert(c) ==
  /\ At(c, "insert")
  /\ IF inTx[c]
       THEN /\ pending' = [pending EXCEPT ![c] = 1]
            /\ UNCHANGED stored
       ELSE /\ FreeConnection
            /\ stored' = [stored EXCEPT ![c] = @ + 1]
            /\ UNCHANGED pending
  /\ GoTo(c, "lastId")
  /\ UNCHANGED <<provider, asked, left, nested, hasId, err, answer, inTx>>

\* The data cannot be mapped to columns, or the INSERT fails.
InsertFails(c) ==
  /\ At(c, "insert")
  /\ inTx[c] \/ FreeConnection
  /\ err' = [err EXCEPT ![c] = TRUE]
  /\ Return(c, "error")
  /\ UNCHANGED <<provider, asked, nested, hasId, inTx, pending, stored>>

\* Mutant of LastInsertId: takes the way of PostgreSQL on every provider.
LastInsertId_postgresOnly(c) ==
  /\ At(c, "lastId")
  /\ GoTo(c, "again")
  /\ UNCHANGED <<provider, asked, left, nested, hasId, err, answer, inTx, pending, stored>>

\* Mutant of LastInsertId: inserts again until there is an id.
LastInsertId_retries(c) ==
  /\ At(c, "lastId")
  /\ GoTo(c, IF provider = "postgresql" /\ ~hasId[c] THEN "insert" ELSE "readBack")
  /\ stored' = [stored EXCEPT ![c] = 0]
  /\ UNCHANGED <<provider, asked, left, nested, hasId, err, answer, inTx, pending>>

\* lib/pq has no LastInsertId: its error is left in err, and the id comes from the data
\* if it has one.
LastInsertId(c) ==
  LET postgres == provider = "postgresql"
      idKnown == ~postgres \/ hasId[c]
  IN  /\ At(c, "lastId")
      /\ err' = [err EXCEPT ![c] = postgres]
      /\ GoTo(c, IF nested[c]
                   THEN (IF idKnown THEN "nestedWrites" ELSE "readBack")
                   ELSE (IF postgres THEN "again" ELSE "readBack"))
      /\ UNCHANGED <<provider, asked, left, nested, hasId, answer, inTx, pending, stored>>

\* The map of relations given to ExecuteNestedWrites is empty, so the first operation
\* fails, whatever it is; its error lives in an err of the inner scope.
NestedWrites(c) ==
  /\ At(c, "nestedWrites")
  /\ Return(c, "error")
  /\ UNCHANGED <<provider, asked, nested, hasId, err, inTx, pending, stored>>

\* FindFirst on a connection of the pool, inside a transaction too.  If it fails the
\* data itself is returned.  The row is to be mapped to the fields of an interface{},
\* which has none: a row that is found makes it panic.  Inside a transaction the id is
\* nil, and no row has that.
ReadBack(c) ==
  /\ At(c, "readBack") /\ FreeConnection
  /\ \/ Return(c, "record")
     \/ ~inTx[c] /\ Return(c, "panic")
  /\ UNCHANGED <<provider, asked, nested, hasId, err, inTx, pending, stored>>

\* PostgreSQL: the INSERT with RETURNING is sent once more for its row; with an id or
\* another unique column it fails.
InsertAgain(c) ==
  /\ At(c, "again") /\ FreeConnection
  /\ \/ /\ stored' = [stored EXCEPT ![c] = @ + 1]
        /\ Return(c, "record")
     \/ /\ Return(c, "error")
        /\ UNCHANGED stored
  /\ UNCHANGED <<provider, asked, nested, hasId, err, inTx, pending>>

\* The multi-row INSERT; a returned row may not fit the struct.
InsertMany(c) ==
  /\ At(c, "insertMany") /\ FreeConnection
  /\ UNCHANGED <<provider, asked, left, nested, hasId, err, inTx, pending>>
  /\ GoTo(c, "done")
  /\ \/ Answer(c, "error") /\ UNCHANGED stored
     \/ /\ \E a \in {"record", "error"} : Answer(c, a)
        /\ stored' = [stored EXCEPT ![c] = asked[c]]

\* One statement, with RETURNING for the row of an Update or Upsert on PostgreSQL; the
\* other databases are asked for the row afterwards.
Write(c) ==
  /\ At(c, "write") /\ FreeConnection
  /\ \/ Return(c, "error") /\ UNCHANGED stored
     \/ /\ \/ Return(c, "record")
           \/ provider = "postgresql" /\ Return(c, "error")
           \/ provider # "postgresql" /\ GoTo(c, "find") /\ UNCHANGED <<left, answer>>
        /\ stored' = [stored EXCEPT ![c] = 1]
  /\ UNCHANGED <<provider, asked, nested, hasId, err, inTx, pending>>

\* FindFirst with the WHERE of the Update, which the row need not match any more.  That
\* of an Upsert returns the data if it fails and panics over a row, as in Create.
FindBack(c) ==
  /\ At(c, "find") /\ FreeConnection
  /\ \E a \in {"record", "error", "panic"} : Return(c, a)
  /\ UNCHANGED <<provider, asked, nested, hasId, err, inTx, pending, stored>>

\* The deferred function: rollback or commit by err, their own errors ignored.
Deferred(c) ==
  /\ At(c, "deferred")
  /\ \E committed \in {0, IF err[c] THEN 0 ELSE pending[c]} :
       stored' = [stored EXCEPT ![c] = @ + committed]
  /\ pending' = [pending EXCEPT ![c] = 0]
  /\ inTx' = [inTx EXCEPT ![c] = FALSE]
  /\ GoTo(c, "done")
  /\ UNCHANGED <<provider, asked, left, nested, hasId, err, answer>>

\* Steps that may have to wait for a connection.
Connected(c) == BeginTx(c) \/ Insert(c) \/ ReadBack(c) \/ InsertAgain(c)
                \/ InsertMany(c) \/ Write(c) \/ FindBack(c)

Next ==
  \E c \in Clients :
    \/ \E withNested \in NestedCalls, withId \in BOOLEAN : Call(c, withNested, withId)
    \/ \E records \in 1..MaxRecords : CallMany(c, records)
    \/ CallWrite(c)
    \/ BeginFails(c) \/ InsertFails(c) \/ LastInsertId(c) \/ NestedWrites(c)
    \/ Deferred(c) \/ Connected(c)

\* Goroutines run on.  sql.DB hands a connection that is given back to somebody who
\* waits for one, so who asks for ever while connections come free again and again
\* gets one.
Fairness ==
  \A c \in Clients :
    /\ WF_vars(LastInsertId(c) \/ NestedWrites(c) \/ Deferred(c))
    /\ SF_vars(Connected(c))

Spec == Init /\ [][Next]_vars /\ Fairness

-----------------------------------------------------------------------------
(* Properties.                                                             *)

\* The driver tells the id of the row, and no nested writes ask for a transaction.
Plain(c) == provider # "postgresql" /\ ~nested[c] /\ asked[c] > 0

\* A plain Create that returns an error has stored nothing, wherever it failed, and a
\* CreateMany exactly the records before the one it failed at; one that panics has
\* stored the record it panics over too.  "Create executes an INSERT query and returns
\* the created record": there is one row per record a plain Create returns, and on every
\* database one per record of a CreateMany.
StoredAsReturned ==
  \A c \in Clients : At(c, "done") =>
    /\ answer[c] = "error" /\ Plain(c) => stored[c] = asked[c] - left[c]
    /\ answer[c] = "panic" /\ Plain(c) => stored[c] = asked[c] - left[c] + 1
    /\ answer[c] = "record" /\ (Plain(c) \/ asked[c] > 1) => stored[c] = asked[c]

\* Every write that was called returns, or panics.
WritesReturn == \A c \in Clients : pc[c] # "idle" ~> pc[c] = "done"
=============================================================================
