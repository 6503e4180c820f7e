---------------------------- MODULE RuntimeClient ----------------------------
(***************************************************************************)
(* The v3 runtime client (v3/runtime/client.go, transaction.go, batch.go): *)
(* goroutines that connect, disconnect, query, and run transactions and    *)
(* batches over one pool of connections.                                   *)
(*                                                                         *)
(* The client looks at connected under its lock, and uses db after it.     *)
(* QueryContext cancels the context of a query timeout when it returns,    *)
(* with the rows still open; a goroutine of database/sql closes them then. *)
(* A batch runs on the one connection of a transaction, with the rows of   *)
(* its queries open until it ends.  A transaction whose function panics is *)
(* neither committed nor rolled back.                                      *)
(***************************************************************************)
EXTENDS Integers, FiniteSets

CONSTANTS
  Callers,  \* goroutines that share the client
  PoolSize,    \* MaxConnections
  BatchSize,   \* operations of a batch, statements of a transaction
  MaxCalls,    \* bound: calls in a behaviour
  MaxPools     \* bound: pools opened

VARIABLES
  timeout,    \* config.QueryTimeout is positive
  connected,  \* the field of the client
  db,         \* its pool, numbered from 1; 0 is nil
  opened,     \* pools opened
  pc,         \* what a goroutine does
  call,       \* "query", "exec", "transaction" or "batch"
  pool,       \* the pool its call has taken from the client
  sent,       \* statements its transaction has executed
  rowsOpen,   \* it holds rows whose connection is not free
  cancelled,  \* the context of its transaction is done, so that database/sql rolls it back
  answer,     \* what its last call returned; "unsure" is the error of a COMMIT, or of a statement
              \* outside any transaction
  stored,     \* the statements of its last call that are committed
  calls       \* calls begun (bounded by MaxCalls)

vars == <<timeout, connected, db, opened, pc, call, pool, sent, rowsOpen, cancelled, answer, stored, calls>>

\* Program counters at which a goroutine has a connection; "abandoned" is a
\* transaction that a panic has left open.
Holding == {"run", "rows", "statements", "commit", "abandoned"}
InUse(d) == Cardinality({g \in Callers : pc[g] \in Holding /\ pool[g] = d})

Init ==
  /\ timeout \in BOOLEAN
  /\ connected = FALSE /\ db = 0 /\ opened = 0
  /\ pc = [g \in Callers |-> "idle"]
  /\ call = [g \in Callers |-> "exec"]
  /\ pool = [g \in Callers |-> 0]
  /\ sent = [g \in Callers |-> 0]
  /\ rowsOpen = [g \in Callers |-> FALSE]
  /\ cancelled = [g \in Callers |-> FALSE]
  /\ answer = [g \in Callers |-> "none"]
  /\ stored = [g \in Callers |-> 0]
  /\ calls = 0

Goto(g, label) == pc' = [pc EXCEPT ![g] = label]

Finish(g, a, n) ==
  /\ Goto(g, "idle")
  /\ answer' = [answer EXCEPT ![g] = a]
  /\ stored' = [stored EXCEPT ![g] = n]
  /\ pool' = [pool EXCEPT ![g] = 0]
  /\ sent' = [sent EXCEPT ![g] = 0]
  /\ rowsOpen' = [rowsOpen EXCEPT ![g] = FALSE]
  /\ cancelled' = [cancelled EXCEPT ![g] = FALSE]

\* Connect and Disconnect, under the lock.  Closing a pool leaves the connections
\* in use to those who hold them.
Connect ==
  /\ ~connected /\ opened < MaxPools
  /\ connected' = TRUE
  /\ opened' = opened + 1
  /\ db' = opened'
  /\ UNCHANGED <<timeout, pc, call, pool, sent, rowsOpen, cancelled, answer, stored, calls>>

Disconnect ==
  /\ connected
  /\ connected' = FALSE
  /\ db' = 0
  /\ UNCHANGED <<timeout, opened, pc, call, pool, sent, rowsOpen, cancelled, answer, stored, calls>>

\* QueryContext, ExecContext, TransactionWithOptions and Batch.Execute begin with IsConnected.
Begin(g) ==
  /\ pc[g] = "idle" /\ calls < MaxCalls
  /\ calls' = calls + 1
  /\ \E c \in {"query", "exec", "transaction", "batch"} : call' = [call EXCEPT ![g] = c]
  /\ IF connected
     THEN Goto(g, "use") /\ UNCHANGED <<answer, stored, pool, sent, rowsOpen, cancelled>>
     ELSE Finish(g, "error", 0)
  /\ UNCHANGED <<timeout, connected, db, opened>>

\* A Disconnect since then has left nil.
Use(g) ==
  /\ pc[g] = "use"
  /\ IF db = 0 THEN Finish(g, "panic", 0)
     ELSE /\ pool' = [pool EXCEPT ![g] = db]
          /\ Goto(g, "acquire")
          /\ UNCHANGED <<answer, stored, sent, rowsOpen, cancelled>>
  /\ UNCHANGED <<timeout, connected, db, opened, call, calls>>

\* Mutant of HasRoom: no limit.
HasRoom_unlimited(d) == TRUE

\* SetMaxOpenConns.
HasRoom(d) == InUse(d) < PoolSize

\* A connection of the pool, unless the pool is closed or the context ends.
Acquire(g) ==
  /\ pc[g] = "acquire"
  /\ \/ /\ pool[g] = db /\ HasRoom(db)
        /\ Goto(g, IF call[g] \in {"query", "exec"} THEN "run" ELSE "statements")
        /\ UNCHANGED <<answer, stored, pool, sent, rowsOpen, cancelled>>
     \/ Finish(g, "error", 0)
  /\ UNCHANGED <<timeout, connected, db, opened, call, calls>>

\* A query, which reads, or a statement, outside any transaction.  The database may refuse
\* a statement or stop it; one whose answer is lost, to the timeout or with the connection,
\* may have taken effect.
Run(g) ==
  /\ pc[g] = "run"
  /\ \/ call[g] = "exec" /\ Finish(g, "ok", 1)
     \/ call[g] = "exec" /\ \E n \in {0, 1} : Finish(g, "unsure", n)
     \/ call[g] = "query" /\ Finish(g, "error", 0)
     \/ /\ call[g] = "query"
        /\ Goto(g, "rows")
        /\ answer' = [answer EXCEPT ![g] = "ok"]
        /\ rowsOpen' = [rowsOpen EXCEPT ![g] = TRUE]
        /\ UNCHANGED <<stored, pool, sent, cancelled>>
  /\ UNCHANGED <<timeout, connected, db, opened, call, calls>>

\* Mutant of ContextEnded: the cancel is forgotten.
ContextEnded_never(g) == FALSE

\* QueryContext has returned, and its deferred cancel has run.
ContextEnded(g) == pc[g] = "rows" /\ timeout

\* The goroutine of database/sql that closes the rows then, whether the caller has read
\* them or not.
CancelledRows(g) ==
  /\ ContextEnded(g)
  /\ Finish(g, answer[g], 0)
  /\ UNCHANGED <<timeout, connected, db, opened, call, calls>>

\* The caller closes them, or reads to their end; it need not.
CloseRows(g) ==
  /\ pc[g] = "rows"
  /\ Finish(g, answer[g], 0)
  /\ UNCHANGED <<timeout, connected, db, opened, call, calls>>

\* A statement of the function, or an operation of the batch, succeeds.  Rows of a
\* batch stay open, and the connection takes no further statement then.
Statement(g) ==
  /\ pc[g] = "statements" /\ ~cancelled[g] /\ ~rowsOpen[g]
  /\ sent[g] < BatchSize
  /\ sent' = [sent EXCEPT ![g] = @ + 1]
  /\ \E rows \in BOOLEAN :
       /\ rows => call[g] = "batch"
       /\ rowsOpen' = [rowsOpen EXCEPT ![g] = rows]
  /\ UNCHANGED <<timeout, connected, db, opened, pc, call, pool, cancelled, answer, stored, calls>>

\* Mutant of FunctionFails: commits what was executed.
FunctionFails_commits(g) ==
  /\ pc[g] = "statements"
  /\ Finish(g, "error", sent[g])
  /\ UNCHANGED <<timeout, connected, db, opened, call, calls>>

\* The function returns an error, or an operation of the batch fails: rollback.  No
\* error is a serialization failure to isSerializationError, so that there is no retry.
FunctionFails(g) ==
  /\ pc[g] = "statements"
  /\ Finish(g, "error", 0)
  /\ UNCHANGED <<timeout, connected, db, opened, call, calls>>

\* The loop over the operations returns nil after the last one only.
BatchIsThrough(g) == sent[g] = BatchSize

\* The function returns nil; the deferred Close of the rows comes first.
FunctionReturns(g) ==
  /\ pc[g] = "statements"
  /\ call[g] = "batch" => BatchIsThrough(g)
  /\ Goto(g, "commit")
  /\ rowsOpen' = [rowsOpen EXCEPT ![g] = FALSE]
  /\ UNCHANGED <<timeout, connected, db, opened, call, pool, sent, cancelled, answer, stored, calls>>

\* Nothing recovers: the transaction stays open.
FunctionPanics(g) ==
  /\ pc[g] = "statements" /\ call[g] = "transaction"
  /\ Goto(g, "abandoned")
  /\ answer' = [answer EXCEPT ![g] = "panic"]
  /\ stored' = [stored EXCEPT ![g] = 0]
  /\ UNCHANGED <<timeout, connected, db, opened, call, pool, sent, rowsOpen, cancelled, calls>>

\* The caller's context ends: database/sql rolls the transaction back.
Cancel(g) ==
  /\ pc[g] \in {"statements", "commit"} /\ ~cancelled[g]
  /\ cancelled' = [cancelled EXCEPT ![g] = TRUE]
  /\ UNCHANGED <<timeout, connected, db, opened, pc, call, pool, sent, rowsOpen, answer, stored, calls>>

CancelAbandoned(g) ==
  /\ pc[g] = "abandoned"
  /\ Finish(g, "panic", 0)
  /\ UNCHANGED <<timeout, connected, db, opened, call, calls>>

\* A COMMIT whose answer is lost may have taken effect.
Commit(g) ==
  /\ pc[g] = "commit"
  /\ \/ ~cancelled[g] /\ Finish(g, "ok", sent[g])
     \/ ~cancelled[g] /\ \E n \in {0, sent[g]} : Finish(g, "unsure", n)
     \/ cancelled[g] /\ Finish(g, "unsure", 0)
  /\ UNCHANGED <<timeout, connected, db, opened, call, calls>>

\* What the goroutine of a call does by itself; the database answers every statement.
Proceed(g) == Use(g) \/ Acquire(g) \/ Run(g) \/ FunctionFails(g) \/ FunctionReturns(g) \/ Commit(g)

Next ==
  \/ Connect \/ Disconnect
  \/ \E g \in Callers :
       \/ Begin(g) \/ Proceed(g) \/ CancelledRows(g) \/ CloseRows(g) \/ Statement(g)
       \/ FunctionPanics(g) \/ Cancel(g) \/ CancelAbandoned(g)

\* Functions return, and database/sql serves waiters in turn and notices contexts
\* that are done.  Nothing makes a caller close its rows or end its context.
Fairness == \A g \in Callers : SF_vars(Proceed(g)) /\ WF_vars(CancelledRows(g))

Spec == Init /\ [][Next]_vars /\ Fairness

-----------------------------------------------------------------------------
\* Type correctness, with the limit of the pool.
TypeOK ==
  /\ timeout \in BOOLEAN /\ connected \in BOOLEAN
  /\ opened \in 0..MaxPools /\ db \in 0..opened
  /\ pc \in [Callers -> Holding \cup {"idle", "use", "acquire"}]
  /\ call \in [Callers -> {"query", "exec", "transaction", "batch"}]
  /\ pool \in [Callers -> 0..opened]
  /\ sent \in [Callers -> 0..BatchSize]
  /\ rowsOpen \in [Callers -> BOOLEAN]
  /\ cancelled \in [Callers -> BOOLEAN]
  /\ answer \in [Callers -> {"none", "ok", "error", "unsure", "panic"}]
  /\ stored \in [Callers -> 0..BatchSize]
  /\ calls \in 0..MaxCalls
  /\ \A d \in 1..opened : InUse(d) <= PoolSize

\* An error says that nothing is stored, unless it is that of a COMMIT or of a statement
\* outside any transaction, whose answer may be lost after it took effect; so does a
\* panic.  A batch stores all of its operations or none, and a statement that succeeds
\* is stored, whatever happens to the client, to its connection or to the context
\* meanwhile.
AllOrNothing ==
  \A g \in Callers : pc[g] = "idle" =>
    /\ answer[g] \in {"error", "panic"} => stored[g] = 0
    /\ call[g] = "batch" => stored[g] \in (IF answer[g] = "ok" THEN {BatchSize} ELSE {0, BatchSize})
    /\ call[g] = "exec" => stored[g] \in (IF answer[g] = "ok" THEN {1} ELSE {0, 1})

\* With a query timeout every connection comes back to its pool, also when a caller
\* never closes its rows; only a function that panics keeps one.
ConnectionsReturn ==
  \A g \in Callers : timeout /\ pc[g] \in Holding \ {"abandoned"} ~> pc[g] \in {"idle", "abandoned"}
=============================================================================
