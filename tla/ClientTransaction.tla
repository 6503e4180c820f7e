------------------------- MODULE ClientTransaction -------------------------
(***************************************************************************)
(* Transactions of the runtime client, runtime/client/transaction.go, with *)
(* the savepoints of the database beneath them.  The functions given to    *)
(* Transaction and NestedTransaction are arbitrary: they write, see        *)
(* statements fail, nest, and return nil, an error or panic; they may go   *)
(* on after the error or panic of a nested transaction.                    *)
(***************************************************************************)
EXTENDS Naturals, SequencesExt

CONSTANTS
  Works,         \* the rows the functions may write
  Providers,     \* the databases: "postgresql", "mysql" or "sqlite"
  MaxDepth,      \* bound: levels of nesting
  MaxSavepoints  \* bound: savepoints the database remembers

VARIABLES
  provider,   \* the database of this client
  running,    \* a Transaction call is under way
  depth,      \* tx.depth
  frames,     \* the savepointName of every NestedTransaction call, outermost first
  outcome,    \* what the Transaction or NestedTransaction that ended last returned
  committed,  \* database: committed work
  work,       \* database: what the open transaction sees
  savepoints, \* database: the savepoints it remembers, oldest first
  aborted,    \* database: refuses everything but a rollback (PostgreSQL)
  alone,      \* database: the transaction is over, statements commit by themselves
  lost,       \* the connection or the transaction's context is gone, sql.Tx is done
  expired,    \* the context of the innermost NestedTransaction call is over
  start       \* history: committed work when the transaction began

client == <<running, depth, frames, outcome>>
server == <<committed, work, savepoints, aborted, alone>>
vars == <<client, server, lost, expired, start, provider>>

Savepoints == [name : 1..MaxDepth, work : SUBSET Works]

TypeOK ==
  /\ provider \in Providers
  /\ running \in BOOLEAN
  /\ depth \in 0..MaxDepth
  /\ frames \in Seq(1..MaxDepth)
  /\ outcome \in {"none", "ok", "error", "unsure", "panicked"}
  /\ committed \subseteq Works /\ work \subseteq Works /\ start \subseteq Works
  /\ savepoints \in Seq(Savepoints)
  /\ aborted \in BOOLEAN /\ alone \in BOOLEAN /\ lost \in BOOLEAN /\ expired \in BOOLEAN

Init ==
  /\ provider \in Providers
  /\ running = FALSE
  /\ depth = 0 /\ frames = <<>> /\ outcome = "none"
  /\ committed = {} /\ work = {} /\ savepoints = <<>>
  /\ aborted = FALSE /\ alone = FALSE /\ lost = FALSE /\ expired = FALSE
  /\ start = {}

-----------------------------------------------------------------------------
(* The database.                                                           *)

\* A statement can be executed.
Usable == ~aborted /\ ~lost

Named(n) == {i \in DOMAIN savepoints : savepoints[i].name = n}

\* The newest savepoint of that name is the one RELEASE and ROLLBACK TO mean.
Newest(n) == CHOOSE i \in Named(n) : \A j \in Named(n) : j <= i

\* SAVEPOINT: MySQL drops an older savepoint of the name, the others hide it.
WithSavepoint(n) ==
  LET others == IF provider = "mysql" /\ Named(n) # {}
                  THEN RemoveAt(savepoints, Newest(n))
                  ELSE savepoints
  IN  Append(others, [name |-> n, work |-> work])

\* RELEASE forgets the savepoint and the later ones and undoes nothing.
Release(n) ==
  /\ savepoints' = SubSeq(savepoints, 1, Newest(n) - 1)
  /\ UNCHANGED <<committed, work, aborted, alone>>

\* ROLLBACK TO keeps the savepoint and forgets the later ones.
RollbackTo(n) ==
  /\ savepoints' = SubSeq(savepoints, 1, Newest(n))
  /\ work' = savepoints[Newest(n)].work
  /\ aborted' = FALSE
  /\ UNCHANGED <<committed, alone>>

-----------------------------------------------------------------------------
(* Transaction and what its function does.                                 *)

Begin ==
  /\ ~running
  /\ running' = TRUE
  /\ depth' = 0 /\ frames' = <<>> /\ outcome' = "none"
  /\ work' = committed /\ savepoints' = <<>>
  /\ aborted' = FALSE /\ alone' = FALSE /\ lost' = FALSE /\ expired' = FALSE
  /\ start' = committed
  /\ UNCHANGED <<committed, provider>>

Write(w) ==
  /\ running /\ Usable
  /\ work' = work \cup {w}
  /\ committed' = IF alone THEN committed \cup {w} ELSE committed
  /\ UNCHANGED <<client, savepoints, aborted, alone, lost, expired, start, provider>>

\* A failed statement dooms what follows on PostgreSQL only.
StatementFails ==
  /\ running /\ Usable
  /\ aborted' = (provider = "postgresql")
  /\ UNCHANGED <<client, committed, work, savepoints, alone, lost, expired, start, provider>>

\* InnoDB chose this transaction to break a deadlock: it is rolled back as a whole,
\* and what follows on the connection is not in a transaction.
DeadlockVictim ==
  /\ provider = "mysql"
  /\ running /\ Usable /\ ~alone
  /\ work' = committed /\ savepoints' = <<>> /\ alone' = TRUE
  /\ UNCHANGED <<client, committed, aborted, lost, expired, start, provider>>

\* The connection breaks or the context is cancelled, and the server rolls back.
Lose ==
  /\ running /\ ~lost
  /\ lost' = TRUE
  /\ UNCHANGED <<client, server, expired, start, provider>>

Finish(result) ==
  /\ running' = FALSE
  /\ outcome' = result
  /\ UNCHANGED <<depth, frames, expired, start, provider>>

Return ==
  /\ running /\ frames = <<>>
  /\ \/ /\ Usable
        /\ committed' = IF alone THEN committed ELSE work
        /\ Finish("ok")
     \/ /\ ~alone  \* the commit fails, before or after it took effect
        /\ \/ committed' = committed
           \/ Usable /\ committed' = work
        /\ Finish("unsure")
  /\ UNCHANGED <<work, savepoints, aborted, alone, lost>>

ReturnError ==
  /\ running /\ frames = <<>>
  /\ Finish("error")
  /\ UNCHANGED <<server, lost>>

Panics ==
  /\ running /\ frames = <<>>
  /\ Finish("panicked")
  /\ UNCHANGED <<server, lost>>

-----------------------------------------------------------------------------
(* NestedTransaction.                                                      *)

\* Mutant of SavepointName: one name at every depth.
SavepointName_constant(d) == 1

SavepointName(d) == d

\* depth++ and SAVEPOINT.
Enter ==
  /\ running /\ Usable
  /\ depth < MaxDepth /\ Len(savepoints) < MaxSavepoints
  /\ depth' = depth + 1
  /\ frames' = Append(frames, SavepointName(depth'))
  /\ savepoints' = IF alone THEN savepoints ELSE WithSavepoint(SavepointName(depth'))
  /\ expired' = FALSE  \* that of the level around counts again when it is innermost
  /\ UNCHANGED <<running, outcome, committed, work, aborted, alone, lost, start, provider>>

\* SAVEPOINT fails, on an unusable transaction or because the context given with the
\* call is over: the depth is put back and the function around goes on with the error.
EnterFails ==
  /\ running
  /\ depth' = depth
  /\ UNCHANGED <<running, frames, outcome, server, lost, expired, start, provider>>

\* The caller of the innermost NestedTransaction cancels the context given to it, or
\* its time is up; the transaction's own is another.
Expire ==
  /\ running /\ frames # <<>> /\ ~expired
  /\ expired' = TRUE
  /\ UNCHANGED <<client, server, lost, start, provider>>

Leave(result) ==
  /\ depth' = depth - 1
  /\ frames' = Front(frames)
  /\ outcome' = result
  /\ expired' = FALSE
  /\ UNCHANGED <<running, lost, start, provider>>

\* The function returned nil.  RELEASE fails on an aborted or finished transaction, and
\* when the context is over, at once or while it is executed; the error goes to the
\* function around, nothing is undone here.
NestedReturns ==
  LET usable == Usable /\ Named(Last(frames)) # {}
  IN  /\ running /\ frames # <<>>
      /\ \/ usable /\ Release(Last(frames)) /\ Leave(IF expired THEN "error" ELSE "ok")
         \/ ~(usable /\ ~expired) /\ UNCHANGED server /\ Leave("error")

\* Mutant of NestedFails: releases the savepoint on the error path as well.
NestedFails_releases ==
  /\ running /\ frames # <<>>
  /\ IF ~lost /\ Named(Last(frames)) # {}
       THEN /\ savepoints' = SubSeq(savepoints, 1, Newest(Last(frames)) - 1)
            /\ UNCHANGED <<committed, work, alone>>
            /\ aborted' = FALSE
       ELSE UNCHANGED server
  /\ Leave("error") \/ Leave("panicked")

\* The function returned an error or panicked.  ROLLBACK TO takes the same context.
NestedFails ==
  LET usable == ~lost /\ Named(Last(frames)) # {}
  IN  /\ running /\ frames # <<>>
      /\ \/ usable /\ RollbackTo(Last(frames))
         \/ ~(usable /\ ~expired) /\ UNCHANGED server
      /\ Leave("error") \/ Leave("panicked")

Next ==
  \/ Begin \/ StatementFails \/ DeadlockVictim \/ Lose
  \/ Return \/ ReturnError \/ Panics
  \/ Enter \/ EnterFails \/ Expire \/ NestedReturns \/ NestedFails
  \/ \E w \in Works : Write(w)

Spec == Init /\ [][Next]_vars

-----------------------------------------------------------------------------
(* Properties.                                                             *)

\* depth counts the open levels on every way in and out, so that their savepoints differ
\* in name.  As long as the database is reachable every open level has its savepoint,
\* and the newest of its name is younger than that of the level around it, although
\* levels that failed have left savepoints of the same names behind.
SavepointsNest ==
  running =>
    /\ depth = Len(frames) /\ \A i \in DOMAIN frames : frames[i] = i
    /\ ~lost /\ ~alone =>
         /\ \A i \in DOMAIN frames : Named(frames[i]) # {}
         /\ \A i, j \in DOMAIN frames : i < j => Newest(frames[i]) < Newest(frames[j])

\* What a level would go back to is what it saw when it began.
Levels ==
  IF running /\ ~alone
    THEN <<start>> \o [i \in DOMAIN frames |-> savepoints[Newest(frames[i])].work]
    ELSE <<>>

\* Transactions and the savepoints under them keep the promise of NestedTransactions:
\* a level that returns an error has its work undone, alone or with the level around,
\* unless its own context was over by then; until the database has ended the transaction
\* by itself.
Promise == INSTANCE NestedTransactions WITH
  current <- IF running \/ outcome = "ok" THEN work ELSE committed,
  levels <- Levels,
  doomed <- running /\ (aborted \/ lost),
  voided <- alone,
  outcome <- IF outcome = "panicked" THEN "error" ELSE outcome
ImplementsNesting == Promise!Spec
=============================================================================
