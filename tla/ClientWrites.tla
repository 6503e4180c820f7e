---------------------------- MODULE ClientWrites ----------------------------
(***************************************************************************)
(* How a program works with the library: goroutines that call the executor *)
(* (ExecutorWrites), the transactions of the client, one within the other  *)
(* (ClientTransaction), and the calls of a generated client beside a schema*)
(* that goes on changing (GeneratedClient).  A transaction has a sql.Tx and*)
(* a connection of its own, and what the columns of a table are called has *)
(* nothing to do with who waits for whom: the three share no state, so that*)
(* one behaviour follows one of them.                                      *)
(***************************************************************************)
EXTENDS ExecutorWrites, GeneratedClient

CONSTANTS
  Works, MaxDepth, MaxSavepoints \* of ClientTransaction

ASSUME BoundsAssumption == MaxDepth \in Nat /\ MaxSavepoints \in Nat /\ MaxFeatures \in Nat
ASSUME DatabasesAssumption == Databases \subseteq {"postgresql", "mysql", "sqlite"}

VARIABLES
  part, \* "executor", "transaction" or "generated"
  running, depth, frames, outcome, committed, work, savepoints, aborted, alone, lost, expired, start

Tx == INSTANCE ClientTransaction

txVars == <<running, depth, frames, outcome, committed, work, savepoints, aborted, alone, lost, expired, start>>
writeVars == <<part, vars, txVars, clientVars>>

\* The parts a behaviour does not follow stand still where they begin.
Idle ==
  /\ part # "generated" => database = (CHOOSE d \in Databases : TRUE)
  /\ part = "generated" => provider = (CHOOSE p \in Providers : TRUE)

WritesInit ==
  /\ Init
  /\ Tx!Init
  /\ ClientInit
  /\ part \in {"executor", "transaction", "generated"}
  /\ Idle

WritesNext ==
  /\ \/ part = "executor" /\ Next /\ UNCHANGED <<txVars, clientVars>>
     \/ part = "transaction" /\ Tx!Next /\ UNCHANGED <<vars, clientVars>>
     \/ part = "generated" /\ ClientNext /\ UNCHANGED <<vars, txVars>>
  /\ UNCHANGED part

\* The fairness of ExecutorWrites; nothing obliges a transaction or a
\* generated client to go on.
WritesSpec == WritesInit /\ [][WritesNext]_writeVars /\ Fairness

-----------------------------------------------------------------------------
\* Type correctness of the executor, of the transactions and of the generated client.
WritesTypeOK == TypeOK /\ Tx!TypeOK /\ ClientTypeOK

\* ClientTransaction: depth counts the levels, and each has its savepoint, in their order.
SavepointsNest == Tx!SavepointsNest

\* ClientTransaction: levels keep the promise of NestedTransactions.
ImplementsNesting == Tx!ImplementsNesting
=============================================================================
