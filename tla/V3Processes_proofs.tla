------------------------- MODULE V3Processes_proofs -------------------------
(***************************************************************************)
(* Proofs about the processes of v3, for any numbers of goroutines,        *)
(* connections, middlewares and retries: type correctness with the limit   *)
(* of the pool; calls of the runtime client that fail store nothing, and   *)
(* batches all or nothing; a chain passes over no middleware.  First, that *)
(* v3 calls no migration applied that was not executed, and applies them   *)
(* in their order: for any processes and migrations, failures and crashes, *)
(* on both providers, connected or not.                                    *)
(***************************************************************************)
EXTENDS V3Processes, FiniteSetTheorems, SequenceTheorems, WellFoundedInduction, TLAPS

-----------------------------------------------------------------------------
(* The migration service.                                                  *)

\* Min and Max of the community module are what their names say.
LEMMA Least ==
  ASSUME NEW S \in SUBSET Nat, S # {}
  PROVE  Min(S) \in S /\ \A n \in S : Min(S) <= n
<1> DEFINE R == OpToRel(<, Nat)
<1>1. IsWellFoundedOn(R, Nat)
  BY NatLessThanWellFounded
<1>2. \A x, y \in Nat : x < y => <<x, y>> \in R
  BY DEF OpToRel
<1> HIDE DEF R
<1>3. PICK x \in S : \A y \in S : ~(<<y, x>> \in R)
  BY <1>1, WFMin
<1>4. ASSUME NEW y \in S PROVE x <= y
  <2>1. x \in Nat /\ y \in Nat
    OBVIOUS
  <2>2. ~(y < x)
    BY <1>2, <1>3, <2>1, Zenon
  <2> QED
    BY <2>1, <2>2
<1> QED
  BY <1>3, <1>4 DEF Min

\* A set of migrations is finite, so that a reset finds the newest one to begin with.
LEMMA Greatest ==
  ASSUME NEW S \in SUBSET Migrations, S # {}
  PROVE  Max(S) \in S
<1> DEFINE T == {MaxMigration - n : n \in S}
<1>1. MaxMigration \in Nat /\ \A n \in S : n \in 1..MaxMigration
  BY MigrationAssumption DEF Migrations
<1>2. \A n \in S : MaxMigration - n \in Nat
  BY <1>1
<1>3. T \in SUBSET Nat /\ T # {}
  BY <1>2
<1>4. Min(T) \in T /\ \A k \in T : Min(T) <= k
  BY <1>3, Least
<1>5. PICK n \in S : Min(T) = MaxMigration - n
  BY <1>4
<1>6. \A k \in S : MaxMigration - n <= MaxMigration - k
  BY <1>4, <1>5
<1>7. \A k \in S : n >= k
  BY <1>1, <1>6
<1> QED
  BY <1>7 DEF Max

-----------------------------------------------------------------------------
Applying == {"find", "execute", "saveFailed", "mark", "record"}

\* A loop that runs has a migration to be at.
LoopsHaveMore == \A p \in Procs : ~Free(p) => todo[p] # {}

\* What is marked, recorded, or about to be, was executed.  A reset moves migrations from
\* executed to undone, and nothing leaves both.
Effected == executed \cup undone
EffectsPrecede ==
  /\ \A m \in Written : file[m] = "Applied" \/ m \in history => m \in Effected
  /\ \A p \in Procs : pc[p] \in {"mark", "record"} /\ Min(todo[p]) \in Written => Min(todo[p]) \in Effected

\* A loop over written migrations still has all that are pending before it, and what it
\* drops has a status and is pending no more.
PendingAreTodo ==
  \A p \in Procs : pc[p] \in Applying =>
    /\ todo[p] \cap Written # {} => \A n \in Written : file[n] = "Pending" => n \in todo[p]
    /\ pc[p] = "record" => file[Min(todo[p])] \notin {"none", "Pending"}

\* What `migrate dev' creates is none of the written ones.
WrittenStay == \A m \in Written : file[m] # "none"

IInv == TypeOK /\ LoopsHaveMore /\ EffectsPrecede /\ PendingAreTodo /\ WrittenStay

\* The migration a loop is at is one of those it still has to do; apply loops are at the first.
LEMMA CurrentIsTodo ==
  ASSUME TypeOK, LoopsHaveMore, NEW p \in Procs, ~Free(p)
  PROVE  /\ Current(p) \in todo[p] /\ Current(p) \in Migrations
         /\ pc[p] \in Applying => /\ Current(p) = Min(todo[p])
                                  /\ \A n \in todo[p] : Min(todo[p]) <= n
<1>1. todo[p] \in SUBSET Migrations /\ todo[p] # {}
  BY DEF TypeOK, LoopsHaveMore
<1>2. todo[p] \in SUBSET Nat
  BY <1>1 DEF Migrations
<1>3. Min(todo[p]) \in todo[p] /\ \A n \in todo[p] : Min(todo[p]) <= n
  BY <1>1, <1>2, Least
<1>4. Max(todo[p]) \in todo[p]
  BY <1>1, Greatest
<1> QED
  BY <1>1, <1>3, <1>4 DEF Current, Applying

\* Written migrations start as pending files, with no process in a loop.
LEMMA InitIInv == Init => IInv
<1> SUFFICES ASSUME Init PROVE IInv
  OBVIOUS
<1>1. TypeOK
  BY MigrationAssumption DEF Init, TypeOK, Statuses, PCs
<1>2. LoopsHaveMore /\ EffectsPrecede /\ PendingAreTodo /\ WrittenStay
  BY MigrationAssumption DEF Init, WrittenStay, LoopsHaveMore, EffectsPrecede, PendingAreTodo, Free, Applying, Effected
<1> QED
  BY <1>1, <1>2 DEF IInv

\* Every step of a command, every failure and every crash preserves the invariant.
LEMMA NextIInv == IInv /\ [Next]_vars => IInv'
<1> SUFFICES ASSUME IInv, [Next]_vars PROVE IInv'
  OBVIOUS
<1> USE DEF IInv
<1>0. ASSUME NEW p \in Procs, ~Free(p)
      PROVE  /\ Current(p) \in todo[p] /\ Current(p) \in Migrations
             /\ pc[p] \in Applying => /\ Current(p) = Min(todo[p])
                                      /\ \A n \in todo[p] : Min(todo[p]) <= n
  BY <1>0, CurrentIsTodo
<1>1. ASSUME NEW p \in Procs, Dev(p) PROVE IInv'
  <2> USE <1>1 DEF Dev, StartLoop, GoTo, SetStatus, WithStatus, Free
  <2>1. TypeOK'
    BY MigrationAssumption DEF TypeOK, Statuses, PCs, Migrations
  <2>2. LoopsHaveMore'
    BY MigrationAssumption DEF TypeOK, LoopsHaveMore
  <2>3. EffectsPrecede'
    BY MigrationAssumption DEF TypeOK, EffectsPrecede, Effected, Applying
  <2>4. PendingAreTodo'
    <3>1. PICK m \in Migrations :
            /\ file[m] = "none" /\ todo' = [todo EXCEPT ![p] = {m}] /\ pc' = [pc EXCEPT ![p] = "find"]
            /\ file' = [file EXCEPT ![m] = file'[m]]
      BY DEF TypeOK
    <3>2. m \notin Written
      BY <3>1 DEF WrittenStay
    <3>3. ASSUME NEW q \in Procs, pc'[q] \in Applying
          PROVE  /\ todo'[q] \cap Written # {} => \A n \in Written : file'[n] = "Pending" => n \in todo'[q]
                 /\ pc'[q] = "record" => file'[Min(todo'[q])] \notin {"none", "Pending"}
      <4>1. CASE q = p
        BY <3>1, <3>2, <4>1 DEF TypeOK
      <4>2. CASE q # p
        <5>1. pc'[q] = pc[q] /\ todo'[q] = todo[q]
          BY <3>1, <4>2 DEF TypeOK
        <5>2. \A n \in Written : file'[n] = file[n]
          BY <3>1, <3>2, MigrationAssumption DEF TypeOK
        <5>3. pc[q] = "record" => file'[Min(todo[q])] = file[Min(todo[q])]
          BY <3>1, <5>1 DEF PendingAreTodo, TypeOK, Applying
        <5> QED
          BY <3>3, <5>1, <5>2, <5>3 DEF PendingAreTodo
      <4> QED
        BY <4>1, <4>2
    <3> QED
      BY <3>3 DEF PendingAreTodo
  <2>5. WrittenStay'
    BY MigrationAssumption DEF TypeOK, WrittenStay
  <2> QED
    BY <2>1, <2>2, <2>3, <2>4, <2>5
<1>2. ASSUME NEW p \in Procs, Deploy(p) PROVE IInv'
  <2> USE <1>2 DEF Deploy, StartLoop, GoTo, WithStatus, Free
  <2>1. TypeOK'
    BY MigrationAssumption DEF TypeOK, Statuses, PCs, Migrations
  <2>2. LoopsHaveMore'
    BY MigrationAssumption DEF TypeOK, LoopsHaveMore
  <2>3. EffectsPrecede'
    BY MigrationAssumption DEF TypeOK, EffectsPrecede, Effected, Applying
  <2>4. PendingAreTodo'
    BY MigrationAssumption DEF TypeOK, PendingAreTodo, Applying
  <2>5. WrittenStay'
    BY MigrationAssumption DEF TypeOK, WrittenStay
  <2> QED
    BY <2>1, <2>2, <2>3, <2>4, <2>5
<1>3. ASSUME NEW p \in Procs, Reset(p) PROVE IInv'
  <2> USE <1>3 DEF Reset, StartLoop, GoTo, WithStatus, Free
  <2>1. TypeOK'
    BY MigrationAssumption DEF TypeOK, Statuses, PCs, Migrations
  <2>2. LoopsHaveMore'
    BY MigrationAssumption DEF TypeOK, LoopsHaveMore
  <2>3. EffectsPrecede'
    BY MigrationAssumption DEF TypeOK, EffectsPrecede, Effected, Applying
  <2>4. PendingAreTodo'
    BY MigrationAssumption DEF TypeOK, PendingAreTodo, Applying
  <2>5. WrittenStay'
    BY MigrationAssumption DEF TypeOK, WrittenStay
  <2> QED
    BY <2>1, <2>2, <2>3, <2>4, <2>5
<1>4. ASSUME NEW p \in Procs, Find(p) PROVE IInv'
  <2> USE <1>4 DEF Find, Fail, GoTo, At, Free
  <2>1. TypeOK'
    BY <1>0, MigrationAssumption DEF TypeOK, Statuses, PCs, Migrations
  <2>2. LoopsHaveMore'
    BY <1>0, MigrationAssumption DEF TypeOK, LoopsHaveMore
  <2>3. EffectsPrecede'
    BY <1>0, MigrationAssumption DEF TypeOK, EffectsPrecede, Effected, Applying
  <2>4. PendingAreTodo'
    BY <1>0, MigrationAssumption DEF TypeOK, PendingAreTodo, Applying
  <2>5. WrittenStay'
    BY MigrationAssumption DEF TypeOK, WrittenStay
  <2> QED
    BY <2>1, <2>2, <2>3, <2>4, <2>5
<1>5. ASSUME NEW p \in Procs, Execute(p) PROVE IInv'
  <2> USE <1>5 DEF Execute, GoTo, At, Free
  <2>1. TypeOK'
    BY <1>0, MigrationAssumption DEF TypeOK, Statuses, PCs, Migrations
  <2>2. LoopsHaveMore'
    BY <1>0, MigrationAssumption DEF TypeOK, LoopsHaveMore
  <2>3. EffectsPrecede'
    BY <1>0, MigrationAssumption DEF TypeOK, EffectsPrecede, Effected, Applying
  <2>4. PendingAreTodo'
    BY <1>0, MigrationAssumption DEF TypeOK, PendingAreTodo, Applying
  <2>5. WrittenStay'
    BY MigrationAssumption DEF TypeOK, WrittenStay
  <2> QED
    BY <2>1, <2>2, <2>3, <2>4, <2>5
<1>6. ASSUME NEW p \in Procs, ExecuteFails(p) PROVE IInv'
  <2> USE <1>6 DEF ExecuteFails, GoTo, At, Free
  <2>1. TypeOK'
    BY <1>0, MigrationAssumption DEF TypeOK, Statuses, PCs, Migrations
  <2>2. LoopsHaveMore'
    BY <1>0, MigrationAssumption DEF TypeOK, LoopsHaveMore
  <2>3. EffectsPrecede'
    BY <1>0, MigrationAssumption DEF TypeOK, EffectsPrecede, Effected, Applying
  <2>4. PendingAreTodo'
    BY <1>0, MigrationAssumption DEF TypeOK, PendingAreTodo, Applying
  <2>5. WrittenStay'
    BY MigrationAssumption DEF TypeOK, WrittenStay
  <2> QED
    BY <2>1, <2>2, <2>3, <2>4, <2>5
<1>7. ASSUME NEW p \in Procs, SaveFailed(p) PROVE IInv'
  <2> USE <1>7 DEF SaveFailed, SetStatus, Fail, GoTo, At, Free
  <2>1. TypeOK'
    BY <1>0, MigrationAssumption DEF TypeOK, Statuses, PCs, Migrations
  <2>2. LoopsHaveMore'
    BY <1>0, MigrationAssumption DEF TypeOK, LoopsHaveMore
  <2>3. EffectsPrecede'
    BY <1>0, MigrationAssumption DEF TypeOK, EffectsPrecede, Effected, Applying
  <2>4. PendingAreTodo'
    BY <1>0, MigrationAssumption DEF TypeOK, PendingAreTodo, Applying
  <2>5. WrittenStay'
    BY MigrationAssumption DEF TypeOK, WrittenStay
  <2> QED
    BY <2>1, <2>2, <2>3, <2>4, <2>5
<1>8. ASSUME NEW p \in Procs, MarkAsApplied(p) PROVE IInv'
  <2> USE <1>8 DEF MarkAsApplied, SetStatus, GoTo, At, Free
  <2>1. TypeOK'
    BY <1>0, MigrationAssumption DEF TypeOK, Statuses, PCs, Migrations
  <2>2. LoopsHaveMore'
    BY <1>0, MigrationAssumption DEF TypeOK, LoopsHaveMore
  <2>3. EffectsPrecede'
    BY <1>0, MigrationAssumption DEF TypeOK, EffectsPrecede, Effected, Applying
  <2>4. PendingAreTodo'
    BY <1>0, MigrationAssumption DEF TypeOK, PendingAreTodo, Applying
  <2>5. WrittenStay'
    BY MigrationAssumption DEF TypeOK, WrittenStay
  <2> QED
    BY <2>1, <2>2, <2>3, <2>4, <2>5
<1>9. ASSUME NEW p \in Procs, Record(p) PROVE IInv'
  <2> USE <1>9 DEF Record, Advance, StartLoop, GoTo, At, Free
  <2>1. TypeOK'
    BY <1>0, MigrationAssumption DEF TypeOK, Statuses, PCs, Migrations
  <2>2. LoopsHaveMore'
    BY <1>0, MigrationAssumption DEF TypeOK, LoopsHaveMore
  <2>3. EffectsPrecede'
    BY <1>0, MigrationAssumption DEF TypeOK, EffectsPrecede, Effected, Applying
  <2>4. PendingAreTodo'
    BY <1>0, MigrationAssumption DEF TypeOK, PendingAreTodo, Applying
  <2>5. WrittenStay'
    BY MigrationAssumption DEF TypeOK, WrittenStay
  <2> QED
    BY <2>1, <2>2, <2>3, <2>4, <2>5
<1>10. ASSUME NEW p \in Procs, RecordFails(p) PROVE IInv'
  <2> USE <1>10 DEF RecordFails, Fail, GoTo, At, Free
  <2>1. TypeOK'
    BY <1>0, MigrationAssumption DEF TypeOK, Statuses, PCs, Migrations
  <2>2. LoopsHaveMore'
    BY <1>0, MigrationAssumption DEF TypeOK, LoopsHaveMore
  <2>3. EffectsPrecede'
    BY <1>0, MigrationAssumption DEF TypeOK, EffectsPrecede, Effected, Applying
  <2>4. PendingAreTodo'
    BY <1>0, MigrationAssumption DEF TypeOK, PendingAreTodo, Applying
  <2>5. WrittenStay'
    BY MigrationAssumption DEF TypeOK, WrittenStay
  <2> QED
    BY <2>1, <2>2, <2>3, <2>4, <2>5
<1>11. ASSUME NEW p \in Procs, FindApplied(p) PROVE IInv'
  <2> USE <1>11 DEF FindApplied, Fail, GoTo, At, Free
  <2>1. TypeOK'
    BY <1>0, MigrationAssumption DEF TypeOK, Statuses, PCs, Migrations
  <2>2. LoopsHaveMore'
    BY <1>0, MigrationAssumption DEF TypeOK, LoopsHaveMore
  <2>3. EffectsPrecede'
    BY <1>0, MigrationAssumption DEF TypeOK, EffectsPrecede, Effected, Applying
  <2>4. PendingAreTodo'
    BY <1>0, MigrationAssumption DEF TypeOK, PendingAreTodo, Applying
  <2>5. WrittenStay'
    BY MigrationAssumption DEF TypeOK, WrittenStay
  <2> QED
    BY <2>1, <2>2, <2>3, <2>4, <2>5
<1>12. ASSUME NEW p \in Procs, Undo(p) PROVE IInv'
  <2> USE <1>12 DEF Undo, GoTo, At, Free
  <2>1. TypeOK'
    BY <1>0, MigrationAssumption DEF TypeOK, Statuses, PCs, Migrations
  <2>2. LoopsHaveMore'
    BY <1>0, MigrationAssumption DEF TypeOK, LoopsHaveMore
  <2>3. EffectsPrecede'
    BY <1>0, MigrationAssumption DEF TypeOK, EffectsPrecede, Effected, Applying
  <2>4. PendingAreTodo'
    BY <1>0, MigrationAssumption DEF TypeOK, PendingAreTodo, Applying
  <2>5. WrittenStay'
    BY MigrationAssumption DEF TypeOK, WrittenStay
  <2> QED
    BY <2>1, <2>2, <2>3, <2>4, <2>5
<1>13. ASSUME NEW p \in Procs, UndoFails(p) PROVE IInv'
  <2> USE <1>13 DEF UndoFails, Fail, GoTo, At, Free
  <2>1. TypeOK'
    BY <1>0, MigrationAssumption DEF TypeOK, Statuses, PCs, Migrations
  <2>2. LoopsHaveMore'
    BY <1>0, MigrationAssumption DEF TypeOK, LoopsHaveMore
  <2>3. EffectsPrecede'
    BY <1>0, MigrationAssumption DEF TypeOK, EffectsPrecede, Effected, Applying
  <2>4. PendingAreTodo'
    BY <1>0, MigrationAssumption DEF TypeOK, PendingAreTodo, Applying
  <2>5. WrittenStay'
    BY MigrationAssumption DEF TypeOK, WrittenStay
  <2> QED
    BY <2>1, <2>2, <2>3, <2>4, <2>5
<1>14. ASSUME NEW p \in Procs, SaveRolledBack(p) PROVE IInv'
  <2> USE <1>14 DEF SaveRolledBack, SetStatus, Advance, StartLoop, GoTo, At, Free
  <2>1. TypeOK'
    BY <1>0, MigrationAssumption DEF TypeOK, Statuses, PCs, Migrations
  <2>2. LoopsHaveMore'
    BY <1>0, MigrationAssumption DEF TypeOK, LoopsHaveMore
  <2>3. EffectsPrecede'
    BY <1>0, MigrationAssumption DEF TypeOK, EffectsPrecede, Effected, Applying
  <2>4. PendingAreTodo'
    BY <1>0, MigrationAssumption DEF TypeOK, PendingAreTodo, Applying
  <2>5. WrittenStay'
    BY MigrationAssumption DEF TypeOK, WrittenStay
  <2> QED
    BY <2>1, <2>2, <2>3, <2>4, <2>5
<1>15. ASSUME NEW p \in Procs, Crash(p) PROVE IInv'
  <2> USE <1>15 DEF Crash, GoTo, Free
  <2>1. TypeOK'
    BY <1>0, MigrationAssumption DEF TypeOK, Statuses, PCs, Migrations
  <2>2. LoopsHaveMore'
    BY <1>0, MigrationAssumption DEF TypeOK, LoopsHaveMore
  <2>3. EffectsPrecede'
    BY <1>0, MigrationAssumption DEF TypeOK, EffectsPrecede, Effected, Applying
  <2>4. PendingAreTodo'
    BY <1>0, MigrationAssumption DEF TypeOK, PendingAreTodo, Applying
  <2>5. WrittenStay'
    BY MigrationAssumption DEF TypeOK, WrittenStay
  <2> QED
    BY <2>1, <2>2, <2>3, <2>4, <2>5
<1>16. CASE UNCHANGED vars
  BY <1>16 DEF vars, TypeOK, LoopsHaveMore, EffectsPrecede, PendingAreTodo, WrittenStay, Free, Effected
<1> QED
  BY <1>1, <1>2, <1>3, <1>4, <1>5, <1>6, <1>7, <1>8, <1>9, <1>10, <1>11, <1>12, <1>13, <1>14, <1>15, <1>16 DEF Next, Step

-----------------------------------------------------------------------------
\* Statuses, the history, the loops and their positions keep their types (migration_service.go,
\* migration_repository.go).
THEOREM TypeCorrect == Spec => []TypeOK
<1>1. IInv => TypeOK
  BY DEF IInv
<1> QED
  BY InitIInv, NextIInv, <1>1, PTL DEF Spec

\* A written migration whose file says Applied, or that the history lists, was executed: for any
\* number of processes, with failures and crashes between executing, marking and recording.
THEOREM OnlyExecutedIsApplied == Spec => []AppliedIsExecuted
<1>1. IInv => AppliedIsExecuted
  BY DEF IInv, EffectsPrecede, Effected, AppliedIsExecuted
<1> QED
  BY InitIInv, NextIInv, <1>1, PTL DEF Spec

\* An execution adds the migration its loop is at, the first of those that are left.
LEMMA StepInOrder ==
  ASSUME IInv, [Next]_vars,
         NEW m \in executed' \ executed, NEW n \in Migrations, n < m
  PROVE  file[n] # "Pending"
<1> USE DEF IInv
<1>1. PICK p \in Procs : Execute(p)
  BY DEF Next, Step, vars, Dev, Deploy, Reset, Crash, Find, ExecuteFails, SaveFailed, MarkAsApplied,
     Record, RecordFails, FindApplied, Undo, UndoFails, SaveRolledBack
<1>2. m = Current(p) /\ m \in Written /\ pc[p] = "execute"
  BY <1>1 DEF Execute, At
<1>3. m = Min(todo[p]) /\ m \in todo[p] /\ \A k \in todo[p] : m <= k
  BY <1>2, CurrentIsTodo DEF Free, Applying
<1>4. n \in Written
  BY <1>2, MigrationAssumption DEF Migrations
<1>5. n \notin todo[p]
  BY <1>2, <1>3, MigrationAssumption DEF Migrations
<1> QED
  BY <1>2, <1>3, <1>4, <1>5 DEF PendingAreTodo, Applying

\* No migration is executed while an older one is pending, whatever other processes deploy, reset
\* or create meanwhile (runMigrateDeploy, ApplyMigration).
THEOREM AppliedInOrder == Spec => InOrder
<1>1. IInv /\ [Next]_vars =>
        [\A m \in executed' \ executed : \A n \in Migrations : n < m => file[n] # "Pending"]_vars
  BY StepInOrder
<1> QED
  BY InitIInv, NextIInv, <1>1, PTL DEF Spec, InOrder

-----------------------------------------------------------------------------
(* The runtime client.                                                     *)

\* An instance has a Cardinality of its own, which is the same.
LEMMA ClientCardinality == \A S : Client!Cardinality(S) = Cardinality(S)
  BY DEF Client!Cardinality, Cardinality

LEMMA ChainCardinality == \A S : Chain!Cardinality(S) = Cardinality(S)
  BY DEF Chain!Cardinality, Cardinality

\* Goroutines with a connection of pool d.
Users(d) == {g \in Callers : caller[g] \in Client!Holding /\ pool[g] = d}

\* A call at a statement is of a kind that comes there, and the commit of a batch has all its
\* operations before it.
CallFits(g) ==
  /\ caller[g] = "run" => call[g] \in {"query", "exec"}
  /\ caller[g] = "rows" => call[g] = "query" /\ answer[g] = "ok"
  /\ caller[g] \in {"statements", "commit", "abandoned"} => call[g] \in {"transaction", "batch"}
  /\ caller[g] = "commit" /\ call[g] = "batch" => sent[g] = BatchSize

\* What a batch or a statement stores.
StoredFits(c, a, n) ==
  /\ c = "batch" => n \in (IF a = "ok" THEN {BatchSize} ELSE {0, BatchSize})
  /\ c = "exec" => n \in (IF a = "ok" THEN {1} ELSE {0, 1})

\* What an ended call has stored.
CallStored(g) ==
  caller[g] = "idle" =>
    /\ answer[g] \in {"error", "panic"} => stored[g] = 0
    /\ StoredFits(call[g], answer[g], stored[g])

ClientTypes ==
  /\ timeout \in BOOLEAN /\ connected \in BOOLEAN
  /\ opened \in 0..MaxPools /\ db \in 0..opened
  /\ caller \in [Callers -> Client!Holding \cup {"idle", "use", "acquire"}]
  /\ call \in [Callers -> {"query", "exec", "transaction", "batch"}]
  /\ pool \in [Callers -> 0..opened]
  /\ sent \in [Callers -> 0..BatchSize]
  /\ rowsOpen \in [Callers -> BOOLEAN]
  /\ cancelled \in [Callers -> BOOLEAN]
  /\ answer \in [Callers -> {"none", "ok", "error", "unsure", "panic"}]
  /\ stored \in [Callers -> 0..BatchSize]
  /\ calls \in 0..MaxCalls

WithinLimit == \A d \in 1..opened : Client!InUse(d) <= PoolSize

ClientInv == ClientTypes /\ WithinLimit /\ \A g \in Callers : CallFits(g) /\ CallStored(g)

\* Nothing but a goroutine that leaves acquire takes a connection.
LEMMA NoNewUser ==
  ASSUME ClientInv, UNCHANGED opened, \A d \in 1..opened : Users(d)' \subseteq Users(d)
  PROVE  WithinLimit'
<1>1. ASSUME NEW d \in 1..opened PROVE Cardinality(Users(d)') <= PoolSize
  <2>1. IsFiniteSet(Users(d))
    BY RuntimeAssumption, FS_Subset DEF Users
  <2>0. Users(d)' \in SUBSET Users(d)
    OBVIOUS
  <2>2. Cardinality(Users(d)') <= Cardinality(Users(d))
    BY <2>0, <2>1, FS_Subset
  <2>3. Cardinality(Users(d)) <= PoolSize
    BY ClientCardinality DEF ClientInv, WithinLimit, Client!InUse, Users
  <2>4. IsFiniteSet(Users(d)')
    BY <2>0, <2>1, FS_Subset
  <2>5. Cardinality(Users(d)) \in Nat /\ Cardinality(Users(d)') \in Nat
    BY <2>1, <2>4, FS_CardinalityType
  <2> QED
    BY <2>2, <2>3, <2>5, RuntimeAssumption
<1> QED
  BY <1>1, ClientCardinality DEF WithinLimit, Client!InUse, Users

\* The end of a call.
LEMMA CallEnds ==
  ASSUME ClientInv, NEW g \in Callers,
         NEW a \in {"none", "ok", "error", "unsure", "panic"}, NEW n \in 0..BatchSize,
         Client!Finish(g, a, n), UNCHANGED <<timeout, connected, db, opened>>,
         NEW c \in {"query", "exec", "transaction", "batch"}, call' = [call EXCEPT ![g] = c],
         calls' \in 0..MaxCalls,
         a \in {"error", "panic"} => n = 0,
         StoredFits(c, a, n)
  PROVE  ClientInv'
<1>1. ClientTypes'
  <2>1. caller' \in [Callers -> Client!Holding \cup {"idle", "use", "acquire"}]
    BY DEF ClientInv, ClientTypes, Client!Finish, Client!Goto
  <2>2. 0 \in 0..opened /\ 0 \in 0..BatchSize
    BY RuntimeAssumption DEF ClientInv, ClientTypes
  <2>3. pool' \in [Callers -> 0..opened] /\ sent' \in [Callers -> 0..BatchSize]
    BY <2>2 DEF ClientInv, ClientTypes, Client!Finish
  <2>4. stored' \in [Callers -> 0..BatchSize]
    BY DEF ClientInv, ClientTypes, Client!Finish
  <2>5. answer' \in [Callers -> {"none", "ok", "error", "unsure", "panic"}]
    BY DEF ClientInv, ClientTypes, Client!Finish
  <2>6. rowsOpen' \in [Callers -> BOOLEAN] /\ cancelled' \in [Callers -> BOOLEAN]
    BY DEF ClientInv, ClientTypes, Client!Finish
  <2> QED
    BY <2>1, <2>3, <2>4, <2>5, <2>6 DEF ClientInv, ClientTypes
<1>2. WithinLimit'
  <2>1. ASSUME NEW d \in 1..opened PROVE Users(d)' \subseteq Users(d)
    BY RuntimeAssumption DEF Users, ClientInv, ClientTypes, Client!Finish, Client!Goto, Client!Holding
  <2> QED
    BY <2>1, NoNewUser
<1>3. ASSUME NEW h \in Callers PROVE CallFits(h)' /\ CallStored(h)'
  <2>1. CASE h = g
    BY <2>1 DEF CallFits, CallStored, ClientInv, ClientTypes, Client!Finish, Client!Goto
  <2>2. CASE h # g
    BY <2>2 DEF CallFits, CallStored, ClientInv, ClientTypes, Client!Finish, Client!Goto
  <2> QED
    BY <2>1, <2>2
<1> QED
  BY <1>1, <1>2, <1>3 DEF ClientInv

LEMMA CallEndsSame ==
  ASSUME ClientInv, NEW g \in Callers,
         NEW a \in {"none", "ok", "error", "unsure", "panic"}, NEW n \in 0..BatchSize,
         Client!Finish(g, a, n), UNCHANGED <<timeout, connected, db, opened, call, calls>>,
         a \in {"error", "panic"} => n = 0,
         StoredFits(call[g], a, n)
  PROVE  ClientInv'
<1>1. call' = [call EXCEPT ![g] = call[g]] /\ call[g] \in {"query", "exec", "transaction", "batch"}
  BY DEF ClientInv, ClientTypes
<1>2. calls' \in 0..MaxCalls
  BY DEF ClientInv, ClientTypes
<1> QED
  BY <1>1, <1>2, CallEnds

\* A step within a call; only one that leaves acquire takes a connection.
LEMMA CallGoesOn ==
  ASSUME ClientInv, NEW g \in Callers, NEW x \in Client!Holding \cup {"use", "acquire"},
         Client!Goto(g, x), x \in Client!Holding => caller[g] \in Client!Holding,
         UNCHANGED <<timeout, connected, db, opened, pool>>,
         \A h \in Callers \ {g} : /\ call'[h] = call[h] /\ answer'[h] = answer[h]
                                  /\ stored'[h] = stored[h] /\ sent'[h] = sent[h],
         ClientTypes', CallFits(g)'
  PROVE  ClientInv'
<1>1. WithinLimit'
  <2>1. ASSUME NEW d \in 1..opened PROVE Users(d)' \subseteq Users(d)
    BY DEF Users, ClientInv, ClientTypes, Client!Goto
  <2> QED
    BY <2>1, NoNewUser
<1>2. ASSUME NEW h \in Callers PROVE CallFits(h)' /\ CallStored(h)'
  <2>1. CASE h = g
    BY <2>1 DEF CallStored, ClientInv, ClientTypes, Client!Goto, Client!Holding
  <2>2. CASE h # g
    BY <2>2 DEF CallFits, CallStored, ClientInv, ClientTypes, Client!Goto
  <2> QED
    BY <2>1, <2>2
<1> QED
  BY <1>1, <1>2 DEF ClientInv

LEMMA ClientStep == ClientInv /\ (Client!Next \/ UNCHANGED clientVars) => ClientInv'
<1> SUFFICES ASSUME ClientInv, Client!Next \/ UNCHANGED clientVars PROVE ClientInv'
  OBVIOUS
<1> DEFINE Same == UNCHANGED <<timeout, connected, db, opened>>
<1>0. 0 \in 0..BatchSize /\ BatchSize \in 0..BatchSize
  BY RuntimeAssumption
<1>1. ASSUME Client!Connect PROVE ClientInv'
  <2>1. opened' = opened + 1 /\ opened' \in 0..MaxPools /\ db' = opened'
    BY <1>1, RuntimeAssumption DEF Client!Connect, ClientInv, ClientTypes
  <2>2. ClientTypes'
    <3>1. pool \in [Callers -> 0..opened'] /\ db' \in 0..opened'
      BY <2>1, RuntimeAssumption DEF ClientInv, ClientTypes
    <3> QED
      BY <1>1, <2>1, <3>1 DEF Client!Connect, ClientInv, ClientTypes
  <2>3. WithinLimit'
    <3>1. ASSUME NEW d \in 1..(opened + 1) PROVE Cardinality(Users(d)') <= PoolSize
      <4>1. Users(d)' = Users(d)
        BY <1>1 DEF Users, Client!Connect
      <4>2. CASE d \in 1..opened
        BY <4>1, <4>2, ClientCardinality DEF ClientInv, WithinLimit, Client!InUse, Users
      <4>3. CASE d = opened + 1
        <5>1. Users(d) = {}
          BY <4>3 DEF Users, ClientInv, ClientTypes
        <5> QED
          BY <4>1, <5>1, FS_EmptySet, RuntimeAssumption
      <4> QED
        BY <4>2, <4>3 DEF ClientInv, ClientTypes
    <3> QED
      BY <2>1, <3>1, ClientCardinality DEF WithinLimit, Client!InUse, Users
  <2>4. \A g \in Callers : CallFits(g)' /\ CallStored(g)'
    BY <1>1 DEF Client!Connect, CallFits, CallStored, ClientInv
  <2> QED
    BY <2>2, <2>3, <2>4 DEF ClientInv
<1>2. ASSUME Client!Disconnect PROVE ClientInv'
  <2>0. 0 \in 0..opened
    BY RuntimeAssumption DEF ClientInv, ClientTypes
  <2>1. ClientTypes'
    BY <1>2, <2>0 DEF Client!Disconnect, ClientInv, ClientTypes
  <2>2. WithinLimit'
    BY <1>2 DEF Client!Disconnect, ClientInv, WithinLimit, Client!InUse
  <2>3. \A g \in Callers : CallFits(g)' /\ CallStored(g)'
    BY <1>2 DEF Client!Disconnect, CallFits, CallStored, ClientInv
  <2> QED
    BY <2>1, <2>2, <2>3 DEF ClientInv
<1>3. ASSUME NEW g \in Callers, Client!Begin(g) PROVE ClientInv'
  <2>1. PICK c \in {"query", "exec", "transaction", "batch"} : call' = [call EXCEPT ![g] = c]
    BY <1>3 DEF Client!Begin
  <2>2. calls' \in 0..MaxCalls
    BY <1>3, RuntimeAssumption DEF Client!Begin, ClientInv, ClientTypes
  <2>3. CASE connected
    <3>1. Client!Goto(g, "use") /\ UNCHANGED <<answer, stored, pool, sent, rowsOpen, cancelled>>
      BY <1>3, <2>3 DEF Client!Begin
    <3>2. ClientTypes'
      BY <1>3, <2>1, <2>2, <3>1 DEF Client!Begin, Client!Goto, ClientInv, ClientTypes
    <3>3. CallFits(g)'
      BY <3>1 DEF CallFits, Client!Goto, ClientInv, ClientTypes
    <3> QED
      BY <1>3, <2>1, <3>1, <3>2, <3>3, CallGoesOn DEF Client!Begin, Client!Holding
  <2>4. CASE ~connected
    <3>1. Client!Finish(g, "error", 0)
      BY <1>3, <2>4 DEF Client!Begin
    <3> QED
      BY <1>0, <1>3, <2>1, <2>2, <3>1, CallEnds DEF Client!Begin, StoredFits
  <2> QED
    BY <2>3, <2>4
<1>4. ASSUME NEW g \in Callers, Client!Use(g) PROVE ClientInv'
  <2>1. CASE db = 0
    BY <1>0, <1>4, <2>1, CallEndsSame DEF Client!Use, StoredFits
  <2>2. CASE db # 0
    <3>1. /\ pool' = [pool EXCEPT ![g] = db] /\ Client!Goto(g, "acquire")
          /\ UNCHANGED <<timeout, connected, db, opened, call, calls, answer, stored, sent, rowsOpen, cancelled>>
      BY <1>4, <2>2 DEF Client!Use
    <3>2. ClientTypes'
      BY <3>1 DEF Client!Goto, ClientInv, ClientTypes
    <3>3. WithinLimit'
      <4>1. ASSUME NEW d \in 1..opened PROVE Users(d)' \subseteq Users(d)
        BY <3>1 DEF Users, ClientInv, ClientTypes, Client!Goto, Client!Holding
      <4> QED
        BY <3>1, <4>1, NoNewUser
    <3>4. ASSUME NEW h \in Callers PROVE CallFits(h)' /\ CallStored(h)'
      BY <3>1 DEF CallFits, CallStored, Client!Goto, ClientInv, ClientTypes
    <3> QED
      BY <3>2, <3>3, <3>4 DEF ClientInv
  <2> QED
    BY <2>1, <2>2
<1>5. ASSUME NEW g \in Callers, Client!Acquire(g) PROVE ClientInv'
  <2>1. CASE Client!Finish(g, "error", 0)
    BY <1>0, <1>5, <2>1, CallEndsSame DEF Client!Acquire, StoredFits
  <2>2. CASE pool[g] = db /\ Client!HasRoom(db) /\ UNCHANGED <<answer, stored, pool, sent, rowsOpen, cancelled>>
             /\ Client!Goto(g, IF call[g] \in {"query", "exec"} THEN "run" ELSE "statements")
    <3> DEFINE x == IF call[g] \in {"query", "exec"} THEN "run" ELSE "statements"
    <3>0. /\ UNCHANGED <<timeout, connected, db, opened, call, calls>> /\ caller' = [caller EXCEPT ![g] = x]
          /\ x \in Client!Holding /\ x \notin {"idle", "rows", "commit"}
          /\ x \in {"run", "statements"} /\ (x = "run" <=> call[g] \in {"query", "exec"})
      BY <1>5, <2>2 DEF Client!Acquire, Client!Goto, Client!Holding
    <3> HIDE DEF x
    <3>1. ClientTypes'
      BY <2>2, <3>0 DEF ClientInv, ClientTypes
    <3>2. ASSUME NEW h \in Callers PROVE CallFits(h)' /\ CallStored(h)'
      <4>1. CASE h = g
        <5>1. caller'[g] \in {"run", "statements"} /\ (caller'[g] = "run" <=> call[g] \in {"query", "exec"})
              /\ call'[g] = call[g]
          BY <2>2, <3>0 DEF ClientInv, ClientTypes
        <5> QED
          BY <4>1, <5>1 DEF CallFits, CallStored, ClientInv, ClientTypes
      <4>2. CASE h # g
        BY <2>2, <3>0, <4>2 DEF CallFits, CallStored, ClientInv, ClientTypes
      <4> QED
        BY <4>1, <4>2
    <3>3. ASSUME NEW d \in 1..opened PROVE Cardinality(Users(d)') <= PoolSize
      <4>1. IsFiniteSet(Users(d))
        BY RuntimeAssumption, FS_Subset DEF Users
      <4>2. Cardinality(Users(d)) \in Nat /\ Cardinality(Users(d)) <= PoolSize
        BY <4>1, FS_CardinalityType, ClientCardinality DEF ClientInv, WithinLimit, Client!InUse, Users
      <4>3. CASE d # db
        <5>1. Users(d)' = Users(d)
          BY <2>2, <3>0, <4>3 DEF Users, ClientInv, ClientTypes
        <5> QED
          BY <4>2, <5>1
      <4>4. CASE d = db
        <5>1. Users(d)' \in SUBSET (Users(d) \cup {g})
          BY <2>2, <3>0 DEF Users, ClientInv, ClientTypes
        <5>2. Cardinality(Users(d)) < PoolSize
          BY <2>2, <4>4, ClientCardinality DEF Client!HasRoom, Client!InUse, Users
        <5>3. /\ IsFiniteSet(Users(d) \cup {g}) /\ Cardinality(Users(d) \cup {g}) \in Nat
              /\ Cardinality(Users(d) \cup {g}) <= Cardinality(Users(d)) + 1
          BY <4>1, <4>2, FS_AddElement, FS_CardinalityType
        <5>4. IsFiniteSet(Users(d)') /\ Cardinality(Users(d)') <= Cardinality(Users(d) \cup {g})
          BY <5>1, <5>3, FS_Subset
        <5>5. Cardinality(Users(d)') \in Nat
          BY <5>4, FS_CardinalityType
        <5> QED
          BY <4>2, <5>2, <5>3, <5>4, <5>5, RuntimeAssumption
      <4> QED
        BY <4>3, <4>4
    <3>4. WithinLimit'
      BY <3>0, <3>3, ClientCardinality DEF WithinLimit, Client!InUse, Users
    <3> QED
      BY <3>1, <3>2, <3>4 DEF ClientInv
  <2> QED
    BY <1>5, <2>1, <2>2 DEF Client!Acquire
<1>6. ASSUME NEW g \in Callers, Client!Run(g) PROVE ClientInv'
  <2>0. Same /\ UNCHANGED <<call, calls>> /\ caller[g] = "run" /\ call[g] \in {"query", "exec"}
    BY <1>6 DEF Client!Run, ClientInv, CallFits
  <2>1. CASE call[g] = "query" /\ Client!Finish(g, "error", 0)
    BY <1>0, <2>0, <2>1, CallEndsSame DEF StoredFits
  <2>2. CASE call[g] = "exec" /\ Client!Finish(g, "ok", 1)
    <3>1. 1 \in 0..BatchSize /\ StoredFits(call[g], "ok", 1)
      BY <2>2, RuntimeAssumption DEF StoredFits
    <3> QED
      BY <2>0, <2>2, <3>1, CallEndsSame
  <2>4. ASSUME call[g] = "exec", NEW n \in {0, 1}, Client!Finish(g, "unsure", n) PROVE ClientInv'
    <3>1. n \in 0..BatchSize /\ StoredFits(call[g], "unsure", n)
      BY <2>4, RuntimeAssumption DEF StoredFits
    <3> QED
      BY <2>0, <2>4, <3>1, CallEndsSame
  <2>3. CASE /\ call[g] = "query" /\ Client!Goto(g, "rows")
             /\ answer' = [answer EXCEPT ![g] = "ok"] /\ rowsOpen' = [rowsOpen EXCEPT ![g] = TRUE]
             /\ UNCHANGED <<stored, pool, sent, cancelled>>
    <3>1. ClientTypes'
      BY <2>0, <2>3 DEF Client!Goto, Client!Holding, ClientInv, ClientTypes
    <3>2. CallFits(g)'
      BY <2>0, <2>3 DEF CallFits, Client!Goto, ClientInv, ClientTypes
    <3> QED
      BY <2>0, <2>3, <3>1, <3>2, CallGoesOn DEF Client!Holding
  <2> QED
    BY <1>6, <2>1, <2>2, <2>3, <2>4 DEF Client!Run
<1>7. ASSUME NEW g \in Callers, Client!CancelledRows(g) \/ Client!CloseRows(g) PROVE ClientInv'
  <2>1. Same /\ UNCHANGED <<call, calls>> /\ Client!Finish(g, answer[g], 0) /\ caller[g] = "rows"
    BY <1>7 DEF Client!CancelledRows, Client!CloseRows, Client!ContextEnded
  <2>2. call[g] = "query" /\ answer[g] = "ok"
    BY <2>1 DEF ClientInv, CallFits
  <2> QED
    BY <1>0, <2>1, <2>2, CallEndsSame DEF StoredFits
<1>8. ASSUME NEW g \in Callers, Client!Statement(g) PROVE ClientInv'
  <2>1. Same /\ UNCHANGED <<caller, call, pool, cancelled, answer, stored, calls>> /\ caller[g] = "statements"
    BY <1>8 DEF Client!Statement
  <2>2. PICK rows \in BOOLEAN : rowsOpen' = [rowsOpen EXCEPT ![g] = rows]
    BY <1>8 DEF Client!Statement
  <2>3. sent' = [sent EXCEPT ![g] = sent[g] + 1] /\ sent[g] + 1 \in 0..BatchSize
    BY <1>8, RuntimeAssumption DEF Client!Statement, ClientInv, ClientTypes
  <2>4. ClientTypes'
    BY <2>1, <2>2, <2>3 DEF ClientInv, ClientTypes
  <2>5. CallFits(g)' /\ Client!Goto(g, "statements")
    BY <2>1 DEF CallFits, Client!Goto, ClientInv, ClientTypes
  <2> QED
    BY <2>1, <2>3, <2>4, <2>5, CallGoesOn DEF Client!Holding
<1>9. ASSUME NEW g \in Callers, Client!FunctionFails(g) PROVE ClientInv'
  BY <1>0, <1>9, CallEndsSame DEF Client!FunctionFails, StoredFits
<1>10. ASSUME NEW g \in Callers, Client!FunctionReturns(g) PROVE ClientInv'
  <2>1. ClientTypes'
    BY <1>10 DEF Client!FunctionReturns, Client!Goto, Client!Holding, ClientInv, ClientTypes
  <2>2. CallFits(g)'
    BY <1>10 DEF Client!FunctionReturns, Client!BatchIsThrough, CallFits, Client!Goto, ClientInv, ClientTypes
  <2> QED
    BY <1>10, <2>1, <2>2, CallGoesOn DEF Client!FunctionReturns, Client!Holding
<1>11. ASSUME NEW g \in Callers, Client!FunctionPanics(g) PROVE ClientInv'
  <2>1. ClientTypes'
    BY <1>0, <1>11 DEF Client!FunctionPanics, Client!Goto, Client!Holding, ClientInv, ClientTypes
  <2>2. CallFits(g)'
    BY <1>11 DEF Client!FunctionPanics, CallFits, Client!Goto, ClientInv, ClientTypes
  <2> QED
    BY <1>11, <2>1, <2>2, CallGoesOn DEF Client!FunctionPanics, Client!Holding
<1>12. ASSUME NEW g \in Callers, Client!Cancel(g) PROVE ClientInv'
  <2>1. ClientTypes'
    BY <1>12 DEF Client!Cancel, ClientInv, ClientTypes
  <2>2. CallFits(g)' /\ Client!Goto(g, caller[g]) /\ caller[g] \in Client!Holding
    BY <1>12 DEF Client!Cancel, CallFits, Client!Goto, Client!Holding, ClientInv, ClientTypes
  <2> QED
    BY <1>12, <2>1, <2>2, CallGoesOn DEF Client!Cancel
<1>13. ASSUME NEW g \in Callers, Client!CancelAbandoned(g) PROVE ClientInv'
  BY <1>0, <1>13, CallEndsSame DEF Client!CancelAbandoned, StoredFits
<1>14. ASSUME NEW g \in Callers, Client!Commit(g) PROVE ClientInv'
  <2>0. /\ Same /\ UNCHANGED <<call, calls>> /\ sent[g] \in 0..BatchSize
        /\ call[g] = "batch" => sent[g] = BatchSize
        /\ call[g] \in {"transaction", "batch"}
    BY <1>14 DEF Client!Commit, ClientInv, ClientTypes, CallFits
  <2>1. CASE Client!Finish(g, "ok", sent[g])
    BY <2>0, <2>1, CallEndsSame DEF StoredFits
  <2>2. ASSUME NEW n \in {0, sent[g]}, Client!Finish(g, "unsure", n) PROVE ClientInv'
    BY <1>0, <2>0, <2>2, CallEndsSame DEF StoredFits
  <2> QED
    BY <1>14, <2>1, <2>2 DEF Client!Commit
<1>15. CASE UNCHANGED clientVars
  BY <1>15 DEF clientVars, ClientInv, ClientTypes, WithinLimit, Client!InUse, CallFits, CallStored
<1> QED
  BY <1>1, <1>2, <1>3, <1>4, <1>5, <1>6, <1>7, <1>8, <1>9, <1>10, <1>11, <1>12, <1>13, <1>14, <1>15
     DEF Client!Next, Client!Proceed

\* A process of v3 that does not use the client, and one that begins to.
LEMMA ClientInit == V3Init => ClientInv
<1> SUFFICES ASSUME V3Init PROVE ClientInv
  OBVIOUS
<1>1. NoClient \/ Client!Init
  BY DEF V3Init
<1>2. /\ ClientTypes
      /\ \A g \in Callers : caller[g] = "idle" /\ answer[g] = "none" /\ call[g] = "exec" /\ stored[g] = 0
  <2>1. timeout \in BOOLEAN /\ connected = FALSE /\ db = 0 /\ opened \in {0, MaxPools} /\ calls \in {0, MaxCalls}
    BY <1>1 DEF NoClient, Client!Init
  <2>2. /\ caller = [g \in Callers |-> "idle"] /\ call = [g \in Callers |-> "exec"]
        /\ pool = [g \in Callers |-> 0] /\ sent = [g \in Callers |-> 0] /\ stored = [g \in Callers |-> 0]
        /\ rowsOpen = [g \in Callers |-> FALSE] /\ cancelled = [g \in Callers |-> FALSE]
        /\ answer = [g \in Callers |-> "none"]
    BY <1>1 DEF NoClient, Client!Init
  <2>3. opened \in 0..MaxPools /\ db \in 0..opened /\ calls \in 0..MaxCalls /\ 0 \in 0..opened /\ 0 \in 0..BatchSize
    BY <2>1, RuntimeAssumption
  <2> QED
    BY <2>1, <2>2, <2>3 DEF ClientTypes
<1>3. WithinLimit
  <2>1. \A d : Users(d) = {}
    BY <1>2 DEF Users, Client!Holding
  <2>2. ASSUME NEW d \in 1..opened PROVE Client!InUse(d) = 0
    BY <2>1, FS_EmptySet, ClientCardinality DEF Client!InUse, Users
  <2> QED
    BY <2>2, RuntimeAssumption DEF WithinLimit
<1> QED
  BY <1>2, <1>3 DEF ClientInv, CallFits, CallStored, StoredFits

\* A step of v3 is one of the client, or leaves the client alone.
LEMMA ClientMoves == [V3Next]_v3Vars => Client!Next \/ UNCHANGED clientVars
  BY DEF V3Next, v3Vars

\* For any number of goroutines and any size of pool and batch: a call of the runtime client that
\* fails before its COMMIT, or panics, has stored nothing, and a batch stores all or nothing
\* (transaction.go, batch.go).
THEOREM CallsAreAllOrNothing == V3Spec => []AllOrNothing
<1>1. ClientInv => AllOrNothing
  BY DEF ClientInv, CallStored, StoredFits, AllOrNothing, Client!AllOrNothing
<1> QED
  BY <1>1, ClientInit, ClientStep, ClientMoves, PTL DEF V3Spec

-----------------------------------------------------------------------------
(* The chain of middlewares.                                               *)

Entries == [mw : DOMAIN chain, attempt : 0..MaxRetries, child : Chain!Goroutines]
Top(g) == stack[g][Len(stack[g])]

\* The middleware on top, and those below it.
LEMMA TopAndRest ==
  ASSUME NEW E, NEW s \in Seq(E), s # <<>>
  PROVE  /\ Len(s) \in Nat \ {0} /\ DOMAIN s = 1..Len(s) /\ Len(s) \in 1..Len(s)
         /\ Chain!Last(s) = s[Len(s)] /\ s[Len(s)] \in E
         /\ Chain!Front(s) \in Seq(E) /\ Len(Chain!Front(s)) = Len(s) - 1
         /\ \A k \in 1..(Len(s) - 1) : Chain!Front(s)[k] = s[k]
<1>1. Len(s) \in Nat \ {0} /\ DOMAIN s = 1..Len(s) /\ s \in [1..Len(s) -> E]
  BY EmptySeq, LenProperties
<1>2. Chain!Last(s) = s[Len(s)] /\ Chain!Front(s) = SubSeq(s, 1, Len(s) - 1)
  BY DEF Chain!Last, Chain!Front
<1>3. /\ SubSeq(s, 1, Len(s) - 1) \in Seq(E)
      /\ Len(SubSeq(s, 1, Len(s) - 1)) = Len(s) - 1
      /\ \A k \in 1..(Len(s) - 1) : SubSeq(s, 1, Len(s) - 1)[k] = s[k]
  BY <1>1
<1> QED
  BY <1>1, <1>2, <1>3

\* A middleware more on top.
LEMMA Pushed ==
  ASSUME NEW E, NEW s \in Seq(E), NEW e \in E
  PROVE  /\ Append(s, e) \in Seq(E) /\ Append(s, e) # <<>>
         /\ Len(Append(s, e)) = Len(s) + 1 /\ Len(s) \in Nat
         /\ Append(s, e)[Len(s) + 1] = e
         /\ \A k \in 1..Len(s) : Append(s, e)[k] = s[k]
  OBVIOUS

\* Another on top.
LEMMA TopReplaced ==
  ASSUME NEW E, NEW s \in Seq(E), s # <<>>, NEW e \in E
  PROVE  /\ [s EXCEPT ![Len(s)] = e] \in Seq(E)
         /\ Len([s EXCEPT ![Len(s)] = e]) = Len(s) /\ [s EXCEPT ![Len(s)] = e] # <<>>
         /\ [s EXCEPT ![Len(s)] = e][Len(s)] = e
         /\ \A k \in 1..Len(s) : k # Len(s) => [s EXCEPT ![Len(s)] = e][k] = s[k]
<1>1. Len(s) \in 1..Len(s) /\ Len(s) \in Nat \ {0}
  BY EmptySeq, LenProperties
<1>2. /\ [s EXCEPT ![Len(s)] = e] \in Seq(E)
      /\ Len([s EXCEPT ![Len(s)] = e]) = Len(s)
      /\ \A j \in 1..Len(s) : [s EXCEPT ![Len(s)] = e][j] = IF j = Len(s) THEN e ELSE s[j]
  BY <1>1, ExceptSeq
<1>3. [s EXCEPT ![Len(s)] = e] # <<>>
  BY <1>1, <1>2, EmptySeq
<1> QED
  BY <1>1, <1>2, <1>3

ChainPCs == {"none", "call", "fetch", "read", "write", "spawn", "wait", "handler", "return", "ended"}

ChainRest ==
  /\ index \in Nat /\ runs \in Nat
  /\ local \in [Chain!Goroutines -> Nat]
  /\ context \in [Chain!Goroutines -> SUBSET Chain!Goroutines]
  /\ done \subseteq Chain!Goroutines
  /\ channel \in [Chain!Goroutines -> Chain!Results \cup {"empty"}]
  /\ result \in [Chain!Goroutines -> Chain!Results \cup {"none"}]

\* Where a goroutine has a middleware on top of its stack, or a result.
AtEase(g) ==
  /\ step[g] \in {"read", "write", "spawn", "wait"} => stack[g] # <<>>
  /\ step[g] = "return" => result[g] \in Chain!Results

ChainTypes ==
  /\ chain \in Chains /\ ChainRest
  /\ step \in [Chain!Goroutines -> ChainPCs]
  /\ stack \in [Chain!Goroutines -> Seq(Entries)]
  /\ \A g \in Chain!Goroutines : AtEase(g)

\* A step of one goroutine to x, with the stack s.
LEMMA ChainTypesKept ==
  ASSUME ChainTypes, NEW g \in Chain!Goroutines, NEW x \in ChainPCs, NEW s \in Seq(Entries),
         step' = [step EXCEPT ![g] = x], stack' = [stack EXCEPT ![g] = s],
         x \in {"read", "write", "spawn", "wait"} => s # <<>>,
         x = "return" => result'[g] \in Chain!Results,
         \A h \in Chain!Goroutines : h # g => result'[h] = result[h],
         UNCHANGED chain, ChainRest'
  PROVE  ChainTypes'
<1>1. Entries' = Entries
  BY DEF Entries
<1>2. step' \in [Chain!Goroutines -> ChainPCs] /\ stack' \in [Chain!Goroutines -> Seq(Entries)]
  BY DEF ChainTypes
<1>3. ASSUME NEW h \in Chain!Goroutines PROVE AtEase(h)'
  <2>1. CASE h = g
    BY <2>1 DEF AtEase, ChainTypes
  <2>2. CASE h # g
    BY <2>2 DEF AtEase, ChainTypes
  <2> QED
    BY <2>1, <2>2
<1> QED
  BY <1>1, <1>2, <1>3 DEF ChainTypes

\* One that leaves its stack as it is.
LEMMA ChainTypesGoto ==
  ASSUME ChainTypes, NEW g \in Chain!Goroutines, NEW x \in ChainPCs,
         Chain!Goto(g, x), UNCHANGED <<chain, stack>>,
         x \in {"read", "write", "spawn", "wait"} => stack[g] # <<>>,
         x = "return" => result'[g] \in Chain!Results,
         \A h \in Chain!Goroutines : h # g => result'[h] = result[h],
         ChainRest'
  PROVE  ChainTypes'
<1>1. stack' = [stack EXCEPT ![g] = stack[g]] /\ stack[g] \in Seq(Entries)
  BY DEF ChainTypes
<1> QED
  BY <1>1, ChainTypesKept DEF Chain!Goto

\* Every step of the chain keeps the types.
LEMMA ChainTypesStep == ChainTypes /\ (Chain!Next \/ UNCHANGED chainVars) => ChainTypes'
<1> SUFFICES ASSUME ChainTypes, Chain!Next \/ UNCHANGED chainVars PROVE ChainTypes'
  OBVIOUS
<1> DEFINE G == Chain!Goroutines
<1>0. /\ chain \in Seq({"pass", "retry", "timeout"}) /\ DOMAIN chain = 1..Len(chain) /\ Len(chain) \in Nat
      /\ MaxRetries \in Nat /\ 0 \in G /\ G = 0..MaxGoroutines
  BY RuntimeAssumption, LenProperties DEF ChainTypes, Chain!Goroutines
<1>a. {"none", "call", "fetch", "read", "write", "spawn", "wait", "handler", "return", "ended"} \subseteq ChainPCs
  BY DEF ChainPCs
<1>1. ASSUME NEW g \in G, Chain!CallNext(g) PROVE ChainTypes'
  <2>1. ChainRest'
    BY <1>1 DEF Chain!CallNext, ChainTypes, ChainRest
  <2>2. \E x \in {"fetch", "handler"} : Chain!Goto(g, x)
    BY <1>1 DEF Chain!CallNext
  <2> QED
    BY <1>1, <1>a, <2>1, <2>2, ChainTypesGoto DEF Chain!CallNext
<1>2. ASSUME NEW g \in G, Chain!Fetch(g) PROVE ChainTypes'
  <2>0. ChainRest'
    BY <1>2 DEF Chain!Fetch, ChainTypes, ChainRest
  <2>1. CASE index < Len(chain)
    <3> DEFINE e == [mw |-> index + 1, attempt |-> 0, child |-> 0]
    <3>1. e \in Entries
      BY <1>0, <2>1 DEF Entries, ChainTypes, ChainRest
    <3> HIDE DEF e
    <3>2. stack' = [stack EXCEPT ![g] = Append(stack[g], e)] /\ Chain!Goto(g, "read")
      BY <1>2, <2>1 DEF Chain!Fetch, e
    <3>3. Append(stack[g], e) \in Seq(Entries) /\ Append(stack[g], e) # <<>>
      BY <3>1, Pushed DEF ChainTypes
    <3> QED
      BY <1>2, <1>a, <2>0, <3>2, <3>3, ChainTypesKept DEF Chain!Fetch, Chain!Goto
  <2>2. CASE ~(index < Len(chain))
    <3>1. UNCHANGED <<chain, stack, step, result>> /\ Entries' = Entries
      BY <1>2, <2>2 DEF Chain!Fetch, Entries
    <3> QED
      BY <2>0, <3>1 DEF ChainTypes, AtEase
  <2> QED
    BY <2>1, <2>2
<1>3. ASSUME NEW g \in G, Chain!ReadIndex(g) PROVE ChainTypes'
  <2>1. ChainRest' /\ stack[g] # <<>>
    BY <1>3 DEF Chain!ReadIndex, ChainTypes, ChainRest, AtEase
  <2> QED
    BY <1>3, <1>a, <2>1, ChainTypesGoto DEF Chain!ReadIndex
<1>4. ASSUME NEW g \in G, Chain!WriteIndex(g) PROVE ChainTypes'
  <2>1. ChainRest' /\ stack[g] # <<>>
    BY <1>4 DEF Chain!WriteIndex, ChainTypes, ChainRest, AtEase
  <2>2. \E x \in {"spawn", "call"} : Chain!Goto(g, x)
    BY <1>4 DEF Chain!WriteIndex
  <2> QED
    BY <1>4, <1>a, <2>1, <2>2, ChainTypesGoto DEF Chain!WriteIndex
<1>5. ASSUME NEW g \in G, Chain!Spawn(g) PROVE ChainTypes'
  <2> PICK c \in G :
        /\ step[c] = "none"
        /\ step' = [step EXCEPT ![g] = "wait", ![c] = "call"]
        /\ stack' = [stack EXCEPT ![g][Len(stack[g])].child = c]
        /\ context' = [context EXCEPT ![c] = context[g] \cup {c}]
    BY <1>5 DEF Chain!Spawn, Chain!SpawnContext
  <2>0. UNCHANGED <<chain, result>> /\ step[g] = "spawn" /\ Entries' = Entries
    BY <1>5 DEF Chain!Spawn, Entries
  <2>1. stack[g] \in Seq(Entries) /\ stack[g] # <<>>
    BY <2>0 DEF ChainTypes, AtEase
  <2> DEFINE e == [Top(g) EXCEPT !.child = c]
             s == [stack[g] EXCEPT ![Len(stack[g])] = e]
  <2>2. e \in Entries
    <3>1. Top(g) \in Entries
      BY <2>1, TopAndRest DEF Top
    <3> QED
      BY <3>1 DEF Entries
  <2>3. stack' = [stack EXCEPT ![g] = s]
    BY DEF Top
  <2>4. s \in Seq(Entries) /\ s # <<>>
    BY <2>1, <2>2, TopReplaced
  <2>5. ChainRest'
    BY <1>5 DEF Chain!Spawn, ChainTypes, ChainRest
  <2> HIDE DEF s, e
  <2>6. step' \in [G -> ChainPCs] /\ stack' \in [G -> Seq(Entries)]
    BY <1>a, <2>3, <2>4 DEF ChainTypes
  <2>7. ASSUME NEW h \in G PROVE AtEase(h)'
    BY <2>0, <2>3, <2>4 DEF ChainTypes, AtEase
  <2> QED
    BY <2>0, <2>5, <2>6, <2>7 DEF ChainTypes
<1>6. ASSUME NEW g \in G, NEW r \in Chain!Results, Chain!Leave(g, r), stack[g] # <<>>,
             UNCHANGED <<chain, index, local, context, runs, panicked>>,
             channel' \in [G -> Chain!Results \cup {"empty"}], done' \subseteq G
      PROVE  ChainTypes'
  <2>1. Chain!Front(stack[g]) \in Seq(Entries)
    BY <1>6, TopAndRest DEF ChainTypes
  <2>2. ChainRest'
    BY <1>6 DEF Chain!Leave, ChainTypes, ChainRest
  <2>3. result'[g] = r /\ \A h \in G : h # g => result'[h] = result[h]
    BY <1>6 DEF Chain!Leave, ChainTypes, ChainRest
  <2> QED
    BY <1>6, <1>a, <2>1, <2>2, <2>3, ChainTypesKept DEF Chain!Leave, Chain!Goto
<1>7. ASSUME NEW g \in G, Chain!Waiting(g) PROVE stack[g] # <<>> /\ Chain!Child(g) \in G
  <2>1. stack[g] \in Seq(Entries) /\ stack[g] # <<>>
    BY <1>7 DEF Chain!Waiting, ChainTypes, AtEase
  <2>2. Chain!Last(stack[g]) \in Entries
    BY <2>1, TopAndRest
  <2> QED
    BY <2>1, <2>2 DEF Chain!Child, Entries
<1>8. ASSUME NEW g \in G, Chain!Receive(g) PROVE ChainTypes'
  <2>1. stack[g] # <<>> /\ Chain!Child(g) \in G
    BY <1>7, <1>8 DEF Chain!Receive
  <2>2. channel[Chain!Child(g)] \in Chain!Results /\ channel' \in [G -> Chain!Results \cup {"empty"}]
    BY <1>8, <2>1 DEF Chain!Receive, ChainTypes, ChainRest
  <2>3. done' \subseteq G
    BY <1>8, <2>1 DEF Chain!Receive, ChainTypes, ChainRest
  <2> QED
    BY <1>6, <1>8, <2>1, <2>2, <2>3 DEF Chain!Receive
<1>9. ASSUME NEW g \in G, Chain!GiveUp(g) PROVE ChainTypes'
  <2>1. stack[g] # <<>> /\ Chain!Child(g) \in G /\ "timeout" \in Chain!Results
    BY <1>7, <1>9 DEF Chain!GiveUp, Chain!Results
  <2>2. channel' \in [G -> Chain!Results \cup {"empty"}] /\ done' \subseteq G
    BY <1>9, <2>1 DEF Chain!GiveUp, ChainTypes, ChainRest
  <2> QED
    BY <1>6, <1>9, <2>1, <2>2 DEF Chain!GiveUp
<1>10. ASSUME NEW g \in G, Chain!Return(g) PROVE ChainTypes'
  <2>0. stack[g] \in Seq(Entries) /\ stack[g] # <<>>
    BY <1>10 DEF Chain!Return, ChainTypes
  <2>1. CASE Chain!TriesAgain(g)
    <3> DEFINE e == [Top(g) EXCEPT !.attempt = @ + 1]
               s == [stack[g] EXCEPT ![Len(stack[g])] = e]
    <3>1. Top(g) \in Entries /\ Top(g).attempt < MaxRetries
      BY <2>0, <2>1, TopAndRest DEF Chain!TriesAgain, Top
    <3>2. e \in Entries
      BY <1>0, <3>1 DEF Entries
    <3>3. stack' = [stack EXCEPT ![g] = s]
      BY <1>10, <2>1 DEF Chain!Return, Top
    <3>4. s \in Seq(Entries)
      BY <2>0, <3>2, TopReplaced
    <3>5. ChainRest'
      BY <1>10, <2>1 DEF Chain!Return, ChainTypes, ChainRest
    <3> HIDE DEF s, e
    <3> QED
      BY <1>10, <1>a, <2>1, <3>3, <3>4, <3>5, ChainTypesKept DEF Chain!Return, Chain!Goto
  <2>2. CASE ~Chain!TriesAgain(g)
    <3>1. result[g] \in Chain!Results
      BY <1>10 DEF Chain!Return, ChainTypes, AtEase
    <3> QED
      BY <1>6, <1>10, <2>0, <2>2, <3>1 DEF Chain!Return, ChainTypes, ChainRest
  <2> QED
    BY <2>1, <2>2
<1>11. ASSUME NEW g \in G, Chain!End(g) PROVE ChainTypes'
  <2>1. result[g] \in Chain!Results
    BY <1>11 DEF Chain!End, ChainTypes, AtEase
  <2>2. ChainRest'
    BY <1>11, <2>1 DEF Chain!End, ChainTypes, ChainRest
  <2> QED
    BY <1>11, <1>a, <2>2, ChainTypesGoto DEF Chain!End
<1>12. ASSUME NEW g \in G, Chain!Expire(g) PROVE ChainTypes'
  BY <1>12 DEF Chain!Expire, ChainTypes, ChainRest, Entries, AtEase
<1>13. ASSUME NEW g \in G, Chain!HandlerReturns(g) PROVE ChainTypes'
  <2>1. PICK r \in Chain!Results : result' = [result EXCEPT ![g] = r]
    BY <1>13 DEF Chain!HandlerReturns
  <2>2. ChainRest' /\ result'[g] = r /\ \A h \in G : h # g => result'[h] = result[h]
    BY <1>13, <2>1 DEF Chain!HandlerReturns, ChainTypes, ChainRest
  <2> QED
    BY <1>13, <1>a, <2>2, ChainTypesGoto DEF Chain!HandlerReturns
<1>14. CASE UNCHANGED chainVars
  BY <1>14 DEF chainVars, ChainTypes, ChainRest, Entries, AtEase
<1> QED
  BY <1>1, <1>2, <1>3, <1>4, <1>5, <1>8, <1>9, <1>10, <1>11, <1>12, <1>13, <1>14 DEF Chain!Next, Chain!Step

LEMMA ChainTypesInit == V3Init => ChainTypes
<1> SUFFICES ASSUME V3Init PROVE ChainTypes
  OBVIOUS
<1>1. NoChain \/ Chain!Init
  BY DEF V3Init
<1>2. /\ chain \in Chains /\ index = 0 /\ runs = 0
      /\ stack = [g \in Chain!Goroutines |-> <<>>] /\ local = [g \in Chain!Goroutines |-> 0]
      /\ context = [g \in Chain!Goroutines |-> {}] /\ done \subseteq Chain!Goroutines
      /\ channel = [g \in Chain!Goroutines |-> "empty"] /\ result = [g \in Chain!Goroutines |-> "none"]
  BY <1>1, RuntimeAssumption DEF NoChain, Chain!Init, Chain!Goroutines
<1>3. step \in [Chain!Goroutines -> {"none", "call", "ended"}]
  BY <1>1 DEF NoChain, Chain!Init, Chain!Goroutines
<1>4. <<>> \in Seq(Entries)
  BY EmptySeq
<1> QED
  BY <1>2, <1>3, <1>4 DEF ChainTypes, ChainRest, ChainPCs, AtEase

\* A step of v3 is one of the chain, or leaves the chain alone.
LEMMA ChainMoves == [V3Next]_v3Vars => Chain!Next \/ UNCHANGED chainVars
  BY DEF V3Next, v3Vars

\* And its commands migrate as those of MigrationService do, so that what is proved of these
\* holds of v3.
LEMMA MigrationsAsBefore == V3Spec => Spec
<1>1. V3Init => Init
  BY DEF V3Init
<1>2. [V3Next]_v3Vars => [Next]_vars
  BY DEF V3Next, v3Vars
<1> QED
  BY <1>1, <1>2, PTL DEF V3Spec, V3Fairness, Spec

\* For any processes, goroutines, chains and limits: the variables of v3 keep their types, and no
\* pool of the runtime client hands out more connections than MaxConnections.
THEOREM V3TypeCorrect == V3Spec => []V3TypeOK
<1>1. ClientInv => Client!TypeOK
  BY DEF ClientInv, ClientTypes, WithinLimit, Client!TypeOK
<1>2. ChainTypes => Chain!TypeOK
  <2> SUFFICES ASSUME ChainTypes PROVE Chain!TypeOK
    OBVIOUS
  <2>1. ASSUME NEW g \in Chain!Goroutines, NEW i \in DOMAIN stack[g] PROVE stack[g][i] \in Entries
    <3>1. stack[g] \in Seq(Entries)
      BY DEF ChainTypes
    <3> QED
      BY <3>1, LenProperties
  <2> QED
    BY <2>1 DEF ChainTypes, ChainRest, ChainPCs, Entries, Chain!TypeOK
<1> QED
  BY <1>1, <1>2, ClientInit, ClientStep, ClientMoves, ChainTypesInit, ChainTypesStep, ChainMoves,
     MigrationsAsBefore, TypeCorrect, PTL DEF V3Spec, V3TypeOK

-----------------------------------------------------------------------------
(* The order of the middlewares.                                           *)

Moving == {"call", "fetch", "read", "write", "spawn"}

\* A goroutine that is not on its way to the handler, and has no retry to return to, calls no
\* next any more.
NoRetry(g) == \A k \in 1..Len(stack[g]) : chain[stack[g][k].mw] # "retry"
Going(g) == step[g] \in Moving \cup {"handler"} \/ (step[g] = "return" /\ ~NoRetry(g))

\* Calls of the handler, with the one a goroutine is on its way to; and how many there may be by
\* the retries after middleware i.
Sent(g) == IF step[g] \in Moving THEN runs + 1 ELSE runs
RetriesAfter(i) == {j \in DOMAIN chain : i < j /\ chain[j] = "retry"}
Budget(i) == 1 + MaxRetries * Cardinality(RetriesAfter(i))

\* The middlewares of a goroutine are stacked in their order, all behind the index, and a retry
\* that has still attempts left has not let the ones after it use more than theirs.
Placed(g) ==
  /\ \A j, k \in 1..Len(stack[g]) : j < k => stack[g][j].mw < stack[g][k].mw
  /\ \A k \in 1..Len(stack[g]) :
       step[g] \notin {"read", "write"} \/ k < Len(stack[g]) => stack[g][k].mw <= index
  /\ step[g] = "none" => stack[g] = <<>>
  /\ step[g] = "wait" => NoRetry(g)
  /\ step[g] = "fetch" => index < Len(chain)
  /\ step[g] \in {"read", "write"} => index < Len(chain) /\ Top(g).mw = index + 1
  /\ step[g] = "write" => local[g] = index
  /\ step[g] = "spawn" => chain[Top(g).mw] = "timeout"
WithinBudget(g) ==
  Going(g) =>
    /\ Sent(g) <= Budget(0)
    /\ \A k \in 1..Len(stack[g]), i \in DOMAIN chain :
         stack[g][k].mw = i => Sent(g) <= Budget(i) + stack[g][k].attempt

\* Only one goroutine goes on with the chain at a time.
ChainOrder ==
  /\ index <= Len(chain) /\ (runs > 0 => index = Len(chain)) /\ ~panicked
  /\ runs <= Budget(0)
  /\ \A g, h \in Chain!Goroutines : Going(g) /\ Going(h) => g = h
  /\ \A g \in Chain!Goroutines : Placed(g) /\ WithinBudget(g)

LEMMA Budgets ==
  ASSUME ChainTypes, NEW i \in Nat
  PROVE  /\ Budget(i) \in Nat /\ Budget(i) >= 1
         /\ \A j \in DOMAIN chain : i < j /\ chain[j] = "retry" => Budget(j) + MaxRetries <= Budget(i)
<1>0. /\ chain \in Seq({"pass", "retry", "timeout"}) /\ DOMAIN chain = 1..Len(chain) /\ Len(chain) \in Nat
      /\ MaxRetries \in Nat
  BY RuntimeAssumption, LenProperties DEF ChainTypes
<1>1. IsFiniteSet(DOMAIN chain)
  BY <1>0, FS_Interval
<1>2. \A j : IsFiniteSet(RetriesAfter(j)) /\ Cardinality(RetriesAfter(j)) \in Nat
  <2> TAKE j
  <2>1. RetriesAfter(j) \in SUBSET DOMAIN chain
    BY DEF RetriesAfter
  <2> QED
    BY <1>1, <2>1, FS_Subset, FS_CardinalityType
<1>3. Budget(i) \in Nat /\ Budget(i) >= 1
  <2>1. PICK c \in Nat : c = Cardinality(RetriesAfter(i))
    BY <1>2
  <2>2. MaxRetries * c \in Nat
    BY <1>0
  <2> QED
    BY <2>1, <2>2 DEF Budget
<1>4. ASSUME NEW j \in DOMAIN chain, i < j, chain[j] = "retry"
      PROVE  Budget(j) + MaxRetries <= Budget(i)
  <2>1. RetriesAfter(j) \cup {j} \in SUBSET RetriesAfter(i) /\ j \notin RetriesAfter(j)
    BY <1>0, <1>4 DEF RetriesAfter
  <2>2. PICK c \in Nat : c = Cardinality(RetriesAfter(j))
    BY <1>2
  <2>3. PICK d \in Nat : d = Cardinality(RetriesAfter(i))
    BY <1>2
  <2>4. Cardinality(RetriesAfter(j) \cup {j}) = c + 1
    BY <1>2, <2>1, <2>2, FS_AddElement
  <2>5. c + 1 <= d
    BY <1>2, <2>1, <2>3, <2>4, FS_Subset
  <2>6. PICK k \in Nat : d = c + 1 + k
    <3>1. d - (c + 1) \in Nat /\ d = c + 1 + (d - (c + 1))
      BY <2>5
    <3> QED
      BY <3>1
  <2>7. MaxRetries * (c + 1 + k) = MaxRetries * c + MaxRetries + MaxRetries * k
    BY <1>0
  <2>8. PICK x \in Nat, y \in Nat : x = MaxRetries * c /\ y = MaxRetries * k
    <3>1. MaxRetries * c \in Nat /\ MaxRetries * k \in Nat
      BY <1>0
    <3> QED
      BY <3>1
  <2>9. Budget(j) = 1 + x
    BY <2>2, <2>8 DEF Budget
  <2>10. Budget(i) = 1 + (x + MaxRetries + y)
    BY <2>3, <2>6, <2>7, <2>8 DEF Budget
  <2> QED
    BY <1>0, <2>9, <2>10
<1> QED
  BY <1>3, <1>4

\* What the step of one goroutine is to the others.
LEMMA OthersPlaced ==
  ASSUME ChainTypes, ChainTypes', UNCHANGED chain, NEW h \in Chain!Goroutines,
         Placed(h), WithinBudget(h),
         step'[h] = step[h], stack'[h] = stack[h], local'[h] = local[h],
         UNCHANGED <<index, runs>> \/ (~Going(h) /\ index' >= index)
  PROVE  Placed(h)' /\ WithinBudget(h)' /\ (Going(h)' <=> Going(h))
<1>1. NoRetry(h)' <=> NoRetry(h)
  BY DEF NoRetry
<1>2. Going(h)' <=> Going(h)
  BY <1>1 DEF Going
<1>3. index \in Nat /\ index' \in Nat /\ stack[h] \in Seq(Entries)
  BY DEF ChainTypes, ChainRest
<1>4. \A k \in 1..Len(stack[h]) : stack[h][k].mw \in Nat
  <2>1. \A k \in 1..Len(stack[h]) : stack[h][k] \in Entries
    BY <1>3, ElementOfSeq
  <2>2. DOMAIN chain \subseteq Nat
    BY RuntimeAssumption, LenProperties DEF ChainTypes
  <2> QED
    BY <2>1, <2>2 DEF Entries
<1>5. CASE UNCHANGED <<index, runs>>
  <2>1. Placed(h)'
    BY <1>1, <1>5 DEF Placed, Top
  <2>2. WithinBudget(h)'
    BY <1>2, <1>5 DEF WithinBudget, Sent, Budget, RetriesAfter
  <2> QED
    BY <1>2, <2>1, <2>2
<1>6. CASE ~Going(h) /\ index' >= index
  <2>1. step[h] \notin {"call", "fetch", "read", "write", "spawn"}
    BY <1>6 DEF Going, Moving
  <2>2. Placed(h)'
    BY <1>1, <1>3, <1>4, <1>6, <2>1 DEF Placed
  <2> QED
    BY <1>2, <1>6, <2>2 DEF WithinBudget
<1> QED
  BY <1>5, <1>6

\* A step of the goroutine g that goes on with the chain only if it did, and moves the index or
\* calls the handler only then.
LEMMA OrderKept ==
  ASSUME ChainTypes, ChainTypes', ChainOrder, UNCHANGED chain, NEW g \in Chain!Goroutines,
         \A h \in Chain!Goroutines : h # g =>
           step'[h] = step[h] /\ stack'[h] = stack[h] /\ local'[h] = local[h],
         UNCHANGED <<index, runs>> \/ (Going(g) /\ index' >= index),
         index' <= Len(chain), runs' > 0 => index' = Len(chain), ~panicked', runs' <= Budget(0),
         Going(g)' => Going(g), Placed(g)', WithinBudget(g)'
  PROVE  ChainOrder'
<1>1. ASSUME NEW h \in Chain!Goroutines, h # g
      PROVE  Placed(h)' /\ WithinBudget(h)' /\ (Going(h)' <=> Going(h))
  <2>1. UNCHANGED <<index, runs>> \/ (~Going(h) /\ index' >= index)
    BY <1>1 DEF ChainOrder
  <2>2. Placed(h) /\ WithinBudget(h)
    BY DEF ChainOrder
  <2> QED
    BY <1>1, <2>1, <2>2, OthersPlaced
<1>2. \A h \in Chain!Goroutines : Placed(h)' /\ WithinBudget(h)' /\ (Going(h)' => Going(h))
  BY <1>1
<1>3. Budget(0)' = Budget(0)
  BY DEF Budget, RetriesAfter
<1> QED
  BY <1>2, <1>3 DEF ChainOrder

\* The entries of a stack, and what is known of them.
LEMMA EntriesOf ==
  ASSUME ChainTypes, NEW g \in Chain!Goroutines
  PROVE  /\ stack[g] \in Seq(Entries) /\ Len(stack[g]) \in Nat /\ DOMAIN stack[g] = 1..Len(stack[g])
         /\ \A k \in 1..Len(stack[g]) :
              /\ stack[g][k] \in Entries /\ stack[g][k].mw \in DOMAIN chain
              /\ stack[g][k].mw \in Nat /\ stack[g][k].mw > 0
              /\ stack[g][k].attempt \in Nat
         /\ stack[g] # <<>> => /\ Len(stack[g]) \in 1..Len(stack[g])
                               /\ Chain!Last(stack[g]) = Top(g)
<1>1. stack[g] \in Seq(Entries)
  BY DEF ChainTypes
<1>2. \A k \in 1..Len(stack[g]) : stack[g][k] \in Entries
  BY <1>1, ElementOfSeq
<1>3. DOMAIN chain \subseteq Nat \ {0} /\ MaxRetries \in Nat
  BY RuntimeAssumption, LenProperties DEF ChainTypes
<1> QED
  BY <1>1, <1>2, <1>3, LenProperties, TopAndRest DEF Entries, Top

\* A middleware returns to the one before it.
LEMMA LeftInOrder ==
  ASSUME ChainTypes, ChainTypes', ChainOrder, NEW g \in Chain!Goroutines, NEW r, Chain!Leave(g, r),
         stack[g] # <<>>, step[g] \in {"wait", "return"}, UNCHANGED <<chain, index, runs, local, panicked>>
  PROVE  ChainOrder'
<1> DEFINE n == Len(stack[g])
<1>1. /\ stack[g] \in Seq(Entries) /\ n \in Nat \ {0}
      /\ stack'[g] = Chain!Front(stack[g]) /\ step'[g] = "return"
      /\ \A h \in Chain!Goroutines : h # g => step'[h] = step[h] /\ stack'[h] = stack[h]
  BY EntriesOf, EmptySeq DEF Chain!Leave, Chain!Goto, ChainTypes
<1>2. Len(stack'[g]) = n - 1 /\ \A k \in 1..(n - 1) : stack'[g][k] = stack[g][k]
  BY <1>1, TopAndRest
<1>3. 1..Len(stack'[g]) = 1..(n - 1) /\ 1..(n - 1) \subseteq 1..n
  BY <1>1, <1>2
<1>4. Placed(g) /\ WithinBudget(g)
  BY DEF ChainOrder
<1>5. NoRetry(g) => NoRetry(g)'
  BY <1>2, <1>3 DEF NoRetry
<1>6. Going(g)' => Going(g)
  BY <1>1, <1>4, <1>5 DEF Going, Placed, Moving
<1>7. Placed(g)'
  <2>1. \A k \in 1..(n - 1) : stack'[g][k].mw <= index
    BY <1>2, <1>3, <1>4 DEF Placed
  <2>2. \A j, k \in 1..(n - 1) : j < k => stack'[g][j].mw < stack'[g][k].mw
    BY <1>2, <1>3, <1>4 DEF Placed
  <2> QED
    BY <1>1, <1>3, <2>1, <2>2 DEF Placed
<1>8. WithinBudget(g)'
  <2> SUFFICES ASSUME Going(g)'
               PROVE  /\ Sent(g)' <= Budget(0)'
                      /\ \A k \in 1..Len(stack'[g]), i \in DOMAIN chain :
                           stack'[g][k].mw = i => Sent(g)' <= Budget(i)' + stack'[g][k].attempt
    BY DEF WithinBudget
  <2>1. step[g] = "return"
    BY <1>4, <1>5, <1>6 DEF Going, Placed, Moving
  <2>2. Sent(g)' = Sent(g) /\ \A i : Budget(i)' = Budget(i)
    BY <1>1, <2>1 DEF Sent, Budget, RetriesAfter, Moving
  <2>3. /\ Sent(g) <= Budget(0)
        /\ \A k \in 1..n, i \in DOMAIN chain : stack[g][k].mw = i => Sent(g) <= Budget(i) + stack[g][k].attempt
    BY <1>4, <1>6 DEF WithinBudget
  <2>4. ASSUME NEW k \in 1..(n - 1), NEW i \in DOMAIN chain, stack'[g][k].mw = i
        PROVE  Sent(g)' <= Budget(i)' + stack'[g][k].attempt
    <3>1. stack'[g][k] = stack[g][k] /\ k \in 1..n
      BY <1>2, <1>3
    <3> QED
      BY <2>2, <2>3, <2>4, <3>1
  <2> QED
    BY <1>3, <2>2, <2>3, <2>4
<1> QED
  BY <1>1, <1>6, <1>7, <1>8, OrderKept DEF ChainOrder

\* A goroutine that stays on its way, or reaches the handler, with the stack and calls it had.
LEMMA SameCalls ==
  ASSUME ChainTypes, NEW g \in Chain!Goroutines, WithinBudget(g), Going(g),
         UNCHANGED chain, stack'[g] = stack[g], Sent(g)' = Sent(g)
  PROVE  WithinBudget(g)'
<1>1. \A i : Budget(i)' = Budget(i)
  BY DEF Budget, RetriesAfter
<1> QED
  BY <1>1 DEF WithinBudget

LEMMA OrderStep ==
  ASSUME ChainTypes, ChainTypes', ~Chain!SharesIndex, ChainOrder, Chain!Next \/ UNCHANGED chainVars
  PROVE  ChainOrder'
<1> DEFINE G == Chain!Goroutines
<1>0. /\ DOMAIN chain = 1..Len(chain) /\ Len(chain) \in Nat /\ MaxRetries \in Nat
      /\ index \in Nat /\ index' \in Nat /\ runs \in Nat
      /\ step \in [G -> ChainPCs] /\ stack \in [G -> Seq(Entries)] /\ local \in [G -> Nat]
  BY RuntimeAssumption, LenProperties DEF ChainTypes, ChainRest
<1>a. \A g \in G : Placed(g) /\ WithinBudget(g)
  BY DEF ChainOrder
<1>b. \A i \in Nat : Budget(i) \in Nat /\ Budget(i) >= 1
  BY Budgets
<1>c. /\ index <= Len(chain) /\ (runs > 0 => index = Len(chain)) /\ ~panicked
      /\ runs <= Budget(0)
  BY DEF ChainOrder
<1>d. /\ index \in Nat /\ runs \in Nat /\ Len(chain) \in Nat
      /\ index < Len(chain) => runs = 0
      /\ index < Len(chain) \/ index = Len(chain)
  <2>1. index \in Nat /\ runs \in Nat /\ Len(chain) \in Nat
    BY <1>0
  <2> QED
    BY <1>c, <2>1
<1>1. ASSUME NEW g \in G, Chain!CallNext(g) PROVE ChainOrder'
  <2>0. UNCHANGED <<chain, index, stack, local, panicked>> /\ step[g] = "call" /\ Going(g) /\ Sent(g) = runs + 1
    BY <1>1 DEF Chain!CallNext, Going, Sent, Moving
  <2>1. CASE index < Len(chain)
    <3>1. UNCHANGED runs /\ step' = [step EXCEPT ![g] = "fetch"]
      BY <1>1, <2>1 DEF Chain!CallNext, Chain!Goto
    <3>2. Placed(g)'
      BY <1>0, <1>a, <2>0, <2>1, <3>1 DEF Placed
    <3>3. WithinBudget(g)'
      BY <1>0, <1>a, <2>0, <3>1, SameCalls DEF Sent, Moving
    <3> QED
      BY <1>0, <2>0, <3>1, <3>2, <3>3, OrderKept DEF ChainOrder
  <2>2. CASE ~(index < Len(chain))
    <3>1. runs' = runs + 1 /\ step' = [step EXCEPT ![g] = "handler"]
      BY <1>1, <2>2 DEF Chain!CallNext, Chain!Goto
    <3>2. Placed(g)'
      BY <1>0, <1>a, <2>0, <3>1 DEF Placed
    <3>3. WithinBudget(g)'
      BY <1>0, <1>a, <2>0, <3>1, SameCalls DEF Sent, Moving
    <3>4. index = Len(chain)
      BY <1>d, <2>2
    <3>5. runs' <= Budget(0)
      BY <1>a, <2>0, <3>1 DEF WithinBudget
    <3> QED
      BY <1>0, <1>c, <2>0, <3>1, <3>2, <3>3, <3>4, <3>5, OrderKept
  <2> QED
    BY <2>1, <2>2
<1>2. ASSUME NEW g \in G, Chain!Fetch(g) PROVE ChainOrder'
  <2> DEFINE e == [mw |-> index + 1, attempt |-> 0, child |-> 0]
             n == Len(stack[g])
  <2>0. UNCHANGED <<chain, index, local, runs>> /\ step[g] = "fetch" /\ Going(g) /\ index < Len(chain)
    BY <1>2, <1>a DEF Chain!Fetch, Placed, Going, Moving
  <2>1. UNCHANGED panicked /\ stack' = [stack EXCEPT ![g] = Append(stack[g], e)] /\ step' = [step EXCEPT ![g] = "read"]
    BY <1>2, <2>0 DEF Chain!Fetch, Chain!Goto
  <2>2. e \in Entries
    BY <1>0, <2>0, RuntimeAssumption DEF Entries, Chain!Goroutines
  <2>3. /\ stack'[g] = Append(stack[g], e) /\ n \in Nat /\ Len(stack'[g]) = n + 1
        /\ stack'[g][n + 1] = e /\ e.mw = index + 1 /\ e.attempt = 0
        /\ \A k \in 1..n : stack'[g][k] = stack[g][k]
    BY <1>0, <2>1, <2>2, Pushed
  <2> HIDE DEF e
  <2>4. /\ \A k \in 1..n : stack[g][k].mw <= index /\ stack[g][k].mw \in Nat
        /\ \A j, k \in 1..n : j < k => stack[g][j].mw < stack[g][k].mw
    BY <1>a, <2>0, EntriesOf DEF Placed
  <2>5. Placed(g)'
    <3>1. ASSUME NEW j \in 1..(n + 1), NEW k \in 1..(n + 1), j < k PROVE stack'[g][j].mw < stack'[g][k].mw
      <4>1. j \in 1..n
        BY <2>3, <3>1
      <4>2. CASE k \in 1..n
        BY <2>3, <2>4, <3>1, <4>1, <4>2
      <4>3. CASE k = n + 1
        BY <1>0, <2>3, <2>4, <4>1, <4>3
      <4> QED
        BY <2>3, <4>2, <4>3
    <3>2. \A k \in 1..(n + 1) : k < n + 1 => stack'[g][k].mw <= index
      BY <2>3, <2>4
    <3>3. step'[g] = "read" /\ index' = index /\ Top(g)'.mw = index + 1 /\ UNCHANGED chain
      BY <1>0, <2>0, <2>1, <2>3 DEF Top
    <3> QED
      BY <2>0, <2>3, <3>1, <3>2, <3>3 DEF Placed
  <2>6. WithinBudget(g)'
    <3>0. runs = 0 /\ runs' = runs /\ step'[g] = "read"
      BY <1>0, <1>d, <2>0, <2>1
    <3>1. Sent(g)' = 1
      BY <3>0 DEF Sent, Moving
    <3>2. \A i : Budget(i)' = Budget(i)
      BY <2>0 DEF Budget, RetriesAfter
    <3>3. \A k \in 1..(n + 1) : stack'[g][k].attempt \in Nat
      BY <2>3, EntriesOf
    <3>4. Sent(g)' <= Budget(0)'
      BY <1>b, <3>1, <3>2
    <3>5. ASSUME NEW k \in 1..(n + 1), NEW i \in DOMAIN chain
          PROVE  Sent(g)' <= Budget(i)' + stack'[g][k].attempt
      <4>1. Budget(i) \in Nat /\ Budget(i) >= 1 /\ stack'[g][k].attempt \in Nat
        BY <1>0, <1>b, <3>3
      <4> QED
        BY <3>1, <3>2, <4>1
    <3> QED
      BY <2>0, <2>3, <3>4, <3>5 DEF WithinBudget
  <2> QED
    BY <1>0, <2>0, <2>1, <2>5, <2>6, OrderKept DEF ChainOrder
<1>3. ASSUME NEW g \in G, Chain!ReadIndex(g) PROVE ChainOrder'
  <2>1. /\ UNCHANGED <<chain, index, stack, runs, panicked>> /\ step[g] = "read" /\ Going(g)
        /\ step' = [step EXCEPT ![g] = "write"] /\ local' = [local EXCEPT ![g] = index]
    BY <1>3 DEF Chain!ReadIndex, Chain!Goto, Going, Moving
  <2>2. Placed(g)'
    BY <1>0, <1>a, <2>1 DEF Placed, Top
  <2>3. WithinBudget(g)'
    BY <1>0, <1>a, <2>1, SameCalls DEF Sent, Moving
  <2> QED
    BY <1>0, <2>1, <2>2, <2>3, OrderKept DEF ChainOrder
<1>4. ASSUME NEW g \in G, Chain!WriteIndex(g) PROVE ChainOrder'
  <2> DEFINE x == IF chain[Top(g).mw] = "timeout" THEN "spawn" ELSE "call"
  <2>0. stack[g] # <<>> /\ step[g] = "write" /\ Going(g)
    BY <1>4 DEF Chain!WriteIndex, ChainTypes, AtEase, Going, Moving
  <2>1. /\ UNCHANGED <<chain, stack, local, runs, panicked>> /\ step' = [step EXCEPT ![g] = x]
        /\ index' = index + 1 /\ index < Len(chain) /\ Top(g).mw = index + 1
    BY <1>4, <1>a, <2>0, EntriesOf DEF Chain!WriteIndex, Chain!Goto, Placed
  <2>2. Placed(g)'
    <3>1. \A k \in 1..Len(stack[g]) : stack[g][k].mw <= index + 1
      <4> TAKE k \in 1..Len(stack[g])
      <4>1. CASE k = Len(stack[g])
        BY <1>0, <2>1, <4>1 DEF Top
      <4>2. CASE k < Len(stack[g])
        BY <1>0, <1>a, <2>0, <4>2, EntriesOf DEF Placed
      <4> QED
        BY <4>1, <4>2, EntriesOf
    <3>2. step'[g] \in {"call", "spawn"} /\ (step'[g] = "spawn" => chain[Top(g).mw] = "timeout")
      BY <1>0, <2>1
    <3>3. stack'[g] = stack[g] /\ Top(g)' = Top(g)
      BY <2>1 DEF Top
    <3> QED
      BY <1>a, <2>1, <3>1, <3>2, <3>3 DEF Placed
  <2>3. WithinBudget(g)'
    BY <1>0, <1>a, <2>0, <2>1, SameCalls DEF Sent, Moving
  <2>4. runs = 0 /\ index' <= Len(chain) /\ index' >= index
    <3>1. index < Len(chain) /\ index' = index + 1
      BY <2>1
    <3> QED
      BY <1>d, <3>1
  <2> QED
    BY <1>0, <1>c, <2>0, <2>1, <2>2, <2>3, <2>4, OrderKept
<1>5. ASSUME NEW g \in G, Chain!Receive(g) \/ Chain!GiveUp(g) PROVE ChainOrder'
  <2>1. step[g] = "wait" /\ stack[g] # <<>>
    BY <1>5 DEF Chain!Receive, Chain!GiveUp, Chain!Waiting, ChainTypes, AtEase
  <2> QED
    BY <1>5, <2>1, LeftInOrder DEF Chain!Receive, Chain!GiveUp
<1>6. ASSUME NEW g \in G, Chain!Return(g), Chain!TriesAgain(g) PROVE ChainOrder'
  <2> DEFINE n == Len(stack[g])
             e == [Top(g) EXCEPT !.attempt = @ + 1]
             s == [stack[g] EXCEPT ![n] = e]
  <2>0. /\ UNCHANGED <<chain, index, local, runs, panicked>> /\ step[g] = "return" /\ stack[g] # <<>>
        /\ step' = [step EXCEPT ![g] = "call"] /\ stack' = [stack EXCEPT ![g] = s]
    BY <1>6 DEF Chain!Return, Chain!Goto, Top
  <2>1. /\ n \in Nat \ {0} /\ n \in 1..n /\ stack[g] \in Seq(Entries) /\ Top(g) \in Entries
        /\ Chain!Last(stack[g]) = Top(g)
    BY <2>0, EntriesOf, EmptySeq DEF Top
  <2>2. chain[Top(g).mw] = "retry" /\ Top(g).attempt < MaxRetries
    BY <1>6, <2>1 DEF Chain!TriesAgain
  <2>3. e \in Entries /\ e.mw = Top(g).mw /\ e.attempt = Top(g).attempt + 1
    <3>1. Top(g).attempt + 1 \in 0..MaxRetries
      BY <1>0, <2>1, <2>2 DEF Entries
    <3>2. Top(g) \in [mw : DOMAIN chain, attempt : 0..MaxRetries, child : G]
      BY <2>1 DEF Entries
    <3> QED
      BY <3>1, <3>2 DEF Entries
  <2>4. stack'[g] = s
    BY <1>0, <2>0
  <2>5. Len(s) = n /\ s[n] = e /\ \A k \in 1..n : k # n => s[k] = stack[g][k]
    BY <2>0, <2>1, <2>3, TopReplaced
  <2> HIDE DEF s, e
  <2>6. \A k \in 1..n : stack'[g][k].mw = stack[g][k].mw
    BY <2>3, <2>4, <2>5 DEF Top
  <2>7. Going(g)
    BY <2>0, <2>1, <2>2 DEF Going, NoRetry, Top
  <2>8. Placed(g)'
    <3>1. step'[g] = "call"
      BY <1>0, <2>0
    <3>2. \A k \in 1..n : stack'[g][k].mw <= index
      BY <1>a, <2>0, <2>6 DEF Placed
    <3>3. \A j, k \in 1..n : j < k => stack'[g][j].mw < stack'[g][k].mw
      BY <1>a, <2>6 DEF Placed
    <3>4. Len(stack'[g]) = n /\ UNCHANGED index
      BY <2>0, <2>4, <2>5
    <3> HIDE DEF n
    <3> QED
      BY <3>1, <3>2, <3>3, <3>4 DEF Placed
  <2>9. WithinBudget(g)'
    <3>0. PICK m \in DOMAIN chain : m = Top(g).mw
      BY <2>1 DEF Entries
    <3>1. PICK a \in Nat : a = Top(g).attempt
      BY <2>1, EntriesOf DEF Top
    <3>2. /\ \A i \in 1..n, j \in DOMAIN chain : stack[g][i].mw = j => Sent(g) <= Budget(j) + stack[g][i].attempt
          /\ Sent(g) = runs
      BY <1>a, <2>0, <2>7 DEF WithinBudget, Sent, Moving
    <3>3. runs <= Budget(m) + a
      BY <2>1, <3>0, <3>1, <3>2 DEF Top
    <3>4. step'[g] = "call" /\ UNCHANGED runs
      BY <1>0, <2>0
    <3>5. Sent(g)' = runs + 1
      BY <3>4 DEF Sent, Moving
    <3>6. \A j : Budget(j)' = Budget(j)
      BY <2>0 DEF Budget, RetriesAfter
    <3>7. Budget(m) \in Nat /\ a < MaxRetries /\ chain[m] = "retry" /\ m > 0
      <4>1. m \in Nat /\ m > 0
        BY <1>0, <3>0
      <4>2. a < MaxRetries /\ chain[m] = "retry"
        BY <2>2, <3>0, <3>1
      <4> QED
        BY <1>b, <4>1, <4>2
    <3>8. runs + 1 <= Budget(m) + MaxRetries
      BY <1>0, <3>3, <3>7
    <3>9. Sent(g)' <= Budget(0)'
      <4>1. Budget(m) + MaxRetries <= Budget(0) /\ Budget(0) \in Nat
        BY <3>0, <3>7, Budgets
      <4> QED
        BY <1>0, <3>5, <3>6, <3>7, <3>8, <4>1
    <3>10. ASSUME NEW i \in 1..n, NEW j \in DOMAIN chain, stack'[g][i].mw = j
           PROVE  Sent(g)' <= Budget(j)' + stack'[g][i].attempt
      <4>0. Budget(j) \in Nat
        BY <1>0, <1>b
      <4>1. CASE i = n
        <5>1. j = m /\ stack'[g][i].attempt = a + 1
          BY <2>3, <2>4, <2>5, <3>0, <3>1, <3>10, <4>1
        <5> QED
          BY <1>0, <3>3, <3>5, <3>6, <4>0, <5>1
      <4>2. CASE i # n
        <5>1. stack'[g][i] = stack[g][i] /\ stack[g][i].mw = j /\ stack[g][i].attempt \in Nat
          BY <2>4, <2>5, <3>10, <4>2, EntriesOf
        <5>2. j < m
          <6>1. i < n
            BY <2>1, <4>2
          <6> QED
            BY <1>a, <2>1, <3>0, <5>1, <6>1 DEF Placed, Top
        <5>3. Budget(m) + MaxRetries <= Budget(j)
          <6>1. j \in Nat
            BY <1>0
          <6> QED
            BY <3>7, <5>2, <6>1, Budgets
        <5> QED
          BY <1>0, <3>5, <3>6, <3>7, <3>8, <4>0, <5>1, <5>3
      <4> QED
        BY <4>1, <4>2
    <3> QED
      BY <2>0, <2>4, <2>5, <3>9, <3>10 DEF WithinBudget
  <2> QED
    BY <1>0, <1>c, <2>0, <2>7, <2>8, <2>9, OrderKept
<1>7. ASSUME NEW g \in G, Chain!Return(g), ~Chain!TriesAgain(g) PROVE ChainOrder'
  BY <1>7, LeftInOrder DEF Chain!Return
<1>8. ASSUME NEW g \in G, Chain!End(g) PROVE ChainOrder'
  <2>1. /\ UNCHANGED <<chain, index, stack, local, runs, panicked>>
        /\ step[g] = "return" /\ stack[g] = <<>> /\ step' = [step EXCEPT ![g] = "ended"]
    BY <1>8 DEF Chain!End, Chain!Goto
  <2>2. ~Going(g)'
    BY <1>0, <2>1 DEF Going, Moving
  <2>3. Placed(g)'
    BY <1>0, <1>a, <2>1 DEF Placed
  <2> QED
    BY <1>0, <1>c, <2>1, <2>2, <2>3, OrderKept DEF WithinBudget
<1>9. CASE (\E g \in G : Chain!Expire(g)) \/ UNCHANGED chainVars
  <2>1. UNCHANGED <<chain, index, step, stack, local, runs, panicked>>
    BY <1>9 DEF Chain!Expire, chainVars
  <2>2. \A g \in G : (Going(g)' <=> Going(g)) /\ (Placed(g)' <=> Placed(g)) /\ Sent(g)' = Sent(g)
    BY <2>1 DEF Going, NoRetry, Placed, Top, Sent
  <2>3. \A i : Budget(i)' = Budget(i)
    BY <2>1 DEF Budget, RetriesAfter
  <2>4. \A g \in G : WithinBudget(g)' <=> WithinBudget(g)
    BY <2>1, <2>2, <2>3 DEF WithinBudget
  <2> QED
    BY <2>1, <2>2, <2>3, <2>4 DEF ChainOrder
<1>10. ASSUME NEW g \in G, Chain!HandlerReturns(g) PROVE ChainOrder'
  <2>1. /\ UNCHANGED <<chain, index, stack, local, runs, panicked>>
        /\ step[g] = "handler" /\ step' = [step EXCEPT ![g] = "return"]
    BY <1>10 DEF Chain!HandlerReturns, Chain!Goto
  <2>2. Going(g)
    BY <2>1 DEF Going
  <2>3. Placed(g)'
    BY <1>0, <1>a, <2>1 DEF Placed
  <2>4. WithinBudget(g)'
    BY <1>0, <1>a, <2>1, <2>2, SameCalls DEF Sent, Moving
  <2> QED
    BY <1>0, <1>c, <2>1, <2>2, <2>3, <2>4, OrderKept
<1>11. ASSUME NEW g \in G, Chain!Spawn(g) PROVE ChainOrder'
  <2> DEFINE n == Len(stack[g])
  <2> PICK c \in G :
        /\ step[c] = "none"
        /\ step' = [step EXCEPT ![g] = "wait", ![c] = "call"]
        /\ stack' = [stack EXCEPT ![g][Len(stack[g])].child = c]
    BY <1>11 DEF Chain!Spawn
  <2> DEFINE e == [Top(g) EXCEPT !.child = c]
             s == [stack[g] EXCEPT ![n] = e]
  <2>0. /\ UNCHANGED <<chain, index, local, runs, panicked>> /\ step[g] = "spawn" /\ stack[g] # <<>>
        /\ c # g /\ Going(g)
    BY <1>11 DEF Chain!Spawn, ChainTypes, AtEase, Going, Moving
  <2>1. /\ n \in Nat \ {0} /\ n \in 1..n /\ stack[g] \in Seq(Entries) /\ Top(g) \in Entries
        /\ Chain!Last(stack[g]) = Top(g)
    BY <2>0, EntriesOf, EmptySeq DEF Top
  <2>2. e \in Entries /\ e.mw = Top(g).mw
    BY <2>1 DEF Entries
  <2>3. stack' = [stack EXCEPT ![g] = s]
    BY DEF Top
  <2>4. stack'[g] = s /\ \A h \in G : h # g => stack'[h] = stack[h]
    BY <1>0, <2>3
  <2>5. Len(s) = n /\ s[n] = e /\ \A k \in 1..n : k # n => s[k] = stack[g][k]
    BY <2>0, <2>1, <2>2, TopReplaced
  <2> HIDE DEF s, e
  <2>6. Len(stack'[g]) = n /\ \A k \in 1..n : stack'[g][k].mw = stack[g][k].mw
    BY <2>2, <2>4, <2>5 DEF Top
  <2>7. step'[g] = "wait" /\ step'[c] = "call" /\ \A h \in G \ {g, c} : step'[h] = step[h]
    BY <1>0, <2>0
  <2>8. NoRetry(g)'
    <3>1. ASSUME NEW k \in 1..n PROVE chain[stack[g][k].mw] # "retry"
      <4>1. chain[Top(g).mw] = "timeout" /\ Top(g).mw \in 1..Len(chain) /\ stack[g][k].mw \in 1..Len(chain)
        BY <1>0, <1>a, <2>0, <2>1, EntriesOf DEF Placed, Entries
      <4>2. CASE k = n
        BY <4>1, <4>2 DEF Top
      <4>3. CASE k # n
        <5>1. stack[g][k].mw < Top(g).mw
          BY <1>a, <2>1, <4>3 DEF Placed, Top
        <5>2. Top(g).mw \in (stack[g][k].mw + 1)..Len(chain)
          BY <1>0, <4>1, <5>1
        <5> QED
          BY <1>0, <4>1, <5>2 DEF Chain!SharesIndex
      <4> QED
        BY <4>2, <4>3
    <3> QED
      BY <2>0, <2>6, <3>1 DEF NoRetry
  <2>9. Placed(g)' /\ ~Going(g)'
    <3>1. \A k \in 1..n : stack'[g][k].mw <= index
      BY <1>a, <2>0, <2>6 DEF Placed
    <3>2. \A j, k \in 1..n : j < k => stack'[g][j].mw < stack'[g][k].mw
      BY <1>a, <2>6 DEF Placed
    <3> HIDE DEF n
    <3> QED
      BY <2>0, <2>6, <2>7, <2>8, <3>1, <3>2 DEF Placed, Going, Moving
  <2>10. stack'[c] = <<>> /\ Len(stack'[c]) = 0
    BY <1>a, <2>0, <2>4 DEF Placed
  <2>11. Placed(c)' /\ Going(c)'
    <3>1. 1..Len(stack'[c]) = {}
      BY <2>10
    <3> QED
      BY <2>7, <3>1 DEF Placed, Going, Moving
  <2>12. \A j : Budget(j)' = Budget(j)
    BY <2>0 DEF Budget, RetriesAfter
  <2>13. WithinBudget(c)'
    <3>1. Sent(c)' = runs + 1 /\ Sent(g) = runs + 1
      BY <2>0, <2>7 DEF Sent, Moving
    <3>2. Sent(g) <= Budget(0)
      BY <1>a, <2>0 DEF WithinBudget
    <3> QED
      BY <2>10, <2>12, <3>1, <3>2 DEF WithinBudget
  <2>14. ASSUME NEW h \in G \ {g, c} PROVE Placed(h)' /\ WithinBudget(h)' /\ ~Going(h)'
    <3>1. step'[h] = step[h] /\ stack'[h] = stack[h] /\ local'[h] = local[h]
      BY <2>0, <2>4, <2>7
    <3>2. ~Going(h)
      BY <2>0 DEF ChainOrder
    <3> QED
      BY <1>a, <2>0, <3>1, <3>2, OthersPlaced
  <2>15. ASSUME NEW h \in G PROVE Placed(h)' /\ WithinBudget(h)' /\ (Going(h)' => h = c)
    BY <2>9, <2>11, <2>13, <2>14 DEF WithinBudget
  <2> QED
    BY <1>c, <2>0, <2>12, <2>15 DEF ChainOrder
<1> QED
  BY <1>1, <1>2, <1>3, <1>4, <1>5, <1>6, <1>7, <1>8, <1>9, <1>10, <1>11
     DEF Chain!Next, Chain!Step

LEMMA OrderInit == V3Init => ChainOrder
<1> SUFFICES ASSUME V3Init PROVE ChainOrder
  OBVIOUS
<1> DEFINE G == Chain!Goroutines
<1>0. ChainTypes
  BY ChainTypesInit
<1>1. NoChain \/ Chain!Init
  BY DEF V3Init
<1>2. /\ index = 0 /\ runs = 0 /\ ~panicked /\ stack = [g \in G |-> <<>>]
      /\ \/ step = [g \in G |-> "ended"]
         \/ step = [g \in G |-> IF g = 0 THEN "call" ELSE "none"]
  BY <1>1 DEF NoChain, Chain!Init, Chain!Goroutines
<1>3. Len(chain) \in Nat /\ Budget(0) \in Nat /\ Budget(0) >= 1
  BY <1>0, RuntimeAssumption, Budgets DEF ChainTypes
<1>4. ASSUME NEW g \in G PROVE Placed(g) /\ WithinBudget(g) /\ (Going(g) => g = 0)
  <2>1. step[g] \in {"none", "call", "ended"} /\ stack[g] = <<>> /\ (step[g] = "call" => g = 0)
    BY <1>2
  <2>2. 1..Len(stack[g]) = {}
    BY <2>1
  <2>3. Sent(g) <= Budget(0)
    BY <1>2, <1>3 DEF Sent
  <2> QED
    BY <2>1, <2>2, <2>3 DEF Placed, WithinBudget, Going, Moving
<1> QED
  BY <1>2, <1>3, <1>4 DEF ChainOrder

\* A call of the handler after the first is that of a retry on top of the stack.
Retrying(g) == stack[g] # <<>> /\ chain[Top(g).mw] = "retry" /\ Top(g).attempt > 0
Direct(g) ==
  /\ step[g] = "spawn" => runs = 0
  /\ step[g] = "call" /\ runs > 0 => Retrying(g)
  /\ step[g] = "handler" /\ runs > 1 => Retrying(g)

LEMMA DirectStep ==
  ASSUME ChainTypes, ChainTypes', ~Chain!SharesIndex, ChainOrder,
         \A g \in Chain!Goroutines : Direct(g), Chain!Next \/ UNCHANGED chainVars
  PROVE  \A g \in Chain!Goroutines : Direct(g)'
<1> DEFINE G == Chain!Goroutines
<1>0. /\ runs \in Nat /\ index \in Nat /\ Len(chain) \in Nat /\ (runs > 0 => index = Len(chain))
      /\ step \in [G -> ChainPCs] /\ stack \in [G -> Seq(Entries)]
  BY RuntimeAssumption, LenProperties DEF ChainTypes, ChainRest, ChainOrder
<1>a. \A g \in G : Direct(g) /\ Placed(g)
  BY DEF ChainOrder
<1>b. \A h \in G : UNCHANGED <<chain, runs>> /\ step'[h] = step[h] /\ stack'[h] = stack[h] => Direct(h)'
  BY <1>a DEF Direct, Retrying, Top
<1>c. \A h \in G : step'[h] \notin {"call", "spawn", "handler"} => Direct(h)'
  BY DEF Direct
<1>1. ASSUME NEW g \in G, Chain!CallNext(g), NEW h \in G PROVE Direct(h)'
  <2>1. UNCHANGED <<chain, stack>> /\ step[g] = "call" /\ runs' \in {runs, runs + 1}
    BY <1>1 DEF Chain!CallNext
  <2>2. CASE h = g
    <3>1. \/ step'[g] = "fetch"
          \/ step'[g] = "handler" /\ runs' = runs + 1
      BY <1>0, <1>1 DEF Chain!CallNext, Chain!Goto
    <3>2. runs > 0 => Retrying(g)
      BY <1>a, <2>1 DEF Direct
    <3>3. Retrying(g)' <=> Retrying(g)
      BY <2>1 DEF Retrying, Top
    <3> QED
      BY <1>0, <2>2, <3>1, <3>2, <3>3 DEF Direct
  <2>3. CASE h # g
    <3>1. step'[h] = step[h]
      BY <1>0, <1>1, <2>3 DEF Chain!CallNext, Chain!Goto
    <3>2. ~Going(h)
      BY <2>1, <2>3 DEF ChainOrder, Going, Moving
    <3> QED
      BY <1>c, <3>1, <3>2 DEF Going, Moving
  <2> QED
    BY <2>2, <2>3
<1>2. ASSUME NEW g \in G, Chain!Fetch(g), NEW h \in G PROVE Direct(h)'
  <2>1. UNCHANGED <<chain, runs>>
    BY <1>2 DEF Chain!Fetch
  <2>2. step'[h] = "read" \/ (step'[h] = step[h] /\ stack'[h] = stack[h])
    BY <1>0, <1>2 DEF Chain!Fetch, Chain!Goto
  <2> QED
    BY <1>b, <1>c, <2>1, <2>2
<1>3. ASSUME NEW g \in G, Chain!ReadIndex(g), NEW h \in G PROVE Direct(h)'
  <2>1. UNCHANGED <<chain, runs, stack>>
    BY <1>3 DEF Chain!ReadIndex
  <2>2. step'[h] = "write" \/ step'[h] = step[h]
    BY <1>0, <1>3 DEF Chain!ReadIndex, Chain!Goto
  <2> QED
    BY <1>b, <1>c, <2>1, <2>2
<1>4. ASSUME NEW g \in G, Chain!WriteIndex(g), NEW h \in G PROVE Direct(h)'
  <2>1. UNCHANGED <<chain, runs, stack>> /\ step[g] = "write"
    BY <1>4 DEF Chain!WriteIndex
  <2>2. runs = 0
    <3>1. index < Len(chain)
      BY <1>a, <2>1 DEF Placed
    <3> QED
      BY <1>0, <3>1
  <2> QED
    BY <1>0, <2>1, <2>2, <1>4 DEF Direct, Chain!WriteIndex, Chain!Goto
<1>5. ASSUME NEW g \in G, NEW r, Chain!Leave(g, r), UNCHANGED <<chain, runs>>, NEW h \in G PROVE Direct(h)'
  <2>1. step'[h] = "return" \/ (step'[h] = step[h] /\ stack'[h] = stack[h])
    BY <1>0, <1>5 DEF Chain!Leave, Chain!Goto
  <2> QED
    BY <1>b, <1>c, <1>5, <2>1
<1>6. ASSUME NEW g \in G, Chain!Receive(g) \/ Chain!GiveUp(g), NEW h \in G PROVE Direct(h)'
  BY <1>5, <1>6 DEF Chain!Receive, Chain!GiveUp
<1>7. ASSUME NEW g \in G, Chain!Return(g), Chain!TriesAgain(g), NEW h \in G PROVE Direct(h)'
  <2> DEFINE n == Len(stack[g])
             e == [Top(g) EXCEPT !.attempt = @ + 1]
             s == [stack[g] EXCEPT ![n] = e]
  <2>0. /\ UNCHANGED <<chain, runs>> /\ step[g] = "return" /\ stack[g] # <<>>
        /\ step' = [step EXCEPT ![g] = "call"] /\ stack' = [stack EXCEPT ![g] = s]
    BY <1>7 DEF Chain!Return, Chain!Goto, Top
  <2>1. CASE h # g
    BY <1>0, <1>b, <2>0, <2>1
  <2>2. CASE h = g
    <3>1. /\ n \in Nat \ {0} /\ n \in 1..n /\ stack[g] \in Seq(Entries) /\ Top(g) \in Entries
          /\ Chain!Last(stack[g]) = Top(g)
      BY <2>0, EntriesOf, EmptySeq DEF Top
    <3>2. chain[Top(g).mw] = "retry" /\ Top(g).attempt < MaxRetries
      BY <1>7, <3>1 DEF Chain!TriesAgain
    <3>3. e \in Entries /\ e.mw = Top(g).mw /\ e.attempt = Top(g).attempt + 1 /\ Top(g).attempt \in Nat
      <4>1. Top(g).attempt \in 0..MaxRetries /\ MaxRetries \in Nat
        BY <3>1, RuntimeAssumption DEF Entries
      <4>2. Top(g).attempt + 1 \in 0..MaxRetries
        BY <3>2, <4>1
      <4>3. Top(g) \in [mw : DOMAIN chain, attempt : 0..MaxRetries, child : G]
        BY <3>1 DEF Entries
      <4> QED
        BY <4>1, <4>2, <4>3 DEF Entries
    <3>4. stack'[g] = s
      BY <1>0, <2>0
    <3>5. Len(s) = n /\ s[n] = e
      BY <2>0, <3>1, <3>3, TopReplaced
    <3> HIDE DEF s, e
    <3>6. stack'[g] # <<>>
      BY <3>1, <3>4, <3>5
    <3>7. Top(g)' = e
      BY <3>4, <3>5 DEF Top
    <3>8. Retrying(g)'
      BY <2>0, <3>2, <3>3, <3>6, <3>7 DEF Retrying
    <3> QED
      BY <1>0, <2>0, <2>2, <3>8 DEF Direct
  <2> QED
    BY <2>1, <2>2
<1>8. ASSUME NEW g \in G, Chain!Return(g), ~Chain!TriesAgain(g), NEW h \in G PROVE Direct(h)'
  BY <1>5, <1>8 DEF Chain!Return
<1>9. ASSUME NEW g \in G, Chain!End(g) \/ Chain!HandlerReturns(g), NEW h \in G PROVE Direct(h)'
  <2>1. UNCHANGED <<chain, runs, stack>>
    BY <1>9 DEF Chain!End, Chain!HandlerReturns
  <2>2. step'[h] \in {"ended", "return"} \/ step'[h] = step[h]
    BY <1>0, <1>9 DEF Chain!End, Chain!HandlerReturns, Chain!Goto
  <2> QED
    BY <1>b, <1>c, <2>1, <2>2
<1>10. ASSUME NEW g \in G, Chain!Spawn(g), NEW h \in G PROVE Direct(h)'
  <2>1. UNCHANGED <<chain, runs>> /\ runs = 0 /\ step[g] = "spawn"
    BY <1>10, <1>a DEF Chain!Spawn, Direct
  <2> QED
    BY <2>1 DEF Direct
<1>11. ASSUME (\E g \in G : Chain!Expire(g)) \/ UNCHANGED chainVars, NEW h \in G PROVE Direct(h)'
  BY <1>11, <1>b DEF Chain!Expire, chainVars
<1> QED
  BY <1>1, <1>2, <1>3, <1>4, <1>6, <1>7, <1>8, <1>9, <1>10, <1>11 DEF Chain!Next, Chain!Step

LEMMA DirectInit == V3Init => \A g \in Chain!Goroutines : Direct(g)
<1> SUFFICES ASSUME V3Init PROVE \A g \in Chain!Goroutines : Direct(g)
  OBVIOUS
<1>1. NoChain \/ Chain!Init
  BY DEF V3Init
<1> QED
  BY <1>1 DEF NoChain, Chain!Init, Chain!Goroutines, Direct

\* For chains of any length and any number of retries and goroutines: unless a retry precedes a
\* timeout, the first call of the handler comes when every middleware has been entered, every
\* later one straight from a retry, past the middlewares inside it, one call at a time and no
\* more often than the attempts of the retries add up to (v3/runtime/middleware.go).
THEOREM ChainEntersOnce == V3Spec => []EnteredOnce
<1> DEFINE Ordered == ChainOrder /\ \A g \in Chain!Goroutines : Direct(g)
<1>1. ChainTypes /\ ChainTypes' /\ (~Chain!SharesIndex => Ordered) /\ (Chain!Next \/ UNCHANGED chainVars)
        => (~Chain!SharesIndex => Ordered)'
  <2> SUFFICES ASSUME ChainTypes, ChainTypes', ~Chain!SharesIndex => Ordered,
                      Chain!Next \/ UNCHANGED chainVars, ~Chain!SharesIndex'
               PROVE  Ordered'
    OBVIOUS
  <2>1. UNCHANGED chain
    BY DEF Chain!Next, Chain!Step, Chain!CallNext, Chain!Fetch, Chain!ReadIndex, Chain!WriteIndex,
           Chain!Spawn, Chain!Receive, Chain!GiveUp, Chain!Return, Chain!End, Chain!Expire,
           Chain!HandlerReturns, chainVars
  <2>2. ~Chain!SharesIndex
    BY <2>1 DEF Chain!SharesIndex
  <2> QED
    BY <2>2, OrderStep, DirectStep
<1>2. ChainTypes /\ (~Chain!SharesIndex => Ordered) => EnteredOnce
  <2> SUFFICES ASSUME ChainTypes, Ordered PROVE Chain!EnteredOnce
    BY DEF EnteredOnce, Chain!EnteredOnce
  <2>1. {i \in DOMAIN chain : chain[i] = "retry"} = RetriesAfter(0)
    BY RuntimeAssumption, LenProperties DEF RetriesAfter, ChainTypes
  <2>2. runs <= 1 + MaxRetries * Chain!Cardinality({i \in DOMAIN chain : chain[i] = "retry"})
    BY <2>1, ChainCardinality DEF ChainOrder, Budget
  <2>3. Chain!Cardinality({g \in Chain!Goroutines : step[g] = "handler"}) <= 1
    <3> DEFINE H == {g \in Chain!Goroutines : step[g] = "handler"}
    <3>1. H = {} \/ \E g : H = {g}
      BY DEF ChainOrder, Going
    <3> HIDE DEF H
    <3>2. Cardinality(H) = 0 \/ Cardinality(H) = 1
      BY <3>1, FS_EmptySet, FS_Singleton
    <3>3. Chain!Cardinality(H) <= 1
      BY <3>2, ChainCardinality
    <3> QED
      BY <3>3 DEF H
  <2>4. ASSUME NEW g \in Chain!Goroutines, step[g] = "handler", runs > 1
        PROVE  stack[g] # <<>> /\ chain[Chain!Last(stack[g]).mw] = "retry" /\ Chain!Last(stack[g]).attempt > 0
    BY <2>4, EntriesOf DEF Direct, Retrying
  <2> QED
    BY <2>2, <2>3, <2>4 DEF Chain!EnteredOnce, ChainOrder
<1> QED
  <2>1. V3Init => (~Chain!SharesIndex => Ordered)
    BY OrderInit, DirectInit
  <2> QED
    BY <1>1, <1>2, <2>1, ChainTypesInit, ChainTypesStep, ChainMoves, PTL DEF V3Spec
=============================================================================
