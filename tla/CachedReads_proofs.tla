------------------------ MODULE CachedReads_proofs -------------------------
(***************************************************************************)
(* Proofs about CachedReads, for any goroutines, tables, queries, keys and *)
(* bounds.  QueryCache: its types, and that a read is answered with rows   *)
(* of a query that prints as its own, as they were in one state of the     *)
(* database.  LRUCache: that it implements LossyCache, with the executor's *)
(* cache beside it.                                                        *)
(***************************************************************************)
EXTENDS CachedReads, FiniteSetTheorems, WellFoundedInduction, TLAPS

\* The rows of r are those of its query in some state the database was in.
Seen(r) == \E state \in past : \A t \in r.query.reads : r.at[t] = state[t]

\* Every entry was found by a query of its key.
EntriesHonest ==
  cache # None =>
    \A k \in Keys : cache[k] # None => Parts(cache[k].query) = k /\ Seen(cache[k])

\* So were the rows of every reader.
RowsHonest ==
  \A c \in Clients : pc[c] \in {"recheck", "store", "done"} =>
    Parts(rows[c].query) = Parts(asked[c]) /\ Seen(rows[c])

IInv == TypeOK /\ EntriesHonest /\ RowsHonest /\ db \in past

-----------------------------------------------------------------------------
LEMMA PartsInKeys == ASSUME NEW q \in Queries PROVE Parts(q) \in Keys
BY DEF Keys

\* What a query finds has the type of a result and was seen in the current state.
LEMMA FoundResult ==
  ASSUME NEW q \in Queries, db \in [Tables -> Versions]
  PROVE  [query |-> q, at |-> [t \in q.reads |-> db[t]]] \in Results
<1>1. q.reads \in SUBSET Tables
  BY QueriesAssumption
<1>2. [t \in q.reads |-> db[t]] \in [q.reads -> Versions]
  BY <1>1
<1>3. [t \in q.reads |-> db[t]] \in UNION {[T -> Versions] : T \in SUBSET Tables}
  BY <1>1, <1>2
<1>4. QED
  BY <1>3 DEF Results

LEMMA NewLocals == AnyQuery \in Queries /\ AnyTable \in Tables /\ NewTables \in [Tables -> Versions]
<1>1. AnyQuery \in Queries
  BY QueriesAssumption DEF AnyQuery
<1>2. AnyTable \in Tables
  BY TablesAssumption DEF AnyTable
<1>3. 0 \in Versions
  BY MaxWritesAssumption DEF Versions
<1>4. QED
  BY <1>1, <1>2, <1>3 DEF NewTables

LEMMA TypeInit == Init => TypeOK
BY NewLocals DEF Init, TypeOK, PCs

\* A read that starts has the types of its query and of the state it starts in.
LEMMA StartReadType ==
  ASSUME TypeOK, NEW c \in Clients, NEW q \in Queries, NEW k \in {"many", "first"},
         NEW state \in [Tables -> Versions], StartRead(c, q, k, state)
  PROVE  /\ pc' \in [Clients -> PCs]
         /\ asked' \in [Clients -> Queries]
         /\ kind' \in [Clients -> {"many", "first"}]
         /\ rows' \in [Clients -> Results \cup {None}]
         /\ begun' \in [Clients -> [Tables -> Versions]]
         /\ \A d \in Clients :
              pc'[d] \in {"recheck", "store", "done"} => rows'[d] # None
<1>1. /\ asked' \in [Clients -> Queries]
      /\ kind' \in [Clients -> {"many", "first"}]
      /\ rows' \in [Clients -> Results \cup {None}]
      /\ begun' \in [Clients -> [Tables -> Versions]]
  BY DEF StartRead, TypeOK
<1>2. pc' \in [Clients -> PCs]
  BY DEF StartRead, GoTo, TypeOK, PCs
<1>3. \A d \in Clients :
        pc'[d] \in {"recheck", "store", "done"} => rows'[d] # None
  BY DEF StartRead, GoTo, TypeOK
<1>4. QED
  BY <1>1, <1>2, <1>3

\* A step that only moves one goroutine, to a place where it needs no rows it lacks.
LEMMA MoveType ==
  ASSUME TypeOK, NEW c \in Clients, NEW p \in PCs, GoTo(c, p),
         UNCHANGED <<db, past, cache, asked, kind, target, rows, begun>>,
         p \in {"recheck", "store", "done"} => rows[c] # None
  PROVE  TypeOK'
<1>1. pc' \in [Clients -> PCs]
  BY DEF GoTo, TypeOK
<1>2. \A d \in Clients :
        pc'[d] \in {"recheck", "store", "done"} => rows'[d] # None
  BY DEF GoTo, TypeOK
<1>3. QED
  BY <1>1, <1>2 DEF TypeOK

LEMMA TypeNext == TypeOK /\ [Next]_vars => TypeOK'
<1> SUFFICES ASSUME TypeOK, [Next]_vars PROVE TypeOK'
  OBVIOUS
<1> USE DEF CacheOn
<1>1. CASE EnableCache
  BY <1>1 DEF EnableCache, EmptyCache, TypeOK, Caches
<1>2. CASE DisableCache
  BY <1>2 DEF DisableCache, TypeOK
<1>3. ASSUME NEW k \in Keys, Forget(k) PROVE TypeOK'
  BY <1>3 DEF Forget, TypeOK, Caches
<1>4. ASSUME NEW c \in Clients, NEW q \in Queries, NEW k \in {"many", "first"},
             Read(c, q, k)
      PROVE  TypeOK'
  <2>1. StartRead(c, q, k, db) /\ db \in [Tables -> Versions]
    BY <1>4 DEF Read, TypeOK
  <2>2. target' \in [Clients -> Tables]
    BY <1>4, NewLocals DEF Read, TypeOK
  <2>3. QED
    BY <1>4, <2>1, <2>2, StartReadType DEF Read, TypeOK
<1>5. ASSUME NEW c \in Clients, CheckCache(c) PROVE TypeOK'
  BY <1>5, MoveType DEF CheckCache, Check, PCs
<1>6. ASSUME NEW c \in Clients, Miss(c) PROVE TypeOK'
  BY <1>6, MoveType DEF Miss, PCs
<1>7. ASSUME NEW c \in Clients, Hit(c) PROVE TypeOK'
  <2> DEFINE entry == cache[Parts(asked[c])]
  <2>1. entry \in Results /\ entry # None
    BY <1>7, PartsInKeys DEF Hit, TypeOK, Caches
  <2>2. CASE kind[c] = "many"
    <3>1. /\ rows' = [rows EXCEPT ![c] = entry]
          /\ pc' = [pc EXCEPT ![c] = "done"]
          /\ UNCHANGED <<db, past, cache, asked, kind, target, begun>>
      BY <1>7, <2>2 DEF Hit, GoTo
    <3>2. pc' \in [Clients -> PCs] /\ rows' \in [Clients -> Results \cup {None}]
      BY <3>1, <2>1 DEF TypeOK, PCs
    <3>3. \A d \in Clients :
            pc'[d] \in {"recheck", "store", "done"} => rows'[d] # None
      BY <3>1, <2>1 DEF TypeOK
    <3>4. QED
      BY <3>1, <3>2, <3>3 DEF TypeOK
  <2>3. CASE kind[c] # "many"
    BY <1>7, <2>3, MoveType DEF Hit, PCs
  <2>4. QED
    BY <2>2, <2>3
<1>8. ASSUME NEW c \in Clients, Query(c) PROVE TypeOK'
  <2> DEFINE found == [query |-> asked[c],
                       at |-> [t \in asked[c].reads |-> db[t]]]
  <2>1. found \in Results /\ found # None
    BY FoundResult, NoneAssumption DEF TypeOK
  <2>2. PICK p \in {"recheck", "done"} : GoTo(c, p)
    BY <1>8 DEF Query
  <2>3. pc' \in [Clients -> PCs] /\ rows' \in [Clients -> Results \cup {None}]
    BY <1>8, <2>1, <2>2 DEF Query, GoTo, TypeOK, PCs
  <2>4. \A d \in Clients :
          pc'[d] \in {"recheck", "store", "done"} => rows'[d] # None
    BY <1>8, <2>1, <2>2 DEF Query, GoTo, TypeOK
  <2>5. QED
    BY <1>8, <2>3, <2>4 DEF Query, TypeOK
<1>9. ASSUME NEW c \in Clients, Fails(c) PROVE TypeOK'
  BY <1>9, MoveType DEF Fails, PCs
<1>10. ASSUME NEW c \in Clients, RecheckCache(c) PROVE TypeOK'
  <2>1. PICK p \in {"store", "done"} : GoTo(c, p)
    BY <1>10 DEF RecheckCache, Check
  <2>2. rows[c] # None
    BY <1>10 DEF RecheckCache, Check, TypeOK
  <2>3. QED
    BY <1>10, <2>1, <2>2, MoveType DEF RecheckCache, Check, PCs
<1>11. ASSUME NEW c \in Clients, Store(c) PROVE TypeOK'
  <2>1. rows[c] \in Results /\ rows[c] # None
    BY <1>11 DEF Store, TypeOK
  <2>2. cache' \in Caches
    BY <1>11, <2>1, PartsInKeys DEF Store, TypeOK, Caches
  <2>3. pc' \in [Clients -> PCs]
    BY <1>11 DEF Store, GoTo, TypeOK, PCs
  <2>4. \A d \in Clients :
          pc'[d] \in {"recheck", "store", "done"} => rows'[d] # None
    BY <1>11, <2>1 DEF Store, GoTo, TypeOK
  <2>5. QED
    BY <1>11, <2>2, <2>3, <2>4 DEF Store, TypeOK
<1>13. ASSUME NEW c \in Clients, Panic(c) PROVE TypeOK'
  BY <1>13, MoveType DEF Panic, PCs
<1>14. ASSUME NEW c \in Clients, NEW t \in Tables, Write(c, t) PROVE TypeOK'
  <2>1. pc' \in [Clients -> PCs]
    BY <1>14 DEF Write, GoTo, TypeOK, PCs
  <2>2. \A d \in Clients :
          pc'[d] \in {"recheck", "store", "done"} => rows'[d] # None
    BY <1>14 DEF Write, GoTo, TypeOK
  <2>3. /\ asked' \in [Clients -> Queries] /\ begun' \in [Clients -> [Tables -> Versions]]
        /\ kind' \in [Clients -> {"many", "first"}]
    BY <1>14, NewLocals DEF Write, TypeOK
  <2>4. QED
    BY <1>14, <2>1, <2>2, <2>3 DEF Write, TypeOK
<1>15. ASSUME NEW c \in Clients, CheckInvalidate(c) PROVE TypeOK'
  BY <1>15, MoveType DEF CheckInvalidate, Check, PCs
<1>16. ASSUME NEW c \in Clients, NEW at \in PCs, NEW pattern,
              NEW next \in {"between", "execute"},
              InvalidatePattern(c, at, pattern, next)
       PROVE  TypeOK'
  <2>1. cache' \in Caches
    BY <1>16 DEF InvalidatePattern, TypeOK, Caches
  <2>2. pc' \in [Clients -> PCs]
    BY <1>16 DEF InvalidatePattern, GoTo, TypeOK, PCs
  <2>3. \A d \in Clients :
          pc'[d] \in {"recheck", "store", "done"} => rows'[d] # None
    BY <1>16 DEF InvalidatePattern, GoTo, TypeOK
  <2>4. QED
    BY <1>16, <2>1, <2>2, <2>3 DEF InvalidatePattern, TypeOK
<1>17. ASSUME NEW c \in Clients, Execute(c) PROVE TypeOK'
  <2>1. db' \in [Tables -> Versions] /\ past' \subseteq [Tables -> Versions]
    <3>1. /\ target[c] \in Tables /\ db[target[c]] < MaxWrites
          /\ db' = [db EXCEPT ![target[c]] = @ + 1]
          /\ past' = past \cup {db'}
      BY <1>17 DEF Execute, TypeOK
    <3>2. db[target[c]] + 1 \in Versions
      BY <3>1, MaxWritesAssumption DEF TypeOK, Versions
    <3>3. QED
      BY <3>1, <3>2 DEF TypeOK
  <2>2. CASE GoTo(c, "idle") /\ UNCHANGED <<asked, kind, rows, begun>>
    <3>1. pc' \in [Clients -> PCs]
      BY <2>2 DEF GoTo, TypeOK, PCs
    <3>2. \A d \in Clients :
            pc'[d] \in {"recheck", "store", "done"} => rows'[d] # None
      BY <2>2 DEF GoTo, TypeOK
    <3>3. QED
      BY <1>17, <2>1, <2>2, <3>1, <3>2 DEF Execute, TypeOK
  <2>3. ASSUME NEW q \in Queries, StartRead(c, q, "first", db') PROVE TypeOK'
    BY <1>17, <2>1, <2>3, StartReadType DEF Execute, TypeOK
  <2>4. QED
    BY <1>17, <2>2, <2>3 DEF Execute
<1>18. CASE UNCHANGED vars
  BY <1>18 DEF vars, TypeOK
<1>19. QED
  BY <1>1, <1>2, <1>3, <1>4, <1>5, <1>6, <1>7, <1>8, <1>9, <1>10, <1>11, <1>13,
     <1>14, <1>15, <1>16, <1>17, <1>18
     DEF Next, InvalidateAround, InvalidateBetween, PCs

\* The variables keep their types, for any number of goroutines, tables and queries.
THEOREM TypeCorrect == Spec => []TypeOK
  BY TypeInit, TypeNext, PTL DEF Spec

-----------------------------------------------------------------------------
LEMMA HonestInit == Init => EntriesHonest /\ RowsHonest /\ db \in past
BY DEF Init, EntriesHonest, RowsHonest

\* A step that changes no entry and no rows, and moves one goroutine to a place where
\* its rows are known to be honest.
LEMMA HonestMove ==
  ASSUME IInv, UNCHANGED <<db, past, cache, asked, rows>>,
         NEW c \in Clients, NEW p, GoTo(c, p),
         p \in {"recheck", "store", "done"} => pc[c] \in {"recheck", "store", "done"}
  PROVE  (EntriesHonest /\ RowsHonest /\ db \in past)'
BY DEF IInv, EntriesHonest, RowsHonest, Seen, GoTo, TypeOK

\* Entries that are kept or dropped, with the rows untouched.
LEMMA HonestForget ==
  ASSUME IInv, UNCHANGED <<db, past, asked, rows>>,
         cache' # None => cache # None,
         cache' # None => \A k \in Keys : cache'[k] \in {cache[k], None},
         \A c \in Clients : pc'[c] \in {"recheck", "store", "done"} => pc'[c] = pc[c]
  PROVE  (EntriesHonest /\ RowsHonest /\ db \in past)'
<1>1. EntriesHonest'
  BY DEF IInv, EntriesHonest, Seen
<1>2. RowsHonest'
  BY DEF IInv, RowsHonest, Seen
<1>3. QED
  BY <1>1, <1>2 DEF IInv

\* The rows of c start afresh in a database that may have moved on.
LEMMA HonestFresh ==
  ASSUME IInv, NEW c \in Clients, past \subseteq past', db' \in past',
         UNCHANGED cache,
         \A d \in Clients : pc'[d] \in {"recheck", "store", "done"} =>
           /\ pc[d] \in {"recheck", "store", "done"}
           /\ rows'[d] = rows[d] /\ asked'[d] = asked[d]
  PROVE  (EntriesHonest /\ RowsHonest /\ db \in past)'
<1>1. EntriesHonest'
  BY DEF IInv, EntriesHonest, Seen
<1>2. RowsHonest'
  BY DEF IInv, RowsHonest, Seen
<1>3. QED
  BY <1>1, <1>2

LEMMA HonestNext == IInv /\ [Next]_vars => (EntriesHonest /\ RowsHonest /\ db \in past)'
<1> SUFFICES ASSUME IInv, [Next]_vars
             PROVE  (EntriesHonest /\ RowsHonest /\ db \in past)'
  OBVIOUS
<1> DEFINE Honest == EntriesHonest /\ RowsHonest /\ db \in past
<1> USE DEF CacheOn
<1>1. CASE EnableCache
  <2>1. \A k \in Keys : cache'[k] = None
    BY <1>1 DEF EnableCache, EmptyCache
  <2>2. EntriesHonest'
    BY <2>1 DEF EntriesHonest
  <2>3. (RowsHonest /\ db \in past)'
    BY <1>1 DEF EnableCache, IInv, RowsHonest, Seen
  <2>4. QED
    BY <2>2, <2>3
<1>2. CASE DisableCache
  BY <1>2, HonestForget DEF DisableCache
<1>3. ASSUME NEW k \in Keys, Forget(k) PROVE Honest'
  <2>1. \A j \in Keys : cache'[j] \in {cache[j], None}
    BY <1>3 DEF Forget, IInv, TypeOK, Caches
  <2>2. QED
    BY <1>3, <2>1, HonestForget DEF Forget
<1>4. ASSUME NEW c \in Clients, NEW q \in Queries, NEW k \in {"many", "first"},
             Read(c, q, k)
      PROVE  Honest'
  <2>1. \A d \in Clients : pc'[d] \in {"recheck", "store", "done"} =>
          /\ pc[d] \in {"recheck", "store", "done"}
          /\ rows'[d] = rows[d] /\ asked'[d] = asked[d]
    BY <1>4 DEF Read, StartRead, GoTo, IInv, TypeOK
  <2>2. QED
    BY <1>4, <2>1, HonestFresh DEF Read, IInv
<1>5. ASSUME NEW c \in Clients, CheckCache(c) PROVE Honest'
  BY <1>5, HonestMove DEF CheckCache, Check
<1>6. ASSUME NEW c \in Clients, Miss(c) \/ Fails(c) \/ Panic(c) PROVE Honest'
  BY <1>6, HonestMove DEF Miss, Fails, Panic
<1>7. ASSUME NEW c \in Clients, Hit(c) PROVE Honest'
  <2> DEFINE entry == cache[Parts(asked[c])]
  <2>1. Parts(entry.query) = Parts(asked[c]) /\ Seen(entry)
    BY <1>7, PartsInKeys DEF Hit, IInv, TypeOK, EntriesHonest
  <2>2. CASE kind[c] = "many"
    <3>1. EntriesHonest' /\ (db \in past)'
      BY <1>7 DEF Hit, IInv, EntriesHonest, Seen
    <3>2. ASSUME NEW d \in Clients, pc'[d] \in {"recheck", "store", "done"}
          PROVE  Parts(rows'[d].query) = Parts(asked'[d]) /\ Seen(rows[d])'
      <4>1. CASE d = c
        <5>1. rows'[d] = entry /\ asked'[d] = asked[c] /\ past' = past
          BY <1>7, <2>2, <4>1 DEF Hit, IInv, TypeOK
        <5>2. QED
          BY <2>1, <5>1 DEF Seen
      <4>2. CASE d # c
        BY <1>7, <2>2, <3>2, <4>2 DEF Hit, GoTo, IInv, TypeOK, RowsHonest, Seen
      <4>3. QED
        BY <4>1, <4>2
    <3>3. QED
      BY <3>1, <3>2 DEF RowsHonest
  <2>3. CASE kind[c] # "many"
    BY <1>7, <2>3, HonestMove DEF Hit
  <2>4. QED
    BY <2>2, <2>3
<1>8. ASSUME NEW c \in Clients, Query(c) PROVE Honest'
  <2>1. EntriesHonest' /\ (db \in past)'
    BY <1>8 DEF Query, IInv, EntriesHonest, Seen
  <2>2. ASSUME NEW d \in Clients, pc'[d] \in {"recheck", "store", "done"}
        PROVE  Parts(rows'[d].query) = Parts(asked'[d]) /\ Seen(rows[d])'
    <3>1. CASE d = c
      BY <1>8, <3>1 DEF Query, IInv, TypeOK, Seen
    <3>2. CASE d # c
      BY <1>8, <2>2, <3>2 DEF Query, GoTo, IInv, TypeOK, RowsHonest, Seen
    <3>3. QED
      BY <3>1, <3>2
  <2>3. QED
    BY <2>1, <2>2 DEF RowsHonest
<1>9. ASSUME NEW c \in Clients, RecheckCache(c) PROVE Honest'
  BY <1>9, HonestMove DEF RecheckCache, Check
<1>10. ASSUME NEW c \in Clients, Store(c) PROVE Honest'
  <2>1. Parts(rows[c].query) = Parts(asked[c]) /\ Seen(rows[c])
    BY <1>10 DEF Store, IInv, RowsHonest
  <2>2. ASSUME NEW k \in Keys, cache'[k] # None
        PROVE  Parts(cache'[k].query) = k /\ Seen(cache[k])'
    <3>1. CASE k = Parts(asked[c])
      BY <1>10, <2>1, <3>1 DEF Store, IInv, TypeOK, Caches, Seen
    <3>2. CASE k # Parts(asked[c])
      <4>1. cache'[k] = cache[k] /\ past' = past /\ cache # None
        BY <1>10, <3>2 DEF Store, IInv, TypeOK, Caches
      <4> QED
        BY <2>2, <4>1 DEF IInv, EntriesHonest, Seen
    <3>3. QED
      BY <3>1, <3>2
  <2>3. EntriesHonest'
    BY <2>2 DEF EntriesHonest
  <2>4. RowsHonest' /\ (db \in past)'
    BY <1>10 DEF Store, GoTo, IInv, TypeOK, RowsHonest, Seen
  <2>5. QED
    BY <2>3, <2>4
<1>12. ASSUME NEW c \in Clients, NEW t \in Tables, Write(c, t) PROVE Honest'
  <2>1. \A d \in Clients : pc'[d] \in {"recheck", "store", "done"} =>
          /\ pc[d] \in {"recheck", "store", "done"}
          /\ rows'[d] = rows[d] /\ asked'[d] = asked[d]
    BY <1>12 DEF Write, GoTo, IInv, TypeOK
  <2>2. QED
    BY <1>12, <2>1, HonestFresh DEF Write, IInv
<1>13. ASSUME NEW c \in Clients, CheckInvalidate(c) PROVE Honest'
  BY <1>13, HonestMove DEF CheckInvalidate, Check
<1>14. ASSUME NEW c \in Clients, NEW at, NEW pattern,
              NEW next \in {"between", "execute"},
              InvalidatePattern(c, at, pattern, next)
       PROVE  Honest'
  <2>1. \A k \in Keys : cache'[k] \in {cache[k], None}
    BY <1>14 DEF InvalidatePattern
  <2>2. \A d \in Clients : pc'[d] \in {"recheck", "store", "done"} => pc'[d] = pc[d]
    BY <1>14 DEF InvalidatePattern, GoTo, IInv, TypeOK
  <2>3. QED
    BY <1>14, <2>1, <2>2, HonestForget DEF InvalidatePattern
<1>15. ASSUME NEW c \in Clients, Execute(c) PROVE Honest'
  <2>1. \A d \in Clients : pc'[d] \in {"recheck", "store", "done"} =>
          /\ pc[d] \in {"recheck", "store", "done"}
          /\ rows'[d] = rows[d] /\ asked'[d] = asked[d]
    BY <1>15 DEF Execute, StartRead, GoTo, IInv, TypeOK
  <2>2. past \subseteq past' /\ db' \in past' /\ UNCHANGED cache
    BY <1>15 DEF Execute
  <2>3. QED
    BY <2>1, <2>2, HonestFresh
<1>16. CASE UNCHANGED vars
  BY <1>16 DEF vars, IInv, EntriesHonest, RowsHonest, Seen
<1>17. QED
  BY <1>1, <1>2, <1>3, <1>4, <1>5, <1>6, <1>7, <1>8, <1>9, <1>10, <1>12,
     <1>13, <1>14, <1>15, <1>16 DEF Next, InvalidateAround, InvalidateBetween

LEMMA Invariance == Spec => []IInv
<1>1. Init => IInv
  BY TypeInit, HonestInit DEF IInv
<1>2. IInv /\ [Next]_vars => IInv'
  BY TypeNext, HonestNext DEF IInv
<1>3. QED
  BY <1>1, <1>2, PTL DEF Spec

\* A read is answered with rows of a query whose SQL and arguments print as its own,
\* whatever is cached, forgotten, switched off and on meanwhile: GenerateCacheKey
\* tells any two queries apart but those that print alike.
THEOREM OwnAnswers == Spec => []AnswersOwnQuery
<1>1. IInv => AnswersOwnQuery
  <2> SUFFICES ASSUME IInv, NEW c \in Clients, pc[c] = "done"
               PROVE  Printed(rows[c].query) = Printed(asked[c])
    BY DEF AnswersOwnQuery
  <2>1. Parts(rows[c].query) = Parts(asked[c])
    BY DEF IInv, RowsHonest
  <2>2. Parts(rows[c].query)[3] = Printed(rows[c].query) /\ Parts(asked[c])[3] = Printed(asked[c])
    BY DEF Parts
  <2>3. QED
    BY <2>1, <2>2
<1>2. QED
  BY <1>1, Invariance, PTL

\* The rows of an answer, whoever's they are, were read together: the database once
\* was in a state that has all their tables as they were seen.
THEOREM ConsistentAnswers == Spec => []AnswersConsistent
<1>1. IInv => AnswersConsistent
  BY DEF IInv, RowsHonest, Seen, AnswersConsistent
<1>2. QED
  BY <1>1, Invariance, PTL

-----------------------------------------------------------------------------
(* Induction over numbers, with a set in the place of a predicate.         *)

LEMMA LeastNumber ==
  ASSUME NEW S \in SUBSET Nat, S # {}
  PROVE  \E n \in S : \A k \in S : n <= k
<1> DEFINE R == OpToRel(<, Nat)
<1>1. IsWellFoundedOn(R, Nat)
  BY NatLessThanWellFounded
<1>2. \A x, y \in Nat : x < y => <<x, y>> \in R
  BY DEF OpToRel
<1>3. PICK n \in S : \A k \in S : ~(<<k, n>> \in R)
  <2> HIDE DEF R
  <2> QED
    BY <1>1, WFMin
<1>4. \A k \in S : ~(k < n)
  <2> HIDE DEF R
  <2> QED
    BY <1>2, <1>3
<1> QED
  BY <1>4

LEMMA UpTo ==
  ASSUME NEW n \in Nat, NEW S, 0 \in S, \A k \in 0..n : k \in S /\ k < n => k + 1 \in S
  PROVE  \A k \in 0..n : k \in S
<1> DEFINE T == (0..n) \ S
<1> SUFFICES ASSUME T # {} PROVE FALSE
  OBVIOUS
<1>1. T \in SUBSET Nat
  OBVIOUS
<1>2. PICK m \in T : \A k \in T : m <= k
  <2> HIDE DEF T
  <2> QED
    BY <1>1, LeastNumber
<1>3. m # 0 /\ m \in 0..n /\ m \notin S
  OBVIOUS
<1>4. m - 1 \in 0..n /\ m - 1 < n /\ (m - 1) + 1 = m
  BY <1>3
<1>5. m - 1 \in S
  BY <1>2, <1>4
<1> QED
  BY <1>3, <1>4, <1>5

\* The greatest of some numbers.
LEMMA Greatest ==
  ASSUME NEW n \in Nat, NEW s \in SUBSET (1..n), s # {}
  PROVE  Lru!Max(s) \in s /\ \A k \in s : k <= Lru!Max(s)
<1> DEFINE T == {n - k : k \in s}
<1>0. \A k \in s : n - k \in Nat
  OBVIOUS
<1>1. T \in SUBSET Nat /\ T # {}
  BY <1>0
<1>2. PICK m \in T : \A k \in T : m <= k
  <2> HIDE DEF T
  <2> QED
    BY <1>1, LeastNumber
<1>3. PICK i \in s : m = n - i
  BY <1>2
<1>4. \A k \in s : i >= k
  BY <1>2, <1>3
<1>5. \E x \in s : \A y \in s : x >= y
  BY <1>4
<1>6. Lru!Max(s) \in s /\ \A y \in s : Lru!Max(s) >= y
  BY <1>5 DEF Lru!Max
<1> QED
  BY <1>6

-----------------------------------------------------------------------------
(* One node after the other is removed.                                    *)

\* What FoldLeft computes for the numbers of the nodes in order: rest[s] is the list without those.
Folds(rest, l, order, n) ==
  rest = [s \in SUBSET (1..n) |-> IF s = {} THEN l ELSE Lru!RemoveNode(rest[s \ {Lru!Max(s)}], order[Lru!Max(s)])]

LEMMA FoldExists ==
  ASSUME NEW l, NEW order, NEW n \in Nat
  PROVE  \E rest : Folds(rest, l, order, n)
<1> DEFINE S == {k \in 0..n : \E rest : Folds(rest, l, order, k)}
<1>1. 0 \in S
  <2> DEFINE rest == [s \in SUBSET (1..0) |-> l]
  <2>1. \A s \in SUBSET (1..0) : s = {}
    OBVIOUS
  <2>2. Folds(rest, l, order, 0)
    BY <2>1 DEF Folds
  <2> QED
    BY <2>2
<1>2. ASSUME NEW k \in 0..n, k \in S, k < n PROVE k + 1 \in S
  <2> PICK rest : Folds(rest, l, order, k)
    BY <1>2
  <2> DEFINE more == [s \in SUBSET (1..(k + 1)) |->
                        IF k + 1 \in s THEN Lru!RemoveNode(rest[s \ {k + 1}], order[k + 1]) ELSE rest[s]]
  <2>0. k \in Nat /\ k + 1 \in 0..n
    BY <1>2
  <2>1. ASSUME NEW s \in SUBSET (1..(k + 1))
        PROVE  more[s] = IF s = {} THEN l ELSE Lru!RemoveNode(more[s \ {Lru!Max(s)}], order[Lru!Max(s)])
    <3>1. CASE k + 1 \in s
      <4>1. Lru!Max(s) = k + 1
        <5>1. Lru!Max(s) \in s /\ k + 1 <= Lru!Max(s)
          BY <2>0, <3>1, Greatest
        <5>2. PICK m \in 1..(k + 1) : m = Lru!Max(s)
          BY <5>1
        <5> QED
          BY <2>0, <5>1, <5>2
      <4>2. s \ {k + 1} \in SUBSET (1..(k + 1)) /\ k + 1 \notin s \ {k + 1}
        OBVIOUS
      <4>3. more[s \ {k + 1}] = rest[s \ {k + 1}]
        BY <4>2
      <4> QED
        BY <3>1, <4>1, <4>3
    <3>2. CASE k + 1 \notin s
      <4>1. s \in SUBSET (1..k)
        BY <2>0, <3>2
      <4>2. more[s] = rest[s]
        BY <3>2
      <4>3. more[s \ {Lru!Max(s)}] = rest[s \ {Lru!Max(s)}]
        BY <3>2
      <4>4. rest[s] = IF s = {} THEN l ELSE Lru!RemoveNode(rest[s \ {Lru!Max(s)}], order[Lru!Max(s)])
        BY <4>1 DEF Folds
      <4> QED
        BY <4>2, <4>3, <4>4
    <3> QED
      BY <3>1, <3>2
  <2>2. Folds(more, l, order, k + 1)
    <3> DEFINE other == [s \in SUBSET (1..(k + 1)) |->
                           IF s = {} THEN l ELSE Lru!RemoveNode(more[s \ {Lru!Max(s)}], order[Lru!Max(s)])]
    <3>1. \A s \in SUBSET (1..(k + 1)) : more[s] = other[s]
      BY <2>1
    <3>2. more = other
      BY <3>1
    <3> QED
      BY <3>2 DEF Folds
  <2> QED
    BY <2>0, <2>2
<1>3. n \in S
  <2> HIDE DEF S
  <2> QED
    BY <1>1, <1>2, UpTo
<1> QED
  BY <1>3

LEMMA FoldOfNodes ==
  ASSUME NEW l, NEW order, NEW n \in Nat, DOMAIN order = 1..n
  PROVE  \E rest : Folds(rest, l, order, n) /\ Lru!FoldLeft(Lru!RemoveNode, l, order) = rest[1..n]
<1> DEFINE rest == CHOOSE r : Folds(r, l, order, n)
<1>1. Folds(rest, l, order, n)
  BY FoldExists
<1>2. Lru!FoldLeft(Lru!RemoveNode, l, order) = rest[1..n]
  BY DEF Folds, Lru!FoldLeft, Lru!MapThenFoldSet
<1> QED
  BY <1>1, <1>2

-----------------------------------------------------------------------------
(* The lists.                                                              *)

Lists == [data : [CacheKeys -> Lru!Pointers], head : Lru!Pointers, tail : Lru!Pointers,
          prev : [Lru!Nodes -> Lru!Pointers], next : [Lru!Nodes -> Lru!Pointers]]

\* Nothing but the entries of the map matters to the answers: those of m are of l.
Keeps(l, m) == m \in Lists /\ \A k \in CacheKeys : m.data[k] \in {l.data[k], Lru!Nil}

LEMMA Removed ==
  ASSUME NEW l \in Lists, NEW n \in Lru!Nodes
  PROVE  Keeps(l, Lru!RemoveNode(l, n)) /\ (key[n] \in CacheKeys => Lru!RemoveNode(l, n).data[key[n]] = Lru!Nil)
<1> DEFINE before == l.prev[n]
           after == l.next[n]
<1>1. before \in Lru!Pointers /\ after \in Lru!Pointers
  BY DEF Lists
<1>2. /\ [l.data EXCEPT ![key[n]] = Lru!Nil] \in [CacheKeys -> Lru!Pointers]
      /\ (IF before = Lru!Nil THEN after ELSE l.head) \in Lru!Pointers
      /\ (IF after = Lru!Nil THEN before ELSE l.tail) \in Lru!Pointers
      /\ (IF before = Lru!Nil THEN l.next ELSE [l.next EXCEPT ![before] = after]) \in [Lru!Nodes -> Lru!Pointers]
      /\ (IF after = Lru!Nil THEN l.prev ELSE [l.prev EXCEPT ![after] = before]) \in [Lru!Nodes -> Lru!Pointers]
  BY <1>1 DEF Lists, Lru!Pointers
<1>3. Lru!RemoveNode(l, n) \in Lists /\ Lru!RemoveNode(l, n).data = [l.data EXCEPT ![key[n]] = Lru!Nil]
  BY <1>2 DEF Lru!RemoveNode, Lists
<1> QED
  BY <1>3 DEF Keeps, Lists

LEMMA Fronted ==
  ASSUME NEW l \in Lists, NEW n \in Lru!Nodes
  PROVE  Lru!AddToFront(l, n) \in Lists /\ Lru!AddToFront(l, n).data = l.data
<1>1. CASE l.head = Lru!Nil
  BY <1>1 DEF Lru!AddToFront, Lists, Lru!Pointers
<1>2. CASE l.head # Lru!Nil
  <2>1. [l.next EXCEPT ![n] = l.head] \in [Lru!Nodes -> Lru!Pointers] /\ [l.prev EXCEPT ![l.head] = n] \in [Lru!Nodes -> Lru!Pointers]
    BY <1>2 DEF Lists, Lru!Pointers
  <2>2. Lru!AddToFront(l, n) = [data |-> l.data, head |-> n, tail |-> l.tail,
                            prev |-> [l.prev EXCEPT ![l.head] = n], next |-> [l.next EXCEPT ![n] = l.head]]
    BY <1>2 DEF Lru!AddToFront, Lists
  <2> QED
    BY <2>1, <2>2 DEF Lists, Lru!Pointers
<1> QED
  BY <1>1, <1>2

LEMMA Moved ==
  ASSUME NEW l \in Lists, NEW n \in Lru!Nodes
  PROVE  Keeps(l, Lru!MoveToFront(l, n))
<1>1. CASE n = l.head
  BY <1>1 DEF Lru!MoveToFront, Keeps
<1>2. CASE n # l.head
  <2>1. PICK m \in Lists : m = Lru!RemoveNode(l, n) /\ Keeps(l, m)
    BY Removed DEF Keeps
  <2> QED
    BY <1>2, <2>1, Fronted DEF Lru!MoveToFront, Keeps
<1> QED
  BY <1>1, <1>2

LEMMA Evicted ==
  ASSUME NEW l \in Lists
  PROVE  Keeps(l, Lru!EvictLRU(l))
<1>1. CASE l.tail = Lru!Nil
  BY <1>1 DEF Lru!EvictLRU, Keeps
<1>2. CASE l.tail # Lru!Nil
  <2>1. l.tail \in Lru!Nodes
    BY <1>2 DEF Lists, Lru!Pointers
  <2> QED
    BY <1>2, <2>1, Removed DEF Lru!EvictLRU
<1> QED
  BY <1>1, <1>2

\* However they are ordered, the nodes of some keys leave the map.
LEMMA AllRemoved ==
  ASSUME NEW l \in Lists, NEW n \in Nat, NEW order \in [1..n -> Lru!Nodes]
  PROVE  /\ Keeps(l, Lru!FoldLeft(Lru!RemoveNode, l, order))
         /\ \A i \in 1..n : key[order[i]] \in CacheKeys => Lru!FoldLeft(Lru!RemoveNode, l, order).data[key[order[i]]] = Lru!Nil
<1> PICK rest : Folds(rest, l, order, n) /\ Lru!FoldLeft(Lru!RemoveNode, l, order) = rest[1..n]
  BY FoldOfNodes
<1> DEFINE Gone(k) == \A i \in 1..k : key[order[i]] \in CacheKeys => rest[1..k].data[key[order[i]]] = Lru!Nil
           S == {k \in 0..n : Keeps(l, rest[1..k]) /\ Gone(k)}
<1>1. 0 \in S
  <2>1. 1..0 = {} /\ {} \in SUBSET (1..n)
    OBVIOUS
  <2>2. rest[{}] = l
    BY <2>1 DEF Folds
  <2> QED
    BY <2>1, <2>2 DEF Keeps
<1>2. ASSUME NEW k \in 0..n, k \in S, k < n PROVE k + 1 \in S
  <2>a. k \in Nat /\ k + 1 \in 1..n /\ k + 1 \in 1..(k + 1)
    BY <1>2
  <2>b. 1..(k + 1) \in SUBSET (1..n)
    BY <2>a
  <2>0. k \in Nat /\ k + 1 \in 1..n /\ 1..(k + 1) \in SUBSET (1..n) /\ 1..(k + 1) # {} /\ k + 1 \in 1..(k + 1)
    BY <2>a, <2>b
  <2>1. Lru!Max(1..(k + 1)) = k + 1
    <3>1. Lru!Max(1..(k + 1)) \in 1..(k + 1) /\ k + 1 <= Lru!Max(1..(k + 1))
      BY <2>0, Greatest
    <3>2. PICK m \in 1..(k + 1) : m = Lru!Max(1..(k + 1))
      BY <3>1
    <3> QED
      BY <2>0, <3>1, <3>2
  <2>2. (1..(k + 1)) \ {k + 1} = 1..k
    BY <2>0
  <2>3. rest[1..(k + 1)] = Lru!RemoveNode(rest[1..k], order[k + 1])
    BY <2>0, <2>1, <2>2 DEF Folds
  <2>4. PICK m \in Lists : m = rest[1..k] /\ Keeps(l, m)
    BY <1>2 DEF Keeps
  <2>5. Keeps(m, rest[1..(k + 1)])
    BY <2>0, <2>3, <2>4, Removed
  <2>6. key[order[k + 1]] \in CacheKeys => rest[1..(k + 1)].data[key[order[k + 1]]] = Lru!Nil
    BY <2>0, <2>3, <2>4, Removed
  <2>7. Gone(k + 1)
    <3> SUFFICES ASSUME NEW i \in 1..(k + 1), key[order[i]] \in CacheKeys
                 PROVE  rest[1..(k + 1)].data[key[order[i]]] = Lru!Nil
      OBVIOUS
    <3>1. CASE i = k + 1
      BY <2>6, <3>1
    <3>2. CASE i # k + 1
      <4>1. i \in 1..k
        BY <2>0, <3>2
      <4>2. m.data[key[order[i]]] = Lru!Nil
        BY <1>2, <2>4, <4>1
      <4> QED
        BY <2>5, <4>2 DEF Keeps
    <3> QED
      BY <3>1, <3>2
  <2>8. Keeps(l, rest[1..(k + 1)])
    BY <2>4, <2>5 DEF Keeps
  <2> QED
    BY <2>0, <2>7, <2>8
<1>3. \A k \in 0..n : k \in S
  <2>1. \A k \in 0..n : k \in S /\ k < n => k + 1 \in S
    BY <1>2
  <2> HIDE DEF S
  <2> QED
    BY <1>1, <2>1, UpTo
<1> QED
  BY <1>3

-----------------------------------------------------------------------------
(* The map and its nodes.                                                  *)

CacheTypes ==
  /\ list \in Lists
  /\ key \in [Lru!Nodes -> CacheKeys] /\ value \in [Lru!Nodes -> Vals]
  /\ expiry \in [Lru!Nodes -> {"never", "later", "past"}]
  /\ created \in 0..MaxNodes

\* An entry of the map is a node that was created for its key.
Owns(k) == list.data[k] # Lru!Nil => list.data[k] \in 1..created /\ key[list.data[k]] = k

CacheInv == CacheTypes /\ \A k \in CacheKeys : Owns(k)

LEMMA CacheStart ==
  ASSUME Lru!Init
  PROVE  CacheInv
<1>1. MaxNodes \in Nat /\ (CHOOSE k \in CacheKeys : TRUE) \in CacheKeys /\ (CHOOSE v \in Vals : TRUE) \in Vals
  BY CacheAssumption
<1>2. list \in Lists
  BY DEF Lru!Init, Lru!EmptyList, Lists, Lru!Pointers
<1> QED
  BY <1>1, <1>2 DEF Lru!Init, Lru!EmptyList, CacheInv, CacheTypes, Owns

\* The instance has a Cardinality of its own.
LEMMA SameCardinality == \A S : Lru!Cardinality(S) = Cardinality(S)
BY DEF Lru!Cardinality, Cardinality, Lru!IsFiniteSet, IsFiniteSet

\* The nodes of invalidated keys are found, each once, and their keys are gone.
LEMMA Invalidated ==
  ASSUME CacheInv, NEW K \in SUBSET CacheKeys, Lru!Invalidate(K)
  PROVE  Keeps(list, list') /\ \A k \in K : list'.data[k] = Lru!Nil
<1> DEFINE found == {list.data[k] : k \in {j \in K : list.data[j] # Lru!Nil}}
<1>0. MaxNodes \in Nat /\ list \in Lists /\ Lru!Nodes = 1..MaxNodes
  BY CacheAssumption DEF CacheInv, CacheTypes, Lru!Nodes
<1>1. found \in SUBSET Lru!Nodes
  BY <1>0 DEF Lists, Lru!Pointers
<1>2. IsFiniteSet(found) /\ Cardinality(found) \in Nat
  <2>1. IsFiniteSet(Lru!Nodes)
    BY <1>0, FS_Interval
  <2> QED
    BY <1>1, <2>1, FS_Subset, FS_CardinalityType
<1>3. PICK order \in Lru!SetToSeqs(found) : list' = Lru!FoldLeft(Lru!RemoveNode, list, order)
  BY DEF Lru!Invalidate
<1> DEFINE n == Cardinality(found)
<1>4. order \in [1..n -> found] /\ \A i, j \in 1..n : i # j => order[i] # order[j]
  BY <1>3, SameCardinality DEF Lru!SetToSeqs
<1>5. Keeps(list, list') /\ \A i \in 1..n : key[order[i]] \in CacheKeys => list'.data[key[order[i]]] = Lru!Nil
  <2>1. order \in [1..n -> Lru!Nodes]
    BY <1>1, <1>4
  <2> HIDE DEF n, found
  <2>2. n \in Nat
    BY <1>2 DEF n
  <2> QED
    BY <1>0, <1>3, <2>1, <2>2, AllRemoved
<1>6. \A d \in found : \E i \in 1..n : order[i] = d
  <2> HIDE DEF found
  <2> DEFINE reached == {order[i] : i \in 1..n}
  <2>0. reached \in SUBSET found
    BY <1>4
  <2>1. order \in Bijection(1..n, reached)
    <3>1. order \in [1..n -> reached]
      BY <1>4
    <3>2. \A d \in reached : \E i \in 1..n : order[i] = d
      OBVIOUS
    <3> HIDE DEF reached, n
    <3> QED
      BY <1>4, <3>1, <3>2 DEF Bijection, Injection, Surjection, IsInjective
  <2>2. IsFiniteSet(1..n) /\ Cardinality(1..n) = n
    BY <1>2, FS_Interval
  <2>3. Cardinality(reached) = n
    BY <2>1, <2>2, FS_Bijection DEF ExistsBijection
  <2>4. reached = found
    BY <1>2, <2>0, <2>3, FS_Subset
  <2> QED
    BY <2>4
<1>7. ASSUME NEW k \in K PROVE list'.data[k] = Lru!Nil
  <2>1. CASE list.data[k] = Lru!Nil
    BY <1>5, <2>1 DEF Keeps
  <2>2. CASE list.data[k] # Lru!Nil
    <3>1. list.data[k] \in found /\ key[list.data[k]] = k
      BY <2>2 DEF CacheInv, Owns
    <3>2. PICK i \in 1..n : order[i] = list.data[k]
      BY <1>6, <3>1
    <3> QED
      BY <1>5, <3>1, <3>2
  <2> QED
    BY <2>1, <2>2
<1> QED
  BY <1>5, <1>7

\* A new entry is linked to a node of its own; another entry may be evicted for it.
LEMMA NewEntry ==
  ASSUME CacheInv, NEW k \in CacheKeys, NEW v \in Vals, NEW ttl \in Ttls, Lru!SetNew(k, v, ttl)
  PROVE  /\ created + 1 \in Lru!Nodes /\ list' \in Lists /\ list'.data[k] = created + 1
         /\ \A j \in CacheKeys \ {k} : list'.data[j] \in {list.data[j], Lru!Nil}
<1> DEFINE n == created + 1
           room == IF Lru!Size(list) >= MaxSize THEN Lru!EvictLRU(list) ELSE list
           linked == Lru!AddToFront(room, n)
<1>0. MaxNodes \in Nat /\ created \in Nat /\ list \in Lists /\ Lru!Nodes = 1..MaxNodes
  BY CacheAssumption DEF CacheInv, CacheTypes, Lru!Nodes
<1>1. n \in Lru!Nodes /\ n \in Lru!Pointers
  BY <1>0 DEF Lru!SetNew, Lru!Pointers
<1>2. Keeps(list, room)
  BY <1>0, Evicted DEF Keeps
<1>3. linked \in Lists /\ linked.data = room.data
  <2> HIDE DEF room
  <2> QED
    BY <1>1, <1>2, Fronted DEF Keeps
<1>4. list' = [linked EXCEPT !.data[k] = n]
  BY DEF Lru!SetNew
<1>5. list' \in Lists /\ \A j \in CacheKeys : list'.data[j] = IF j = k THEN n ELSE room.data[j]
  <2> HIDE DEF linked, room, n
  <2> QED
    BY <1>1, <1>3, <1>4 DEF Lists
<1> QED
  BY <1>1, <1>2, <1>5 DEF Keeps

\* Every step keeps the entries of the map with their keys.
LEMMA CacheStep ==
  ASSUME CacheInv, [Lru!Next]_lruVars
  PROVE  CacheInv'
<1>0. /\ MaxNodes \in Nat /\ created \in Nat /\ list \in Lists /\ Lru!Nodes = 1..MaxNodes
      /\ \A k \in CacheKeys : list.data[k] \in Lru!Pointers
  BY CacheAssumption DEF CacheInv, CacheTypes, Lru!Nodes, Lists
<1>1. ASSUME Keeps(list, list'), UNCHANGED <<key, created>>, value' \in [Lru!Nodes -> Vals],
             expiry' \in [Lru!Nodes -> {"never", "later", "past"}]
      PROVE  CacheInv'
  BY <1>1 DEF CacheInv, CacheTypes, Owns, Keeps
<1>2. ASSUME NEW k \in CacheKeys, Lru!Get(k) PROVE CacheInv'
  <2> DEFINE n == list.data[k]
  <2>1. Keeps(list, list')
    <3>1. CASE n = Lru!Nil
      BY <1>0, <1>2, <3>1 DEF Lru!Get, Keeps
    <3>2. CASE n # Lru!Nil
      <4>1. n \in Lru!Nodes
        BY <1>0, <3>2 DEF Lru!Pointers
      <4> QED
        BY <1>0, <1>2, <3>2, <4>1, Removed, Moved DEF Lru!Get
    <3> QED
      BY <3>1, <3>2
  <2> QED
    BY <1>1, <1>2, <2>1 DEF Lru!Get, CacheInv, CacheTypes
<1>3. ASSUME NEW k \in CacheKeys, NEW v \in Vals, NEW ttl \in Ttls, Lru!SetExisting(k, v, ttl) PROVE CacheInv'
  <2>1. list.data[k] \in Lru!Nodes
    BY <1>0, <1>3 DEF Lru!SetExisting, Lru!Pointers
  <2>2. Keeps(list, list')
    BY <1>0, <1>3, <2>1, Moved DEF Lru!SetExisting
  <2>3. value' \in [Lru!Nodes -> Vals] /\ expiry' \in [Lru!Nodes -> {"never", "later", "past"}]
    BY <1>3, <2>1, CacheAssumption DEF Lru!SetExisting, CacheInv, CacheTypes
  <2> QED
    BY <1>1, <1>3, <2>2, <2>3 DEF Lru!SetExisting
<1>4. ASSUME NEW k \in CacheKeys, NEW v \in Vals, NEW ttl \in Ttls, Lru!SetNew(k, v, ttl) PROVE CacheInv'
  <2> DEFINE n == created + 1
  <2>0. n \in Lru!Nodes /\ n # Lru!Nil /\ created' = n
    BY <1>0, <1>4, NewEntry DEF Lru!SetNew, Lru!Nil
  <2>1. /\ list' \in Lists /\ list'.data[k] = n
        /\ \A j \in CacheKeys \ {k} : list'.data[j] \in {list.data[j], Lru!Nil}
    BY <1>4, NewEntry
  <2>2. /\ key' = [key EXCEPT ![n] = k] /\ value' = [value EXCEPT ![n] = v]
        /\ expiry' = [expiry EXCEPT ![n] = ttl]
    BY <1>4 DEF Lru!SetNew
  <2>3. CacheTypes'
    BY <1>0, <2>0, <2>1, <2>2, CacheAssumption DEF CacheInv, CacheTypes
  <2>4. ASSUME NEW j \in CacheKeys PROVE Owns(j)'
    <3>1. CASE j = k
      BY <1>0, <2>0, <2>1, <2>2, <3>1 DEF Owns, CacheInv, CacheTypes
    <3>2. CASE j # k /\ list'.data[j] # Lru!Nil
      <4>1. list'.data[j] = list.data[j] /\ list.data[j] \in 1..created /\ key[list.data[j]] = j
        BY <2>1, <3>2 DEF CacheInv, Owns
      <4>2. list.data[j] \in 1..n /\ list.data[j] # n /\ list.data[j] \in Lru!Nodes
        BY <1>0, <2>0, <4>1
      <4> QED
        BY <2>0, <2>2, <4>1, <4>2 DEF Owns, CacheInv, CacheTypes
    <3> QED
      BY <3>1, <3>2 DEF Owns
  <2> QED
    BY <2>3, <2>4 DEF CacheInv
<1>5. ASSUME NEW K \in SUBSET CacheKeys, Lru!Invalidate(K) PROVE CacheInv'
  BY <1>1, <1>5, Invalidated DEF Lru!Invalidate, CacheInv, CacheTypes
<1>6. ASSUME Lru!Clear PROVE CacheInv'
  <2>1. Keeps(list, list')
    BY <1>0, <1>6 DEF Lru!Clear, Keeps, Lists, Lru!Pointers
  <2> QED
    BY <1>1, <1>6, <2>1 DEF Lru!Clear, CacheInv, CacheTypes
<1>7. ASSUME NEW n \in Lru!Nodes, Lru!Expire(n) PROVE CacheInv'
  <2>1. Keeps(list, list') /\ expiry' \in [Lru!Nodes -> {"never", "later", "past"}]
    BY <1>0, <1>7 DEF Lru!Expire, Keeps, CacheInv, CacheTypes
  <2> QED
    BY <1>1, <1>7, <2>1 DEF Lru!Expire, CacheInv, CacheTypes
<1>8. CASE UNCHANGED lruVars
  BY <1>8 DEF lruVars, CacheInv, CacheTypes, Owns
<1> QED
  BY <1>2, <1>3, <1>4, <1>5, <1>6, <1>7, <1>8 DEF Lru!Next, Lru!Set

-----------------------------------------------------------------------------
(* What the users of the cache see.                                        *)

\* A key whose entry a step only drops, or lets expire, is at most forgotten.
LEMMA Forgotten ==
  ASSUME NEW j \in CacheKeys, list'.data[j] \in {list.data[j], Lru!Nil},
         list'.data[j] # Lru!Nil => /\ value'[list.data[j]] = value[list.data[j]]
                                /\ expiry'[list.data[j]] \in {expiry[list.data[j]], "past"}
  PROVE  Lru!Visible'[j] \in {Lru!Visible[j], None}
<1>1. CASE list'.data[j] = Lru!Nil
  BY <1>1 DEF Lru!Visible, Lru!Live
<1>2. CASE list'.data[j] # Lru!Nil
  <2>1. list'.data[j] = list.data[j]
    BY <1>2
  <2> QED
    BY <1>2, <2>1 DEF Lru!Visible, Lru!Live
<1> QED
  BY <1>1, <1>2

LEMMA CacheRefines ==
  ASSUME CacheInv, CacheInv', [Lru!Next]_lruVars
  PROVE  [Lru!Lossy!Next]_<<Lru!Visible, result>>
<1>0. /\ list \in Lists /\ list' \in Lists /\ MaxNodes \in Nat /\ created \in Nat
      /\ \A k \in CacheKeys : list.data[k] \in Lru!Pointers
  BY CacheAssumption DEF CacheInv, CacheTypes, Lists
<1>1. Lru!Visible' \in [CacheKeys -> Vals \cup {None}]
  <2>1. ASSUME NEW k \in CacheKeys PROVE (IF Lru!Live(k) THEN value[list.data[k]] ELSE None)' \in Vals \cup {None}
    BY <1>0 DEF Lru!Live, Lists, Lru!Pointers, CacheInv, CacheTypes
  <2> QED
    BY <2>1 DEF Lru!Visible
<1>2. ASSUME Keeps(list, list'), UNCHANGED <<value, expiry>>
      PROVE  \A j \in CacheKeys : Lru!Visible'[j] \in {Lru!Visible[j], None}
  BY <1>2, Forgotten DEF Keeps
<1>3. ASSUME NEW k \in CacheKeys, Lru!Get(k) PROVE Lru!Lossy!Next
  <2> DEFINE n == list.data[k]
  <2>1. Keeps(list, list') /\ result' \in {Lru!Visible[k], None}
    <3>1. CASE n = Lru!Nil
      BY <1>0, <1>3, <3>1 DEF Lru!Get, Keeps, Lru!Visible, Lru!Live
    <3>2. CASE n # Lru!Nil
      <4>1. n \in Lru!Nodes
        BY <1>0, <3>2 DEF Lru!Pointers
      <4>2. Keeps(list, list')
        BY <1>0, <1>3, <3>2, <4>1, Removed, Moved DEF Lru!Get
      <4>3. result' \in {Lru!Visible[k], None}
        BY <1>3, <3>2 DEF Lru!Get, Lru!Visible, Lru!Live
      <4> QED
        BY <4>2, <4>3
    <3> QED
      BY <3>1, <3>2
  <2>2. \A j \in CacheKeys : Lru!Visible'[j] \in {Lru!Visible[j], None}
    BY <1>2, <1>3, <2>1 DEF Lru!Get
  <2>3. Lru!Lossy!Lookup(k)
    BY <1>1, <2>1, <2>2 DEF Lru!Lossy!Lookup, Lru!Lossy!Forgets
  <2> QED
    BY <2>3 DEF Lru!Lossy!Next
<1>4. ASSUME NEW k \in CacheKeys, NEW v \in Vals, result' = None,
             list'.data[k] # Lru!Nil /\ value'[list'.data[k]] = v,
             \A j \in CacheKeys \ {k} : Lru!Visible'[j] \in {Lru!Visible[j], None}
      PROVE  Lru!Lossy!Next
  <2>1. Lru!Visible'[k] \in {v, None}
    BY <1>4 DEF Lru!Visible, Lru!Live
  <2>2. Lru!Lossy!Store(k, v)
    BY <1>1, <1>4, <2>1 DEF Lru!Lossy!Store, Lru!Lossy!Forgets
  <2> QED
    BY <2>2 DEF Lru!Lossy!Next
<1>5. ASSUME NEW K \in SUBSET CacheKeys, result' = None, \A k \in K : list'.data[k] = Lru!Nil,
             \A j \in CacheKeys : Lru!Visible'[j] \in {Lru!Visible[j], None}
      PROVE  Lru!Lossy!Next
  <2>1. \A k \in K : Lru!Visible'[k] = None
    BY <1>5 DEF Lru!Visible, Lru!Live
  <2>2. Lru!Lossy!Remove(K)
    BY <1>1, <1>5, <2>1 DEF Lru!Lossy!Remove, Lru!Lossy!Forgets
  <2> QED
    BY <2>2 DEF Lru!Lossy!Next
<1>6. ASSUME NEW k \in CacheKeys, NEW v \in Vals, NEW ttl \in Ttls, Lru!SetExisting(k, v, ttl), result' = None
      PROVE  Lru!Lossy!Next
  <2> DEFINE n == list.data[k]
  <2>1. n \in Lru!Nodes /\ n # Lru!Nil
    BY <1>0, <1>6 DEF Lru!SetExisting, Lru!Pointers
  <2>2. Keeps(list, list')
    BY <1>0, <1>6, <2>1, Moved DEF Lru!SetExisting
  <2>3. value' = [value EXCEPT ![n] = v] /\ expiry' = [expiry EXCEPT ![n] = ttl]
    BY <1>6 DEF Lru!SetExisting
  <2>4. ASSUME NEW j \in CacheKeys \ {k} PROVE Lru!Visible'[j] \in {Lru!Visible[j], None}
    <3>1. list.data[j] # Lru!Nil => list.data[j] # n /\ list.data[j] \in Lru!Nodes
      BY <1>0, <2>1 DEF CacheInv, Owns, Lru!Pointers
    <3>2. list'.data[j] \in {list.data[j], Lru!Nil}
      BY <2>2 DEF Keeps
    <3>3. list'.data[j] # Lru!Nil => /\ value'[list.data[j]] = value[list.data[j]]
                                 /\ expiry'[list.data[j]] \in {expiry[list.data[j]], "past"}
      BY <2>3, <3>1, <3>2 DEF CacheInv, CacheTypes
    <3> QED
      BY <3>2, <3>3, Forgotten
  <2>5. CASE list'.data[k] # Lru!Nil
    <3>1. list'.data[k] = n /\ value'[n] = v
      BY <2>1, <2>2, <2>3, <2>5 DEF Keeps, CacheInv, CacheTypes
    <3>2. value'[list'.data[k]] = v
      BY <3>1
    <3> QED
      BY <1>4, <1>6, <2>4, <2>5, <3>2
  <2>6. CASE list'.data[k] = Lru!Nil
    <3>1. Lru!Visible'[k] = None
      BY <2>6 DEF Lru!Visible, Lru!Live
    <3>2. Lru!Lossy!Store(k, v)
      BY <1>1, <1>6, <2>4, <3>1 DEF Lru!Lossy!Store, Lru!Lossy!Forgets
    <3> QED
      BY <3>2 DEF Lru!Lossy!Next
  <2> QED
    BY <2>5, <2>6
<1>7. ASSUME NEW k \in CacheKeys, NEW v \in Vals, NEW ttl \in Ttls, Lru!SetNew(k, v, ttl), result' = None
      PROVE  Lru!Lossy!Next
  <2> DEFINE n == created + 1
  <2>0. n \in Lru!Nodes /\ n # Lru!Nil
    BY <1>0, <1>7, NewEntry DEF Lru!Nil
  <2>1. /\ key' = [key EXCEPT ![n] = k] /\ value' = [value EXCEPT ![n] = v]
        /\ expiry' = [expiry EXCEPT ![n] = ttl]
    BY <1>7 DEF Lru!SetNew
  <2>2. list'.data[k] = n /\ \A j \in CacheKeys \ {k} : list'.data[j] \in {list.data[j], Lru!Nil}
    BY <1>7, NewEntry
  <2>3. ASSUME NEW j \in CacheKeys \ {k} PROVE Lru!Visible'[j] \in {Lru!Visible[j], None}
    <3>1. list.data[j] # Lru!Nil => list.data[j] # n /\ list.data[j] \in Lru!Nodes
      BY <1>0, <2>0 DEF CacheInv, Owns, Lru!Pointers
    <3>2. list'.data[j] # Lru!Nil => /\ value'[list.data[j]] = value[list.data[j]]
                                 /\ expiry'[list.data[j]] \in {expiry[list.data[j]], "past"}
      BY <2>1, <2>2, <3>1 DEF CacheInv, CacheTypes
    <3> QED
      BY <2>2, <3>2, Forgotten
  <2>4. value'[list'.data[k]] = v /\ list'.data[k] # Lru!Nil
    BY <2>0, <2>1, <2>2 DEF CacheInv, CacheTypes
  <2> QED
    BY <1>4, <1>7, <2>3, <2>4
<1>8. ASSUME NEW K \in SUBSET CacheKeys, Lru!Invalidate(K) PROVE Lru!Lossy!Next
  BY <1>2, <1>5, <1>8, Invalidated DEF Lru!Invalidate
<1>9. ASSUME Lru!Clear PROVE Lru!Lossy!Next
  <2>1. Keeps(list, list') /\ \A k \in CacheKeys : list'.data[k] = Lru!Nil
    BY <1>0, <1>9 DEF Lru!Clear, Keeps, Lists, Lru!Pointers
  <2>2. \A j \in CacheKeys : Lru!Visible'[j] \in {Lru!Visible[j], None}
    BY <1>2, <1>9, <2>1 DEF Lru!Clear
  <2>3. result' = None /\ CacheKeys \in SUBSET CacheKeys
    BY <1>9 DEF Lru!Clear
  <2> QED
    BY <1>5, <2>1, <2>2, <2>3
<1>10. ASSUME NEW n \in Lru!Nodes, Lru!Expire(n) PROVE Lru!Lossy!Next
  <2>1. \A j \in CacheKeys : Lru!Visible'[j] \in {Lru!Visible[j], None}
    <3> SUFFICES ASSUME NEW j \in CacheKeys PROVE Lru!Visible'[j] \in {Lru!Visible[j], None}
      OBVIOUS
    <3>1. list' = list /\ value' = value /\ expiry' = [expiry EXCEPT ![n] = "past"]
      BY <1>10 DEF Lru!Expire
    <3>2. list.data[j] # Lru!Nil => expiry'[list.data[j]] \in {expiry[list.data[j]], "past"}
      BY <1>0, <3>1 DEF CacheInv, CacheTypes, Lru!Pointers
    <3> QED
      BY <3>1, <3>2, Forgotten
  <2>2. result' = None /\ {} \in SUBSET CacheKeys
    BY <1>10 DEF Lru!Expire
  <2> QED
    BY <1>5, <2>1, <2>2
<1>11. CASE UNCHANGED lruVars
  <2>1. UNCHANGED <<list, value, expiry, result>>
    BY <1>11 DEF lruVars
  <2> QED
    BY <2>1 DEF Lru!Visible, Lru!Live
<1> QED
  BY <1>3, <1>6, <1>7, <1>8, <1>9, <1>10, <1>11 DEF Lru!Next, Lru!Set

-----------------------------------------------------------------------------
(* The theorem of the cache.                                               *)

\* The cache of query/cache/cache.go, whatever it holds and however its list degenerates
\* (removeNode and addToFront leave pointers of unlinked nodes), answers a Get with the
\* value last Set under the key or with a miss, and never with what Invalidate,
\* InvalidatePattern, Clear or the expiry took away.
THEOREM CacheNeverStale == ReadsSpec => NeverStale
<1>1. ReadsInit => CacheInv /\ Lru!Lossy!Init
  <2>1. ReadsInit => CacheInv
    BY CacheStart DEF ReadsInit
  <2>2. ReadsInit => Lru!Lossy!Init
    BY DEF ReadsInit, Lru!Init, Lru!EmptyList, Lru!Lossy!Init, Lru!Visible, Lru!Live
  <2> QED
    BY <2>1, <2>2
<1>2. [ReadsNext]_readVars => [Lru!Next]_lruVars
  BY DEF ReadsNext, readVars
<1>3. CacheInv /\ [Lru!Next]_lruVars => CacheInv'
  BY CacheStep
<1>4. CacheInv /\ CacheInv' /\ [Lru!Next]_lruVars => [Lru!Lossy!Next]_<<Lru!Visible, result>>
  BY CacheRefines
<1> QED
  BY <1>1, <1>2, <1>3, <1>4, PTL DEF ReadsSpec, NeverStale, Lru!NeverStale, Lru!Lossy!Spec
=============================================================================
