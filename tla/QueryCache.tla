----------------------------- MODULE QueryCache -----------------------------
(***************************************************************************)
(* The read-through cache of query/executor/executor.go: several           *)
(* goroutines share one Executor.  A read looks its SQL and arguments up,  *)
(* runs them on a miss and stores what it found; a write first invalidates *)
(* the table it is about to change.  No lock is held over the steps, and   *)
(* the cache may be switched on or off between any two of them.            *)
(*                                                                         *)
(* The database is a counter of versions per table, the rows of a query    *)
(* are the versions it saw.  The cache itself is what LossyCache promises: *)
(* a map that may forget any entry at any time.                            *)
(***************************************************************************)
EXTENDS Naturals, SequencesExt

CONSTANTS
  Clients,     \* goroutines using the executor
  Tables,
  Queries,     \* [sql, args, reads]: tokens, argument texts, tables read
  MaxWrites,   \* bound: versions of a table
  Shown,       \* tokens of the SQL that a key begins with (50 bytes)
  None

ASSUME MaxWritesAssumption == MaxWrites \in Nat
ASSUME ShownAssumption == Shown \in Nat
ASSUME QueriesAssumption == Queries # {} /\ \A q \in Queries : q.reads \subseteq Tables
ASSUME TablesAssumption == Tables # {}

Versions == 0..MaxWrites

\* What a query found: the query itself and the versions of the tables it read.
Results == [query : Queries, at : UNION {[T -> Versions] : T \in SUBSET Tables}]

\* What is hashed: the SQL and the arguments printed one after the other, with
\* nothing between them.
Printed(q) == q.sql \o FlattenSeq(q.args)

\* The first 50 bytes of the SQL.
Beginning(q) == SubSeq(q.sql, 1, IF Len(q.sql) < Shown THEN Len(q.sql) ELSE Shown)

\* Mutant of Parts: leaves the hash out, so that long statements that begin alike
\* share a key.
Parts_prefixOnly(q) == << <<"query">>, Beginning(q) >>

\* GenerateCacheKey, split at its colons.  The hash is taken not to collide.
Parts(q) == << <<"query">>, Beginning(q), Printed(q) >>

Keys == {Parts(q) : q \in Queries}
Caches == [Keys -> Results \cup {None}]

ASSUME NoneAssumption == None \notin Results /\ None \notin Caches

\* The parts of a pattern match those of a key one by one, "*" alone matches any.
Matches(key, pattern) ==
  /\ Len(key) = Len(pattern)
  /\ \A i \in DOMAIN pattern : pattern[i] \in {<<"*">>, key[i]}

\* The two patterns of invalidateTableCache, "query:*T*" and "*:T:*".
PatternAround(t) == << <<"query">>, <<"*", t, "*">> >>
PatternBetween(t) == << <<"*">>, <<t>>, <<"*">> >>

VARIABLES
  db,      \* db[t]: version of table t, incremented by each committed write
  past,    \* history: every state the database has been in
  cache,   \* None when caching is off (queryCache nil and cacheEnabled false)
  pc,      \* pc[c]: where goroutine c stands
  asked,   \* asked[c]: the query it reads with
  kind,    \* kind[c]: "many" or "first", the kind of read
  target,  \* target[c]: the table it writes
  rows,    \* rows[c]: the rows it has read
  begun    \* history: the database when its read began

vars == <<db, past, cache, pc, asked, kind, target, rows, begun>>

PCs == {"idle", "check", "lookup", "query", "recheck", "store", "done",
        "failed", "mismatch", "panicked",
        "invalidate", "around", "between", "execute"}

TypeOK ==
  /\ db \in [Tables -> Versions]
  /\ past \subseteq [Tables -> Versions]
  /\ cache \in Caches \cup {None}
  /\ pc \in [Clients -> PCs]
  /\ asked \in [Clients -> Queries]
  /\ kind \in [Clients -> {"many", "first"}]
  /\ target \in [Clients -> Tables]
  /\ rows \in [Clients -> Results \cup {None}]
  /\ begun \in [Clients -> [Tables -> Versions]]
  /\ \A c \in Clients : pc[c] \in {"recheck", "store", "done"} => rows[c] # None

EmptyCache == [k \in Keys |-> None]

\* What the locals of a call hold before it gives them a value.
AnyQuery == CHOOSE q \in Queries : TRUE
AnyTable == CHOOSE t \in Tables : TRUE
NewTables == [t \in Tables |-> 0]

Init ==
  /\ db = NewTables
  /\ past = {db}
  /\ cache = None
  /\ pc = [c \in Clients |-> "idle"]
  /\ asked = [c \in Clients |-> AnyQuery]
  /\ kind = [c \in Clients |-> "many"]
  /\ target = [c \in Clients |-> AnyTable]
  /\ rows = [c \in Clients |-> None]
  /\ begun = [c \in Clients |-> db]

CacheOn == cache # None
Free(c) == pc[c] \in {"idle", "done", "failed", "mismatch"}
GoTo(c, p) == pc' = [pc EXCEPT ![c] = p]

-----------------------------------------------------------------------------
(* Switching the cache.                                                    *)

EnableCache ==
  /\ cache' = EmptyCache
  /\ UNCHANGED <<db, past, pc, asked, kind, target, rows, begun>>

DisableCache ==
  /\ cache' = None
  /\ UNCHANGED <<db, past, pc, asked, kind, target, rows, begun>>

\* The cache forgets an entry: expired, evicted or lost (LRUCache).
Forget(k) ==
  /\ CacheOn /\ cache[k] # None
  /\ cache' = [cache EXCEPT ![k] = None]
  /\ UNCHANGED <<db, past, pc, asked, kind, target, rows, begun>>

-----------------------------------------------------------------------------
(* Reads: FindManyWithRelations, FindManyWithJoins, FindFirstWithRelations *)

StartRead(c, q, k, state) ==
  /\ GoTo(c, "check")
  /\ asked' = [asked EXCEPT ![c] = q]
  /\ kind' = [kind EXCEPT ![c] = k]
  /\ rows' = [rows EXCEPT ![c] = None]
  /\ begun' = [begun EXCEPT ![c] = state]

\* The locals of the call before are gone.
Read(c, q, k) ==
  /\ Free(c)
  /\ StartRead(c, q, k, db)
  /\ target' = [target EXCEPT ![c] = AnyTable]
  /\ UNCHANGED <<db, past, cache>>

\* cacheEnabled && queryCache != nil, before the query, after it and in a write.
Check(c, at, on, off) ==
  /\ pc[c] = at
  /\ GoTo(c, IF CacheOn THEN on ELSE off)
  /\ UNCHANGED <<db, past, cache, asked, kind, target, rows, begun>>

CheckCache(c) == Check(c, "check", "lookup", "query")

\* The cache has been taken away since it was checked: a call on a nil interface.
Panic(c) ==
  /\ pc[c] \in {"lookup", "store", "around", "between"}
  /\ ~CacheOn
  /\ GoTo(c, "panicked")
  /\ UNCHANGED <<db, past, cache, asked, kind, target, rows, begun>>

Miss(c) ==
  /\ pc[c] = "lookup" /\ CacheOn
  /\ cache[Parts(asked[c])] = None
  /\ GoTo(c, "query")
  /\ UNCHANGED <<db, past, cache, asked, kind, target, rows, begun>>

\* Mutant of Hit: does not look at the second result of Cache.Get.
Hit_ignoresOk(c) ==
  /\ pc[c] = "lookup" /\ CacheOn
  /\ rows' = [rows EXCEPT ![c] = cache[Parts(asked[c])]]
  /\ GoTo(c, "done")
  /\ UNCHANGED <<db, past, cache, asked, kind, target, begun>>

\* Only slices are ever stored, and a slice cannot be copied into the struct of a
\* FindFirst.  The memory a hit shares with its entry is left out.
Hit(c) ==
  LET entry == cache[Parts(asked[c])]
  IN  /\ pc[c] = "lookup" /\ CacheOn
      /\ entry # None
      /\ IF kind[c] = "many"
           THEN rows' = [rows EXCEPT ![c] = entry] /\ GoTo(c, "done")
           ELSE GoTo(c, "mismatch") /\ UNCHANGED rows
      /\ UNCHANGED <<db, past, cache, asked, kind, target, begun>>

\* Mutant of Query: reads one table after the other.
Query_oneByOne(c) ==
  /\ pc[c] = "query"
  /\ \E early \in SUBSET asked[c].reads :
       rows' = [rows EXCEPT ![c] =
         [query |-> asked[c],
          at |-> [t \in asked[c].reads |-> IF t \in early THEN begun[c][t] ELSE db[t]]]]
  /\ GoTo(c, IF kind[c] = "many" THEN "recheck" ELSE "done")
  /\ UNCHANGED <<db, past, cache, asked, kind, target, begun>>

\* One statement, relations included by joins; FindFirst stores nothing.
Query(c) ==
  /\ pc[c] = "query"
  /\ rows' = [rows EXCEPT ![c] =
       [query |-> asked[c], at |-> [t \in asked[c].reads |-> db[t]]]]
  /\ GoTo(c, IF kind[c] = "many" THEN "recheck" ELSE "done")
  /\ UNCHANGED <<db, past, cache, asked, kind, target, begun>>

Fails(c) ==
  /\ pc[c] \in {"query", "execute"}
  /\ GoTo(c, "failed")
  /\ UNCHANGED <<db, past, cache, asked, kind, target, rows, begun>>

RecheckCache(c) == Check(c, "recheck", "store", "done")

Store(c) ==
  /\ pc[c] = "store" /\ CacheOn
  /\ cache' = [cache EXCEPT ![Parts(asked[c])] = rows[c]]
  /\ GoTo(c, "done")
  /\ UNCHANGED <<db, past, asked, kind, target, rows, begun>>

-----------------------------------------------------------------------------
(* Writes: Create, Upsert, Update and Delete.                              *)

Write(c, t) ==
  /\ Free(c)
  /\ GoTo(c, "invalidate")
  /\ target' = [target EXCEPT ![c] = t]
  /\ rows' = [rows EXCEPT ![c] = None]
  /\ asked' = [asked EXCEPT ![c] = AnyQuery]
  /\ kind' = [kind EXCEPT ![c] = "many"]
  /\ begun' = [begun EXCEPT ![c] = NewTables]
  /\ UNCHANGED <<db, past, cache>>

CheckInvalidate(c) == Check(c, "invalidate", "around", "execute")

InvalidatePattern(c, at, pattern, next) ==
  /\ pc[c] = at /\ CacheOn
  /\ cache' = [k \in Keys |-> IF Matches(k, pattern) THEN None ELSE cache[k]]
  /\ GoTo(c, next)
  /\ UNCHANGED <<db, past, asked, kind, target, rows, begun>>

InvalidateAround(c) == InvalidatePattern(c, "around", PatternAround(target[c]), "between")
InvalidateBetween(c) == InvalidatePattern(c, "between", PatternBetween(target[c]), "execute")

\* The statement commits; Create, Upsert and Update may then read the record back
\* with FindFirst.
Execute(c) ==
  LET t == target[c]
  IN  /\ pc[c] = "execute"
      /\ db[t] < MaxWrites
      /\ db' = [db EXCEPT ![t] = @ + 1]
      /\ past' = past \cup {db'}
      /\ \/ /\ GoTo(c, "idle")
            /\ UNCHANGED <<asked, kind, rows, begun>>
         \/ \E q \in Queries : q.reads = {t} /\ StartRead(c, q, "first", db')
      /\ UNCHANGED <<cache, target>>

-----------------------------------------------------------------------------
Next ==
  \/ EnableCache
  \/ DisableCache
  \/ \E k \in Keys : Forget(k)
  \/ \E c \in Clients :
       \/ \E q \in Queries, k \in {"many", "first"} : Read(c, q, k)
       \/ CheckCache(c) \/ Miss(c) \/ Hit(c) \/ Query(c) \/ Fails(c)
       \/ RecheckCache(c) \/ Store(c) \/ Panic(c)
       \/ \E t \in Tables : Write(c, t)
       \/ CheckInvalidate(c) \/ InvalidateAround(c) \/ InvalidateBetween(c)
       \/ Execute(c)

Spec == Init /\ [][Next]_vars

-----------------------------------------------------------------------------
(* Properties.                                                             *)

\* A read is answered with rows of a query that prints as its own does: the same SQL
\* and the same arguments, up to where one argument ends and the next begins, which
\* GenerateCacheKey does not tell.  So whoever prints like no other query of the
\* program is answered with its own rows, whatever was cached, forgotten, replaced or
\* switched off and on since.
AnswersOwnQuery ==
  \A c \in Clients : pc[c] = "done" => Printed(rows[c].query) = Printed(asked[c])

\* However stale, and whichever query found them, the rows joined in one answer belong
\* together: the database was once in a state that has all their tables at the
\* versions seen.
AnswersConsistent ==
  \A c \in Clients : pc[c] = "done" =>
    \E state \in past : \A t \in rows[c].query.reads : rows[c].at[t] = state[t]

\* invalidateTableCache, "Invalidate all queries for this table": a read that begins
\* after a write sees it.
ReadsFollowWrites ==
  \A c \in Clients : pc[c] = "done" =>
    \A t \in asked[c].reads : rows[c].at[t] >= begun[c][t]
=============================================================================
