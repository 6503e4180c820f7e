---------------------------- MODULE CachedReads ----------------------------
(***************************************************************************)
(* The executor that reads through the cache (QueryCache) and the cache    *)
(* with its list (LRUCache).  LossyCache stands between the two: LRUCache  *)
(* keeps what it promises, and QueryCache takes no more for granted.  So   *)
(* neither needs the other, and one behaviour follows one of them.         *)
(***************************************************************************)
EXTENDS QueryCache

CONSTANTS CacheKeys, Vals, Ttls, MaxSize, MaxNodes \* of LRUCache

ASSUME CacheAssumption ==
  /\ CacheKeys # {} /\ Vals # {} /\ None \notin Vals
  /\ Ttls \subseteq {"never", "later"}
  /\ MaxSize \in Nat /\ MaxNodes \in Nat

VARIABLES
  part, \* "executor" or "cache"
  list, key, value, expiry, created, result

Lru == INSTANCE LRUCache WITH Keys <- CacheKeys

lruVars == <<list, key, value, expiry, created, result>>
readVars == <<part, vars, lruVars>>

ReadsInit == Init /\ Lru!Init /\ part \in {"executor", "cache"}

ReadsNext ==
  /\ \/ part = "executor" /\ Next /\ UNCHANGED lruVars
     \/ part = "cache" /\ Lru!Next /\ UNCHANGED vars
  /\ UNCHANGED part

ReadsSpec == ReadsInit /\ [][ReadsNext]_readVars

-----------------------------------------------------------------------------
\* LRUCache: no stale answers, as LossyCache promises.
NeverStale == Lru!NeverStale
=============================================================================
