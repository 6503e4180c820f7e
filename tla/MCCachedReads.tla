--------------------------- MODULE MCCachedReads ---------------------------
(* CachedReads for TLC: goroutines and keys are interchangeable.  A        *)
(* behaviour has goroutines or keys, so that the goroutines are exchanged  *)
(* whenever two keys are.                                                  *)
EXTENDS CachedReads, MCQueryCache

Exchanges(p) == Cardinality({k \in CacheKeys : p[k] = k}) = 1
AllSymmetry ==
  {p @@ (IF Exchanges(p) THEN c1 :> c2 @@ c2 :> c1 ELSE c1 :> c1 @@ c2 :> c2) : p \in Permutations(CacheKeys)}
=============================================================================
