----------------------------- MODULE LossyCache -----------------------------
(***************************************************************************)
(* The least a query cache owes its users: it may forget, it may not lie.  *)
(* A lookup answers with the value last stored under the key, or not at    *)
(* all, and what was invalidated is gone.                                  *)
(***************************************************************************)
CONSTANTS Keys, Vals, None

VARIABLES store, result

Init == store = [k \in Keys |-> None] /\ result = None

\* Entries for which nothing else happens stay or are forgotten.
Forgets(k) == store'[k] \in {store[k], None}

Lookup(k) ==
  /\ result' \in {store[k], None}
  /\ store' \in [Keys -> Vals \cup {None}]
  /\ \A j \in Keys : Forgets(j)

Store(k, v) ==
  /\ result' = None
  /\ store' \in [Keys -> Vals \cup {None}]
  /\ store'[k] \in {v, None}
  /\ \A j \in Keys \ {k} : Forgets(j)

Remove(K) ==
  /\ result' = None
  /\ store' \in [Keys -> Vals \cup {None}]
  /\ \A k \in K : store'[k] = None
  /\ \A j \in Keys \ K : Forgets(j)

Next ==
  \/ \E k \in Keys : Lookup(k)
  \/ \E k \in Keys, v \in Vals : Store(k, v)
  \/ \E K \in SUBSET Keys : Remove(K)

Spec == Init /\ [][Next]_<<store, result>>
=============================================================================
