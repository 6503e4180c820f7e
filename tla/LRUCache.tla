------------------------------ MODULE LRUCache ------------------------------
(***************************************************************************)
(* The query result cache of query/cache/cache.go: a map from keys to      *)
(* nodes of a doubly linked list, most recently used first.  Every method  *)
(* holds the mutex, so a call is one step; the steps follow the pointers   *)
(* exactly.  Nodes are numbered in the order they are created.             *)
(***************************************************************************)
EXTENDS Naturals, FiniteSets, SequencesExt

CONSTANTS
  Keys, Vals, None,
  Ttls,       \* the lifetimes Set is given: "never" (no TTL), "later"
  MaxSize,    \* LRUCache.maxSize
  MaxNodes    \* bound: nodes created in a behaviour

Nodes == 1..MaxNodes
Nil == 0
Pointers == Nodes \cup {Nil}

VARIABLES
  list,    \* the pointers: data, head, tail, prev, next
  key,     \* key[n], value[n]: what node n holds
  value,
  expiry,  \* expiresAt of n: "never", "later", or "past" once it is over
  created, \* nodes created so far
  result   \* what the last call returned, None for a miss

vars == <<list, key, value, expiry, created, result>>

EmptyList ==
  [data |-> [k \in Keys |-> Nil], head |-> Nil, tail |-> Nil,
   prev |-> [n \in Nodes |-> Nil], next |-> [n \in Nodes |-> Nil]]

Init ==
  /\ list = EmptyList
  /\ key = [n \in Nodes |-> CHOOSE k \in Keys : TRUE]
  /\ value = [n \in Nodes |-> CHOOSE v \in Vals : TRUE]
  /\ expiry = [n \in Nodes |-> "never"]
  /\ created = 0
  /\ result = None

-----------------------------------------------------------------------------
(* The list operations, as functions of the pointers.                      *)

\* removeNode unlinks n and deletes n's key from the map, whichever node the map
\* holds under it; n keeps its own prev and next.
RemoveNode(l, n) ==
  LET before == l.prev[n]
      after == l.next[n]
  IN  [data |-> [l.data EXCEPT ![key[n]] = Nil],
       head |-> IF before = Nil THEN after ELSE l.head,
       tail |-> IF after = Nil THEN before ELSE l.tail,
       next |-> IF before = Nil THEN l.next ELSE [l.next EXCEPT ![before] = after],
       prev |-> IF after = Nil THEN l.prev ELSE [l.prev EXCEPT ![after] = before]]

\* addToFront resets neither pointer of n that it does not set.
AddToFront(l, n) ==
  IF l.head = Nil
    THEN [l EXCEPT !.head = n, !.tail = n]
    ELSE [l EXCEPT !.next[n] = l.head, !.prev[l.head] = n, !.head = n]

MoveToFront(l, n) == IF n = l.head THEN l ELSE AddToFront(RemoveNode(l, n), n)

EvictLRU(l) == IF l.tail = Nil THEN l ELSE RemoveNode(l, l.tail)

Size(l) == Cardinality({k \in Keys : l.data[k] # Nil})

-----------------------------------------------------------------------------
(* The methods.                                                            *)

\* Mutant of Get: does not look at the expiry of the entry.
Get_ignoresExpiry(k) ==
  LET n == list.data[k]
  IN  /\ n # Nil
      /\ result' = value[n]
      /\ list' = MoveToFront(list, n)
      /\ UNCHANGED <<key, value, expiry, created>>

Get(k) ==
  LET n == list.data[k]
  IN  /\ IF n = Nil \/ expiry[n] = "past"
           THEN /\ result' = None
                /\ list' = IF n = Nil THEN list ELSE RemoveNode(list, n)
           ELSE /\ result' = value[n]
                /\ list' = MoveToFront(list, n)
      /\ UNCHANGED <<key, value, expiry, created>>

\* A key the map holds keeps its node.
SetExisting(k, v, ttl) ==
  LET n == list.data[k]
  IN  /\ n # Nil
      /\ value' = [value EXCEPT ![n] = v]
      /\ expiry' = [expiry EXCEPT ![n] = ttl]
      /\ list' = MoveToFront(list, n)
      /\ UNCHANGED <<key, created>>

SetNew(k, v, ttl) ==
  LET n == created + 1
      room == IF Size(list) >= MaxSize THEN EvictLRU(list) ELSE list
      linked == AddToFront(room, n)
  IN  /\ list.data[k] = Nil
      /\ created < MaxNodes
      /\ created' = n
      /\ key' = [key EXCEPT ![n] = k]
      /\ value' = [value EXCEPT ![n] = v]
      /\ expiry' = [expiry EXCEPT ![n] = ttl]
      /\ list' = [linked EXCEPT !.data[k] = n]

Set(k, v, ttl) ==
  /\ SetExisting(k, v, ttl) \/ SetNew(k, v, ttl)
  /\ result' = None

\* Invalidate(key) for one key, InvalidatePattern for the keys a pattern matches,
\* removed in the order of a map iteration.
Invalidate(K) ==
  LET found == {list.data[k] : k \in {j \in K : list.data[j] # Nil}}
  IN  /\ \E order \in SetToSeqs(found) : list' = FoldLeft(RemoveNode, list, order)
      /\ result' = None
      /\ UNCHANGED <<key, value, expiry, created>>

Clear ==
  /\ list' = [list EXCEPT !.data = [k \in Keys |-> Nil], !.head = Nil, !.tail = Nil]
  /\ result' = None
  /\ UNCHANGED <<key, value, expiry, created>>

\* The clock passes the expiry of an entry (nodes the map has lost are never
\* looked at again).
Expire(n) ==
  /\ expiry[n] = "later" /\ list.data[key[n]] = n
  /\ expiry' = [expiry EXCEPT ![n] = "past"]
  /\ result' = None
  /\ UNCHANGED <<list, key, value, created>>

Next ==
  \/ \E k \in Keys : Get(k)
  \/ \E k \in Keys, v \in Vals, ttl \in Ttls : Set(k, v, ttl)
  \/ \E K \in SUBSET Keys : Invalidate(K)
  \/ Clear
  \/ \E n \in Nodes : Expire(n)

Spec == Init /\ [][Next]_vars

-----------------------------------------------------------------------------
(* Properties.                                                             *)

Live(k) == list.data[k] # Nil /\ expiry[list.data[k]] # "past"

\* The cache as its users see it.
Visible == [k \in Keys |-> IF Live(k) THEN value[list.data[k]] ELSE None]

\* However the list degenerates, the cache never answers with a value that was
\* replaced, invalidated, cleared or expired.
Lossy == INSTANCE LossyCache WITH store <- Visible
NeverStale == Lossy!Spec
=============================================================================
