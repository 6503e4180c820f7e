---------------------- MODULE ClientTransaction_proofs ----------------------
(***************************************************************************)
(* That the levels of a transaction and the savepoints of the database     *)
(* belong together, and that transactions so nested keep the promise of    *)
(* NestedTransactions: for any rows, databases and depths, and any order in*)
(* which the functions write, fail, nest, panic and lose the connection.   *)
(***************************************************************************)
EXTENDS ClientTransaction, SequenceTheorems, WellFoundedInduction, TLAPS

(* Savepoints of a name, in a sequence of them.                            *)

NamedIn(s, n) == {i \in DOMAIN s : s[i].name = n}
NewestIn(s, n) == CHOOSE i \in NamedIn(s, n) : \A j \in NamedIn(s, n) : j <= i

\* k is where the newest savepoint called n is.
IsNewest(s, n, k) == k \in NamedIn(s, n) /\ \A j \in NamedIn(s, n) : j <= k

\* The newest savepoint of a name is one of the name, and none of the name is newer.
LEMMA NewestExists ==
  ASSUME NEW S, NEW s \in Seq(S), NEW n, NamedIn(s, n) # {}
  PROVE  IsNewest(s, n, NewestIn(s, n))
<1> DEFINE R == OpToRel(<, Nat)
<1> DEFINE T == {Len(s) - i : i \in NamedIn(s, n)}
<1>1. Len(s) \in Nat /\ \A i \in NamedIn(s, n) : i \in 1..Len(s)
  BY DEF NamedIn
<1>2. \A i \in NamedIn(s, n) : Len(s) - i \in Nat
  BY <1>1
<1>3. T \in SUBSET Nat /\ T # {}
  BY <1>2
<1>4. IsWellFoundedOn(R, Nat)
  BY NatLessThanWellFounded
<1>5. \A x, y \in Nat : x < y => <<x, y>> \in R
  BY DEF OpToRel
<1>6. PICK x \in T : \A y \in T : ~(<<y, x>> \in R)
  <2> HIDE DEF R, T
  <2> QED
    BY <1>3, <1>4, WFMin
<1>7. PICK i \in NamedIn(s, n) : x = Len(s) - i
  BY <1>6
<1>8. ASSUME NEW j \in NamedIn(s, n) PROVE j <= i
  <2>1. Len(s) - j \in T /\ Len(s) - j \in Nat /\ x \in Nat
    BY <1>2, <1>6, <1>7
  <2>2. ~(Len(s) - j < x)
    <3> HIDE DEF R, T
    <3> QED
      BY <1>5, <1>6, <2>1, Zenon
  <2> QED
    BY <1>1, <1>7, <2>2
<1> QED
  BY <1>7, <1>8 DEF NewestIn, IsNewest

\* There is one newest savepoint of a name.
LEMMA NewestIsUnique ==
  ASSUME NEW S, NEW s \in Seq(S), NEW n, NEW k, IsNewest(s, n, k)
  PROVE  NamedIn(s, n) # {} /\ NewestIn(s, n) = k
<1>1. \A i \in NamedIn(s, n) : i \in Nat
  BY DEF NamedIn
<1>2. ASSUME NEW i \in NamedIn(s, n), \A j \in NamedIn(s, n) : j <= i PROVE i = k
  BY <1>1, <1>2 DEF IsNewest
<1> QED
  BY <1>2 DEF IsNewest, NewestIn

\* A savepoint appended hides those of its own name and no others.
LEMMA AfterAppend ==
  ASSUME NEW S, NEW s \in Seq(S), NEW e \in S
  PROVE  /\ IsNewest(Append(s, e), e.name, Len(s) + 1)
         /\ \A n, k : n # e.name /\ IsNewest(s, n, k) =>
              IsNewest(Append(s, e), n, k) /\ Append(s, e)[k] = s[k]
<1>1. /\ Append(s, e) \in Seq(S) /\ Len(Append(s, e)) = Len(s) + 1
      /\ \A i \in 1..Len(s) : Append(s, e)[i] = s[i]
      /\ Append(s, e)[Len(s) + 1] = e
  BY AppendProperties
<1>2. \A n : n # e.name => NamedIn(Append(s, e), n) = NamedIn(s, n)
  BY <1>1 DEF NamedIn
<1>3. \A n, k : IsNewest(s, n, k) => k \in 1..Len(s)
  BY DEF IsNewest, NamedIn
<1>4. IsNewest(Append(s, e), e.name, Len(s) + 1)
  BY <1>1 DEF IsNewest, NamedIn
<1> QED
  BY <1>1, <1>2, <1>3, <1>4 DEF IsNewest

\* Forgetting the savepoints after the m-th leaves the newest of a name where it is, if
\* it is not after the m-th.
LEMMA AfterCut ==
  ASSUME NEW S, NEW s \in Seq(S), NEW m \in 0..Len(s)
  PROVE  /\ SubSeq(s, 1, m) \in Seq(S) /\ Len(SubSeq(s, 1, m)) = m
         /\ \A n, k : k <= m /\ IsNewest(s, n, k) =>
              IsNewest(SubSeq(s, 1, m), n, k) /\ SubSeq(s, 1, m)[k] = s[k]
<1>1. /\ SubSeq(s, 1, m) \in Seq(S) /\ Len(SubSeq(s, 1, m)) = m
      /\ \A i \in 1..m : SubSeq(s, 1, m)[i] = s[i]
  <2>1. \A i \in 1..m : s[i] \in S
    BY ElementOfSeq
  <2> QED
    BY <2>1, SubSeqProperties
<1>2. \A n : NamedIn(SubSeq(s, 1, m), n) = {i \in NamedIn(s, n) : i <= m}
  BY <1>1 DEF NamedIn
<1>3. \A n, k : IsNewest(s, n, k) => k \in 1..Len(s)
  BY DEF IsNewest, NamedIn
<1> QED
  BY <1>1, <1>2, <1>3 DEF IsNewest

\* Without one of its elements a sequence has the others, those behind it moved up.
LEMMA AfterRemoval ==
  ASSUME NEW S, NEW s \in Seq(S), NEW m \in 1..Len(s)
  PROVE  /\ RemoveAt(s, m) \in Seq(S) /\ Len(RemoveAt(s, m)) = Len(s) - 1
         /\ \A i \in 1..Len(s) - 1 : RemoveAt(s, m)[i] = s[IF i < m THEN i ELSE i + 1]
<1> DEFINE a == SubSeq(s, 1, m - 1)
           b == SubSeq(s, m + 1, Len(s))
<1>1. \A i \in 1..Len(s) : s[i] \in S
  BY ElementOfSeq
<1>2. a \in Seq(S) /\ Len(a) = m - 1 /\ \A i \in 1..m - 1 : a[i] = s[i]
  BY <1>1, SubSeqProperties
<1>3. b \in Seq(S) /\ Len(b) = Len(s) - m /\ \A i \in 1..Len(s) - m : b[i] = s[m + i]
  BY <1>1, SubSeqProperties
<1>4. /\ a \o b \in Seq(S) /\ Len(a \o b) = Len(a) + Len(b)
      /\ \A i \in 1..Len(a) + Len(b) : (a \o b)[i] = IF i <= Len(a) THEN a[i] ELSE b[i - Len(a)]
  BY <1>2, <1>3, ConcatProperties
<1>5. RemoveAt(s, m) = a \o b
  BY DEF RemoveAt
<1> HIDE DEF a, b
<1>6. ASSUME NEW i \in 1..Len(s) - 1
      PROVE  (a \o b)[i] = s[IF i < m THEN i ELSE i + 1]
  <2>1. CASE i < m
    BY <2>1, <1>2, <1>3, <1>4
  <2>2. CASE ~(i < m)
    <3>1. i - (m - 1) \in 1..Len(s) - m /\ m + (i - (m - 1)) = i + 1
      BY <2>2
    <3>2. (a \o b)[i] = b[i - (m - 1)]
      BY <2>2, <1>2, <1>3, <1>4
    <3> QED
      BY <2>2, <3>1, <3>2, <1>3
  <2> QED
    BY <2>1, <2>2
<1>7. Len(a) + Len(b) = Len(s) - 1
  BY <1>2, <1>3
<1> QED
  BY <1>4, <1>5, <1>6, <1>7

\* Where the k-th element is once the m-th has been removed.
Moved(k, m) == IF k < m THEN k ELSE k - 1

\* MySQL: dropping the newest savepoint of one name leaves those of another the newest
\* of theirs.
LEMMA NewestAfterRemoval ==
  ASSUME NEW S, NEW s \in Seq(S), NEW m \in 1..Len(s), NEW n, n # s[m].name,
         NEW k, IsNewest(s, n, k)
  PROVE  /\ IsNewest(RemoveAt(s, m), n, Moved(k, m))
         /\ RemoveAt(s, m)[Moved(k, m)] = s[k]
<1> DEFINE t == RemoveAt(s, m)
<1>1. /\ t \in Seq(S) /\ Len(t) = Len(s) - 1
      /\ \A i \in 1..Len(s) - 1 : t[i] = s[IF i < m THEN i ELSE i + 1]
  BY AfterRemoval
<1> HIDE DEF t
<1>2. k \in 1..Len(s) /\ s[k].name = n /\ k # m
  BY DEF IsNewest, NamedIn
<1>3. Moved(k, m) \in 1..Len(t) /\ t[Moved(k, m)] = s[k]
  BY <1>1, <1>2 DEF Moved
<1>4. ASSUME NEW j \in NamedIn(t, n) PROVE j <= Moved(k, m)
  <2> DEFINE i == IF j < m THEN j ELSE j + 1
  <2>1. j \in 1..Len(t) /\ i \in 1..Len(s) /\ s[i].name = n
    BY <1>1 DEF NamedIn
  <2>2. i <= k
    BY <2>1 DEF IsNewest, NamedIn
  <2> QED
    BY <1>2, <2>1, <2>2 DEF Moved
<1>5. Moved(k, m) \in NamedIn(t, n)
  BY <1>2, <1>3 DEF NamedIn
<1> QED
  BY <1>3, <1>4, <1>5 DEF IsNewest, t

-----------------------------------------------------------------------------
(* What the steps leave of the levels around.                              *)

\* The transaction is under way, and the database has not ended it by itself.
Alive == running /\ ~alone

\* The names, outermost first, have savepoints in s, in the same order.
NestsIn(s, names) ==
  /\ \A i \in DOMAIN names : NamedIn(s, names[i]) # {}
  /\ \A i, j \in DOMAIN names : i < j => NewestIn(s, names[i]) < NewestIn(s, names[j])

\* What makes SavepointsNest inductive, and is needed of the levels as what they would go
\* back to: they keep their savepoints when the connection is gone as well.
LevelsNest ==
  running => /\ depth = Len(frames) /\ \A i \in DOMAIN frames : frames[i] = i
             /\ ~alone => NestsIn(savepoints, frames)

\* Each of the first m levels still goes back to its savepoint, in their order.
KeepsLevels(m) ==
  /\ \A i \in 1..m : Named(i)' # {} /\ savepoints'[Newest(i)'] = savepoints[Newest(i)]
  /\ \A i, j \in 1..m : i < j => Newest(i)' < Newest(j)'

\* The operators of the model are those on sequences, for the savepoints now and after a step.
LEMMA NamedNewest ==
  \A n : /\ Named(n) = NamedIn(savepoints, n) /\ Newest(n) = NewestIn(savepoints, n)
         /\ Named(n)' = NamedIn(savepoints', n) /\ Newest(n)' = NewestIn(savepoints', n)
BY DEF Named, Newest, NamedIn, NewestIn

\* What LevelsNest says, with the place of each level's savepoint.
LEMMA LevelsPlaced ==
  ASSUME TypeOK, LevelsNest, Alive
  PROVE  /\ depth = Len(frames) /\ DOMAIN frames = 1..depth
         /\ \A i \in 1..depth : /\ frames[i] = i
                                /\ IsNewest(savepoints, i, Newest(i))
                                /\ Newest(i) \in 1..Len(savepoints)
                                /\ savepoints[Newest(i)].name = i
         /\ \A i, j \in 1..depth : i < j => Newest(i) < Newest(j)
<1>1. depth = Len(frames) /\ DOMAIN frames = 1..depth
  BY DEF TypeOK, LevelsNest, Alive
<1>2. \A i \in 1..depth : frames[i] = i /\ Named(i) # {}
  BY <1>1, NamedNewest DEF LevelsNest, NestsIn, Alive
<1>3. \A i, j \in 1..depth : i < j => Newest(i) < Newest(j)
  BY <1>1, <1>2, NamedNewest DEF LevelsNest, NestsIn, Alive
<1>4. ASSUME NEW i \in 1..depth PROVE IsNewest(savepoints, i, Newest(i))
  BY <1>2, NewestExists, NamedNewest DEF TypeOK
<1>5. \A i \in 1..depth : Newest(i) \in 1..Len(savepoints) /\ savepoints[Newest(i)].name = i
  BY <1>4 DEF IsNewest, NamedIn, TypeOK
<1> QED
  BY <1>1, <1>2, <1>3, <1>4, <1>5

\* Savepoints that are still the newest of their names, at places k in the same order,
\* keep the levels.
LEMMA PlacesKeepLevels ==
  ASSUME NEW m \in Nat, NEW k, savepoints' \in Seq(Savepoints),
         \A i \in 1..m : /\ IsNewest(savepoints', i, k[i])
                         /\ savepoints'[k[i]] = savepoints[Newest(i)],
         \A i, j \in 1..m : i < j => k[i] < k[j]
  PROVE  KeepsLevels(m)
<1>1. \A i \in 1..m : NamedIn(savepoints', i) # {} /\ NewestIn(savepoints', i) = k[i]
  BY NewestIsUnique
<1>2. \A i \in 1..m : Named(i)' # {} /\ Newest(i)' = k[i]
  BY <1>1, NamedNewest
<1> QED
  BY <1>2 DEF KeepsLevels

\* RELEASE and ROLLBACK TO: forgetting the savepoints behind those of the first d levels.
LEMMA CutKeepsLevels ==
  ASSUME TypeOK, LevelsNest, Alive,
         NEW d \in 0..depth, NEW m \in 0..Len(savepoints),
         \A i \in 1..d : Newest(i) <= m,
         savepoints' = SubSeq(savepoints, 1, m)
  PROVE  savepoints' \in Seq(Savepoints) /\ KeepsLevels(d)
<1> DEFINE k == [i \in 1..d |-> Newest(i)]
<1>0. savepoints \in Seq(Savepoints) /\ depth \in Nat
  BY LevelsPlaced DEF TypeOK
<1>1. 1..d \subseteq 1..depth
  BY <1>0
<1>2. /\ \A i \in 1..d : IsNewest(savepoints, i, k[i])
      /\ \A i, j \in 1..d : i < j => k[i] < k[j]
  BY <1>1, LevelsPlaced
<1>3. savepoints' \in Seq(Savepoints)
  BY <1>0, AfterCut
<1>4. \A i \in 1..d : k[i] = Newest(i) /\ k[i] <= m
  OBVIOUS
<1> HIDE DEF k
<1>5. \A i \in 1..d : /\ IsNewest(savepoints', i, k[i])
                      /\ savepoints'[k[i]] = savepoints[k[i]]
  <2>1. \A n, j : j <= m /\ IsNewest(savepoints, n, j) =>
          IsNewest(savepoints', n, j) /\ savepoints'[j] = savepoints[j]
    BY <1>0, AfterCut
  <2> QED
    BY <1>2, <1>4, <2>1
<1>6. d \in Nat
  BY <1>0
<1>7. \A i \in 1..d : /\ IsNewest(savepoints', i, k[i])
                      /\ savepoints'[k[i]] = savepoints[Newest(i)]
  BY <1>4, <1>5
<1> QED
  BY <1>2, <1>3, <1>6, <1>7, PlacesKeepLevels

\* RELEASE on an aborted transaction fails and leaves the savepoints as they are.
LEMMA UntouchedKeepLevels ==
  ASSUME TypeOK, LevelsNest, Alive, NEW d \in 0..depth, UNCHANGED savepoints
  PROVE  KeepsLevels(d)
<1>1. Len(savepoints) \in 0..Len(savepoints) /\ savepoints = SubSeq(savepoints, 1, Len(savepoints))
  BY SubSeqFull DEF TypeOK
<1>2. depth \in Nat /\ \A i \in 1..depth : Newest(i) <= Len(savepoints)
  BY LevelsPlaced DEF TypeOK
<1>3. \A i \in 1..d : Newest(i) <= Len(savepoints)
  BY <1>2
<1> QED
  BY <1>1, <1>3, CutKeepsLevels

\* SAVEPOINT: the new level's savepoint is the youngest of all and holds what the level saw
\* when it began, and those around it keep theirs.
LEMMA EnterKeepsLevels ==
  ASSUME TypeOK, LevelsNest, Alive, Enter, MaxDepth \in Nat, NEW n, n = depth + 1
  PROVE  /\ savepoints' \in Seq(Savepoints)
         /\ KeepsLevels(depth)
         /\ Named(n)' # {}
         /\ savepoints'[Newest(n)'] = [name |-> n, work |-> work]
         /\ \A i \in 1..depth : Newest(i)' < Newest(n)'
<1> DEFINE e == [name |-> n, work |-> work]
           drops == provider = "mysql" /\ Named(n) # {}
           t == IF drops THEN RemoveAt(savepoints, Newest(n)) ELSE savepoints
           k == [i \in 1..depth |-> IF drops THEN Moved(Newest(i), Newest(n)) ELSE Newest(i)]
<1>1. savepoints \in Seq(Savepoints) /\ depth \in Nat /\ e \in Savepoints
  BY DEF TypeOK, Savepoints, Enter
<1>2. savepoints' = Append(t, e)
  BY DEF Enter, Alive, WithSavepoint, SavepointName
<1>3. /\ \A i \in 1..depth : /\ IsNewest(savepoints, i, Newest(i))
                             /\ Newest(i) \in 1..Len(savepoints)
                             /\ savepoints[Newest(i)].name = i
      /\ \A i, j \in 1..depth : i < j => Newest(i) < Newest(j)
  BY LevelsPlaced
<1>4. drops => /\ Newest(n) \in 1..Len(savepoints)
               /\ savepoints[Newest(n)].name = n
  BY <1>1, NewestExists, NamedNewest DEF IsNewest, NamedIn
<1>5. \A i \in 1..depth : i # n
  BY <1>1
<1>6. /\ t \in Seq(Savepoints)
      /\ \A i \in 1..depth : /\ IsNewest(t, i, k[i]) /\ t[k[i]] = savepoints[Newest(i)]
                             /\ k[i] \in Nat
      /\ \A i, j \in 1..depth : i < j => k[i] < k[j]
  <2>1. CASE drops
    <3> DEFINE m == Newest(n)
    <3>1. m \in 1..Len(savepoints) /\ savepoints[m].name = n /\ t = RemoveAt(savepoints, m)
      BY <1>4, <2>1
    <3>2. \A i \in 1..depth : k[i] = Moved(Newest(i), m)
      BY <2>1
    <3> HIDE DEF m, t, k
    <3>3. t \in Seq(Savepoints)
      BY <1>1, <3>1, AfterRemoval
    <3>4. ASSUME NEW i \in 1..depth
          PROVE  IsNewest(t, i, k[i]) /\ t[k[i]] = savepoints[Newest(i)]
      <4>1. IsNewest(savepoints, i, Newest(i)) /\ i # savepoints[m].name
        BY <1>3, <1>5, <3>1
      <4>2. /\ IsNewest(RemoveAt(savepoints, m), i, Moved(Newest(i), m))
            /\ RemoveAt(savepoints, m)[Moved(Newest(i), m)] = savepoints[Newest(i)]
        BY <1>1, <3>1, <4>1, NewestAfterRemoval
      <4> QED
        BY <3>1, <3>2, <4>2
    <3>5. \A i \in 1..depth : Newest(i) # m
      BY <1>3, <1>5, <3>1
    <3>6. \A i \in 1..depth : k[i] \in Nat
      BY <1>1, <1>3, <3>1, <3>2, <3>5 DEF Moved
    <3>7. ASSUME NEW i \in 1..depth, NEW j \in 1..depth, i < j PROVE k[i] < k[j]
      <4>1. Newest(i) \in Nat /\ Newest(j) \in Nat /\ m \in Nat
        BY <1>1, <1>3, <3>1
      <4>2. Newest(i) < Newest(j) /\ Newest(i) # m /\ Newest(j) # m
        BY <1>3, <3>5, <3>7
      <4>3. k[i] = Moved(Newest(i), m) /\ k[j] = Moved(Newest(j), m)
        BY <3>2
      <4> QED
        BY <4>1, <4>2, <4>3 DEF Moved
    <3> QED
      BY <3>3, <3>4, <3>6, <3>7
  <2>2. CASE ~drops
    <3>1. t = savepoints /\ \A i \in 1..depth : k[i] = Newest(i)
      BY <2>2
    <3> QED
      BY <1>1, <1>3, <3>1
  <2> QED
    BY <2>1, <2>2
<1>e. e.name = n
  OBVIOUS
<1> HIDE DEF t, k, drops, e
<1>7. /\ IsNewest(savepoints', n, Len(t) + 1)
      /\ \A i \in 1..depth : /\ IsNewest(savepoints', i, k[i])
                             /\ savepoints'[k[i]] = savepoints[Newest(i)]
      /\ savepoints' \in Seq(Savepoints) /\ savepoints'[Len(t) + 1] = e
  <2>1. /\ IsNewest(savepoints', n, Len(t) + 1)
        /\ \A i, j : i # n /\ IsNewest(t, i, j) => IsNewest(savepoints', i, j) /\ savepoints'[j] = t[j]
    <3>1. e \in Savepoints /\ t \in Seq(Savepoints)
      BY <1>1, <1>6
    <3>2. /\ IsNewest(Append(t, e), e.name, Len(t) + 1)
          /\ \A i, j : i # e.name /\ IsNewest(t, i, j) => IsNewest(Append(t, e), i, j) /\ Append(t, e)[j] = t[j]
      BY <3>1, AfterAppend
    <3> QED
      BY <1>2, <1>e, <3>2
  <2>2. savepoints' \in Seq(Savepoints) /\ savepoints'[Len(t) + 1] = e
    BY <1>1, <1>2, <1>6, AppendProperties
  <2>3. ASSUME NEW i \in 1..depth
        PROVE  IsNewest(savepoints', i, k[i]) /\ savepoints'[k[i]] = savepoints[Newest(i)]
    <3>1. i # n /\ IsNewest(t, i, k[i]) /\ t[k[i]] = savepoints[Newest(i)]
      BY <1>5, <1>6
    <3> QED
      BY <2>1, <3>1
  <2> QED
    BY <2>1, <2>2, <2>3
<1>8. KeepsLevels(depth)
  BY <1>1, <1>6, <1>7, PlacesKeepLevels
<1>9. /\ Named(n)' # {} /\ Newest(n)' = Len(t) + 1
      /\ \A i \in 1..depth : Newest(i)' = k[i]
  BY <1>7, NewestIsUnique, NamedNewest
<1>10. \A i \in 1..depth : k[i] < Len(t) + 1
  BY <1>6 DEF IsNewest, NamedIn
<1> QED
  BY <1>7, <1>8, <1>9, <1>10 DEF e

-----------------------------------------------------------------------------
(* The invariant: TypeOK and LevelsNest together are inductive.            *)

\* How deep transactions may nest in a run is a number.
Bounded == MaxDepth \in Nat

IInv == TypeOK /\ LevelsNest

\* NestedTransaction goes one level deeper.
LEMMA EnterFrames ==
  ASSUME IInv, Enter, Bounded
  PROVE  /\ depth' = depth + 1 /\ depth' \in 0..MaxDepth
         /\ frames' \in Seq(1..MaxDepth) /\ Len(frames') = depth'
         /\ \A i \in 1..depth' : frames'[i] = i
<1>1. /\ depth = Len(frames) /\ frames \in Seq(1..MaxDepth) /\ DOMAIN frames = 1..depth
      /\ \A i \in DOMAIN frames : frames[i] = i
  BY DEF IInv, TypeOK, LevelsNest, Enter
<1>2. depth' = depth + 1 /\ depth' \in 1..MaxDepth /\ frames' = Append(frames, depth')
  BY DEF IInv, TypeOK, Enter, SavepointName, Bounded
<1>3. /\ frames' \in Seq(1..MaxDepth) /\ Len(frames') = Len(frames) + 1
      /\ \A i \in 1..Len(frames) : frames'[i] = frames[i]
      /\ frames'[Len(frames) + 1] = depth'
  BY <1>1, <1>2, AppendProperties
<1> QED
  BY <1>1, <1>2, <1>3

\* The level that ends is the innermost.
LEMMA LeaveFrames ==
  ASSUME IInv, running, frames # <<>>, NEW result, Leave(result), Bounded
  PROVE  /\ Last(frames) = depth /\ depth \in 1..MaxDepth
         /\ depth' = depth - 1 /\ depth' \in 0..MaxDepth
         /\ frames' \in Seq(1..MaxDepth) /\ Len(frames') = depth'
         /\ \A i \in 1..depth' : frames'[i] = i
<1>1. /\ depth = Len(frames) /\ frames \in Seq(1..MaxDepth) /\ DOMAIN frames = 1..depth
      /\ \A i \in DOMAIN frames : frames[i] = i
  BY DEF IInv, TypeOK, LevelsNest
<1>2. depth \in 1..MaxDepth /\ depth \in Nat /\ MaxDepth \in Nat
  <2>1. Len(frames) \in Nat \ {0}
    BY <1>1, EmptySeq
  <2> QED
    BY <1>1, <2>1 DEF IInv, TypeOK, Bounded
<1>3. depth' = depth - 1 /\ frames' = SubSeq(frames, 1, depth - 1)
  BY <1>1 DEF Leave, Front
<1>4. \A i \in 1..depth - 1 : frames[i] \in 1..MaxDepth
  BY <1>1, <1>2, ElementOfSeq
<1>5. /\ frames' \in Seq(1..MaxDepth) /\ Len(frames') = depth - 1
      /\ \A i \in 1..depth - 1 : frames'[i] = frames[i]
  BY <1>2, <1>3, <1>4, SubSeqProperties
<1>6. Last(frames) = depth
  BY <1>1, <1>2 DEF Last
<1>7. ASSUME NEW i \in 1..depth' PROVE frames'[i] = i
  <2>1. i \in 1..depth - 1 /\ i \in DOMAIN frames
    BY <1>1, <1>2, <1>3
  <2> QED
    BY <1>1, <1>5, <2>1
<1> QED
  BY <1>2, <1>3, <1>5, <1>6, <1>7

\* RELEASE: the newest savepoint of the innermost level is there, and goes, with those
\* behind it.
LEMMA ReleaseKeepsLevels ==
  ASSUME IInv, Alive, depth \in 1..MaxDepth, Release(depth)
  PROVE  savepoints' \in Seq(Savepoints) /\ KeepsLevels(depth - 1)
<1>1. Newest(depth) \in 1..Len(savepoints) /\ \A i \in 1..depth - 1 : Newest(i) < Newest(depth)
  BY LevelsPlaced DEF IInv
<1>2. /\ depth - 1 \in 0..depth /\ Newest(depth) - 1 \in 0..Len(savepoints)
      /\ savepoints' = SubSeq(savepoints, 1, Newest(depth) - 1)
  BY <1>1 DEF Release
<1>3. \A i \in 1..depth - 1 : Newest(i) \in 1..Len(savepoints)
  BY LevelsPlaced DEF IInv
<1>4. \A i \in 1..depth - 1 : Newest(i) <= Newest(depth) - 1
  BY <1>1, <1>3
<1> QED
  BY <1>2, <1>4, CutKeepsLevels DEF IInv

\* ROLLBACK TO: the savepoint of the innermost level stays.
LEMMA RollbackKeepsLevels ==
  ASSUME IInv, Alive, depth \in 1..MaxDepth, RollbackTo(depth)
  PROVE  savepoints' \in Seq(Savepoints) /\ KeepsLevels(depth - 1)
<1>1. Newest(depth) \in 1..Len(savepoints) /\ \A i \in 1..depth - 1 : Newest(i) < Newest(depth)
  BY LevelsPlaced DEF IInv
<1>2. /\ depth - 1 \in 0..depth /\ Newest(depth) \in 0..Len(savepoints)
      /\ savepoints' = SubSeq(savepoints, 1, Newest(depth))
  BY <1>1 DEF RollbackTo
<1>3. \A i \in 1..depth - 1 : Newest(i) \in 1..Len(savepoints)
  BY LevelsPlaced DEF IInv
<1>4. \A i \in 1..depth - 1 : Newest(i) <= Newest(depth)
  BY <1>1, <1>3
<1> QED
  BY <1>2, <1>4, CutKeepsLevels DEF IInv

\* Steps that leave levels and savepoints alone.
LEMMA StillNesting ==
  ASSUME LevelsNest, UNCHANGED <<running, depth, frames, savepoints, alone>>
  PROVE  LevelsNest'
BY DEF LevelsNest

\* Whatever step led there: levels that are numbered and have their savepoints nest.
LEMMA Nesting ==
  ASSUME depth' \in Nat, frames' \in Seq(1..MaxDepth), Len(frames') = depth',
         \A i \in 1..depth' : frames'[i] = i,
         Alive' => /\ \A i \in 1..depth' : Named(i)' # {}
                   /\ \A i, j \in 1..depth' : i < j => Newest(i)' < Newest(j)'
  PROVE  LevelsNest'
<1>1. DOMAIN frames' = 1..depth'
  BY LenProperties
<1>2. Alive' => NestsIn(savepoints', frames')
  BY <1>1, NamedNewest DEF NestsIn
<1> QED
  BY <1>1, <1>2 DEF LevelsNest, Alive

\* A savepoint that is there has a place, and what is before it is a sequence.
LEMMA NamedPlace ==
  ASSUME TypeOK, NEW n, Named(n) # {}
  PROVE  /\ Newest(n) \in 1..Len(savepoints) /\ savepoints[Newest(n)].work \subseteq Works
         /\ SubSeq(savepoints, 1, Newest(n)) \in Seq(Savepoints)
         /\ SubSeq(savepoints, 1, Newest(n) - 1) \in Seq(Savepoints)
<1>1. savepoints \in Seq(Savepoints) /\ IsNewest(savepoints, n, Newest(n))
  BY NewestExists, NamedNewest DEF TypeOK
<1>2. Newest(n) \in 1..Len(savepoints)
  BY <1>1 DEF IsNewest, NamedIn
<1>3. Newest(n) \in 0..Len(savepoints) /\ Newest(n) - 1 \in 0..Len(savepoints)
  BY <1>1, <1>2
<1>4. savepoints[Newest(n)] \in Savepoints
  BY <1>1, <1>2, ElementOfSeq
<1> QED
  BY <1>1, <1>2, <1>3, <1>4, AfterCut DEF Savepoints

\* Before the first transaction there is nothing to nest.
LEMMA InitIInv == Init /\ Bounded => IInv
<1> SUFFICES ASSUME Init, Bounded PROVE IInv
  OBVIOUS
<1>1. frames \in Seq(1..MaxDepth) /\ savepoints \in Seq(Savepoints)
  BY EmptySeq DEF Init
<1>2. depth \in 0..MaxDepth /\ ~running
  BY DEF Init, Bounded
<1>3. TypeOK
  BY <1>1, <1>2 DEF Init, TypeOK
<1> QED
  BY <1>2, <1>3 DEF IInv, LevelsNest

\* Every step of the functions and of the database preserves the invariant.
LEMMA NextIInv == Bounded /\ IInv /\ [Next]_vars => IInv'
<1> SUFFICES ASSUME Bounded, IInv, [Next]_vars PROVE IInv'
  OBVIOUS
<1> USE DEF IInv
<1>1. CASE Begin
  <2>1. frames' \in Seq(1..MaxDepth) /\ savepoints' \in Seq(Savepoints)
    BY <1>1, EmptySeq DEF Begin
  <2>2. depth' = 0 /\ Len(frames') = 0
    BY <1>1 DEF Begin
  <2>3. LevelsNest'
    BY <2>1, <2>2, Nesting
  <2>4. depth' \in 0..MaxDepth
    BY <2>2 DEF Bounded
  <2>5. TypeOK'
    BY <1>1, <2>1, <2>4 DEF Begin, TypeOK
  <2> QED
    BY <2>3, <2>5
<1>2. ASSUME NEW w \in Works, Write(w) PROVE IInv'
  <2>1. LevelsNest'
    BY <1>2, StillNesting DEF Write, client
  <2> QED
    BY <1>2, <2>1 DEF Write, client, TypeOK
<1>3. CASE StatementFails
  <2>1. LevelsNest'
    BY <1>3, StillNesting DEF StatementFails, client
  <2>2. aborted' \in BOOLEAN
    BY <1>3 DEF StatementFails
  <2> QED
    BY <1>3, <2>1, <2>2 DEF StatementFails, client, TypeOK
<1>4. CASE DeadlockVictim
  BY <1>4, EmptySeq DEF DeadlockVictim, client, TypeOK, LevelsNest
<1>5. CASE Lose
  BY <1>5 DEF Lose, client, server, TypeOK, LevelsNest
<1>6. CASE Return
  BY <1>6 DEF Return, Finish, TypeOK, LevelsNest
<1>7. CASE ReturnError \/ Panics
  BY <1>7 DEF ReturnError, Panics, Finish, server, TypeOK, LevelsNest
<1>8. CASE Enter
  <2>0. /\ depth' = depth + 1 /\ depth' \in 0..MaxDepth
        /\ frames' \in Seq(1..MaxDepth) /\ Len(frames') = depth'
        /\ \A i \in 1..depth' : frames'[i] = i
    BY <1>8, EnterFrames
  <2>1. running /\ ~lost /\ UNCHANGED <<running, alone, lost>> /\ depth \in Nat
    BY <1>8 DEF Enter, Usable, TypeOK
  <2>2. CASE alone
    <3>1. TypeOK'
      BY <1>8, <2>0, <2>2 DEF Enter, TypeOK
    <3>2. LevelsNest'
      BY <2>0, <2>1, <2>2, Nesting DEF Alive
    <3> QED
      BY <3>1, <3>2
  <2>3. CASE ~alone
    <3>0. PICK n : n = depth + 1
      OBVIOUS
    <3>1. Alive
      BY <2>1, <2>3 DEF Alive
    <3>2. /\ savepoints' \in Seq(Savepoints)
          /\ KeepsLevels(depth)
          /\ Named(n)' # {}
          /\ \A i \in 1..depth : Newest(i)' < Newest(n)'
      BY <1>8, <3>0, <3>1, EnterKeepsLevels DEF Bounded
    <3>3. TypeOK'
      BY <1>8, <2>0, <3>2 DEF Enter, TypeOK
    <3>4. \A i \in 1..depth' : i \in 1..depth \/ i = n
      BY <2>0, <2>1, <3>0
    <3>5. LevelsNest'
      <4>1. \A i \in 1..depth' : Named(i)' # {}
        BY <3>2, <3>4 DEF KeepsLevels
      <4>2. ASSUME NEW i \in 1..depth', NEW j \in 1..depth', i < j PROVE Newest(i)' < Newest(j)'
        <5>1. i \in 1..depth
          BY <4>2, <2>0, <2>1
        <5> QED
          BY <4>2, <5>1, <3>2, <3>4 DEF KeepsLevels
      <4> QED
        BY <2>0, <2>1, <4>1, <4>2, Nesting
    <3> QED
      BY <3>3, <3>5
  <2> QED
    BY <2>2, <2>3
<1>9. CASE EnterFails
  <2>1. LevelsNest'
    BY <1>9, StillNesting DEF EnterFails, server
  <2> QED
    BY <1>9, <2>1 DEF EnterFails, server, TypeOK
<1>10. CASE NestedReturns
  <2>0. PICK result \in {"ok", "error"} : Leave(result)
    BY <1>10 DEF NestedReturns
  <2>1. /\ Last(frames) = depth /\ depth \in 1..MaxDepth
        /\ depth' = depth - 1 /\ depth' \in 0..MaxDepth /\ depth' \in Nat
        /\ frames' \in Seq(1..MaxDepth) /\ Len(frames') = depth'
        /\ \A i \in 1..depth' : frames'[i] = i
    BY <1>10, <2>0, LeaveFrames DEF NestedReturns, Bounded
  <2>2. running' /\ UNCHANGED <<alone, lost>> /\ running
    BY <1>10, <2>0 DEF NestedReturns, Release, Leave, server
  <2>3. CASE Named(Last(frames)) # {} /\ Release(Last(frames))
    <3>1. Release(depth)
      BY <2>1, <2>3
    <3>2. savepoints' \in Seq(Savepoints)
      BY <2>1, <2>3, <3>1, NamedPlace DEF Release
    <3>3. TypeOK'
      BY <2>0, <2>1, <3>1, <3>2 DEF Release, Leave, TypeOK
    <3>4. Alive' => KeepsLevels(depth')
      BY <2>1, <2>2, <3>1, ReleaseKeepsLevels DEF Alive
    <3> QED
      BY <2>1, <3>3, <3>4, Nesting DEF KeepsLevels
  <2>4. CASE UNCHANGED server
    <3>1. TypeOK'
      BY <2>0, <2>1, <2>4 DEF Leave, server, TypeOK
    <3>2. Alive' => KeepsLevels(depth')
      BY <2>1, <2>2, <2>4, UntouchedKeepLevels DEF server, Alive
    <3> QED
      BY <2>1, <3>1, <3>2, Nesting DEF KeepsLevels
  <2> QED
    BY <1>10, <2>3, <2>4 DEF NestedReturns
<1>11. CASE NestedFails
  <2>0. PICK result \in {"error", "panicked"} : Leave(result)
    BY <1>11 DEF NestedFails
  <2>1. /\ Last(frames) = depth /\ depth \in 1..MaxDepth
        /\ depth' = depth - 1 /\ depth' \in 0..MaxDepth /\ depth' \in Nat
        /\ frames' \in Seq(1..MaxDepth) /\ Len(frames') = depth'
        /\ \A i \in 1..depth' : frames'[i] = i
    BY <1>11, <2>0, LeaveFrames DEF NestedFails, Bounded
  <2>2. running' /\ UNCHANGED <<alone, lost>> /\ running
    BY <1>11, <2>0 DEF NestedFails, RollbackTo, Leave, server
  <2>3. CASE Named(Last(frames)) # {} /\ RollbackTo(Last(frames))
    <3>1. RollbackTo(depth)
      BY <2>1, <2>3
    <3>2. savepoints' \in Seq(Savepoints) /\ work' \subseteq Works
      BY <2>1, <2>3, <3>1, NamedPlace DEF RollbackTo
    <3>3. TypeOK'
      BY <2>0, <2>1, <3>1, <3>2 DEF RollbackTo, Leave, TypeOK
    <3>4. Alive' => KeepsLevels(depth')
      BY <2>1, <2>2, <3>1, RollbackKeepsLevels DEF Alive
    <3> QED
      BY <2>1, <3>3, <3>4, Nesting DEF KeepsLevels
  <2>4. CASE UNCHANGED server
    <3>1. TypeOK'
      BY <2>0, <2>1, <2>4 DEF Leave, server, TypeOK
    <3>2. Alive' => KeepsLevels(depth')
      BY <2>1, <2>2, <2>4, UntouchedKeepLevels DEF server, Alive
    <3> QED
      BY <2>1, <3>1, <3>2, Nesting DEF KeepsLevels
  <2> QED
    BY <1>11, <2>3, <2>4 DEF NestedFails
<1>13. CASE Expire
  <2>1. LevelsNest'
    BY <1>13, StillNesting DEF Expire, client, server
  <2> QED
    BY <1>13, <2>1 DEF Expire, client, server, TypeOK
<1>12. CASE UNCHANGED vars
  <2>1. LevelsNest'
    BY <1>12, StillNesting DEF vars, client, server
  <2> QED
    BY <1>12, <2>1 DEF vars, client, server, TypeOK
<1> QED
  BY <1>1, <1>2, <1>3, <1>4, <1>5, <1>6, <1>7, <1>8, <1>9, <1>10, <1>11, <1>12, <1>13 DEF Next

-----------------------------------------------------------------------------
(* The refinement: what the levels of NestedTransactions are, and how every  *)
(* step is one of its steps or none.                                       *)

LevelsIn(before, names, s) == <<before>> \o [i \in DOMAIN names |-> s[NewestIn(s, names[i])].work]

LEMMA LevelsNow ==
  /\ Levels = IF Alive THEN LevelsIn(start, frames, savepoints) ELSE <<>>
  /\ Levels' = IF Alive' THEN LevelsIn(start', frames', savepoints') ELSE <<>>
BY DEF Levels, LevelsIn, Alive, Newest, Named, NewestIn, NamedIn

\* One level for the transaction, with the work before it, and one for each savepoint.
LEMMA LevelsOf ==
  ASSUME NEW names \in Seq(1..MaxDepth), NEW s \in Seq(Savepoints), NestsIn(s, names),
         NEW before \in SUBSET Works
  PROVE  /\ LevelsIn(before, names, s) \in Seq(SUBSET Works)
         /\ Len(LevelsIn(before, names, s)) = Len(names) + 1
         /\ LevelsIn(before, names, s)[1] = before
         /\ \A i \in 1..Len(names) :
              LevelsIn(before, names, s)[i + 1] = s[NewestIn(s, names[i])].work
<1> DEFINE w == [i \in DOMAIN names |-> s[NewestIn(s, names[i])].work]
<1>1. DOMAIN names = 1..Len(names) /\ Len(names) \in Nat
  BY LenProperties
<1>2. ASSUME NEW i \in DOMAIN names PROVE s[NewestIn(s, names[i])].work \in SUBSET Works
  <2>0. IsNewest(s, names[i], NewestIn(s, names[i]))
    BY NewestExists DEF NestsIn
  <2>1. NewestIn(s, names[i]) \in 1..Len(s)
    BY <2>0 DEF IsNewest, NamedIn
  <2>2. s[NewestIn(s, names[i])] \in Savepoints
    BY <2>1, ElementOfSeq
  <2> QED
    BY <2>2 DEF Savepoints
<1>3. w \in Seq(SUBSET Works) /\ Len(w) = Len(names)
      /\ \A i \in 1..Len(names) : w[i] = s[NewestIn(s, names[i])].work
  BY <1>1, <1>2
<1> HIDE DEF w
<1>4. <<before>> \in Seq(SUBSET Works) /\ Len(<<before>>) = 1 /\ <<before>>[1] = before
  OBVIOUS
<1>5. /\ <<before>> \o w \in Seq(SUBSET Works) /\ Len(<<before>> \o w) = 1 + Len(w)
      /\ \A i \in 1..1 + Len(w) : (<<before>> \o w)[i] = IF i <= 1 THEN <<before>>[i] ELSE w[i - 1]
  BY <1>3, <1>4, ConcatProperties
<1>6. LevelsIn(before, names, s) = <<before>> \o w
  BY DEF LevelsIn, w
<1>7. ASSUME NEW i \in 1..Len(names) PROVE (<<before>> \o w)[i + 1] = w[i]
  BY <1>1, <1>3, <1>5
<1>8. (<<before>> \o w)[1] = before
  BY <1>1, <1>3, <1>4, <1>5
<1> QED
  BY <1>1, <1>3, <1>5, <1>6, <1>7, <1>8

\* The levels of a transaction that is under way.
LEMMA LevelsAlive ==
  ASSUME IInv, Alive
  PROVE  /\ Levels \in Seq(SUBSET Works) /\ Len(Levels) = depth + 1 /\ depth \in Nat
         /\ Levels[1] = start
         /\ \A i \in 1..depth : Levels[i + 1] = savepoints[Newest(i)].work
<1>1. /\ frames \in Seq(1..MaxDepth) /\ savepoints \in Seq(Savepoints) /\ start \in SUBSET Works
      /\ NestsIn(savepoints, frames) /\ Len(frames) = depth
      /\ Levels = LevelsIn(start, frames, savepoints)
  BY LevelsNow DEF IInv, TypeOK, LevelsNest, Alive
<1>2. \A i \in 1..depth : frames[i] = i /\ Newest(i) = NewestIn(savepoints, i)
  BY LevelsPlaced, NamedNewest DEF IInv
<1>3. depth \in Nat
  BY DEF IInv, TypeOK
<1>4. /\ Levels \in Seq(SUBSET Works) /\ Len(Levels) = depth + 1 /\ Levels[1] = start
      /\ \A i \in 1..depth : Levels[i + 1] = savepoints[NewestIn(savepoints, frames[i])].work
  BY <1>1, LevelsOf
<1> QED
  BY <1>2, <1>3, <1>4

LEMMA LevelsAliveNext ==
  ASSUME IInv', Alive'
  PROVE  /\ Levels' \in Seq(SUBSET Works) /\ Len(Levels') = depth' + 1 /\ depth' \in Nat
         /\ Levels'[1] = start'
         /\ \A i \in 1..depth' : Levels'[i + 1] = savepoints'[Newest(i)'].work
<1>1. (IInv /\ Alive => /\ Levels \in Seq(SUBSET Works) /\ Len(Levels) = depth + 1 /\ depth \in Nat
                       /\ Levels[1] = start
                       /\ \A i \in 1..depth : Levels[i + 1] = savepoints[Newest(i)].work)'
  BY LevelsAlive, PTL
<1> QED
  BY <1>1

\* Steps that leave the levels of a transaction as they are.
LEMMA SameLevels ==
  ASSUME UNCHANGED <<running, alone, start, frames, savepoints>>
  PROVE  Levels' = Levels
BY LevelsNow DEF Alive

\* The end of a NestedTransaction: the levels without the innermost.
LEMMA FewerLevels ==
  ASSUME IInv, IInv', Alive, Alive', start' = start,
         depth \in 1..MaxDepth, depth' = depth - 1, KeepsLevels(depth')
  PROVE  Len(Levels) > 1 /\ Levels' = SubSeq(Levels, 1, Len(Levels) - 1)
<1> DEFINE outer == SubSeq(Levels, 1, Len(Levels) - 1)
<1>1. /\ Levels \in Seq(SUBSET Works) /\ Len(Levels) = depth + 1 /\ depth \in Nat /\ Levels[1] = start
      /\ \A i \in 1..depth : Levels[i + 1] = savepoints[Newest(i)].work
  BY LevelsAlive
<1>2. /\ Levels' \in Seq(SUBSET Works) /\ Len(Levels') = depth /\ Levels'[1] = start
      /\ \A i \in 1..depth - 1 : Levels'[i + 1] = savepoints'[Newest(i)'].work
  BY <1>1, LevelsAliveNext
<1>3. \A i \in 1..depth : Levels[i] \in SUBSET Works
  BY <1>1, ElementOfSeq
<1>4. outer \in Seq(SUBSET Works) /\ Len(outer) = depth /\ \A i \in 1..depth : outer[i] = Levels[i]
  BY <1>1, <1>3, SubSeqProperties
<1>5. ASSUME NEW i \in 1..depth PROVE Levels'[i] = outer[i]
  <2>1. CASE i = 1
    BY <1>1, <1>2, <1>4, <2>1
  <2>2. CASE i # 1
    <3>1. i - 1 \in 1..depth - 1 /\ i - 1 \in 1..depth /\ i = (i - 1) + 1
      BY <1>1, <2>2
    <3>2. Levels[(i - 1) + 1] = savepoints[Newest(i - 1)].work
      BY <1>1, <3>1
    <3>3. PICK j : j = i - 1
      OBVIOUS
    <3>4. Levels'[j + 1] = savepoints'[Newest(j)'].work /\ savepoints'[Newest(j)'] = savepoints[Newest(j)]
      BY <1>2, <3>1, <3>3 DEF KeepsLevels
    <3> QED
      BY <1>4, <3>1, <3>2, <3>3, <3>4
  <2> QED
    BY <2>1, <2>2
<1> HIDE DEF outer
<1>6. Levels' = outer
  BY <1>1, <1>2, <1>4, <1>5, SeqEqual
<1> QED
  BY <1>1, <1>6 DEF outer

\* The begin of a NestedTransaction: one level more, which would go back to what it saw.
LEMMA OneMoreLevel ==
  ASSUME Bounded, IInv, IInv', Alive, Enter
  PROVE  Levels' = Append(Levels, work)
<1> DEFINE more == Append(Levels, work)
<1>0. PICK n : n = depth + 1
  OBVIOUS
<1>1. /\ Levels \in Seq(SUBSET Works) /\ Len(Levels) = depth + 1 /\ depth \in Nat /\ Levels[1] = start
      /\ \A i \in 1..depth : Levels[i + 1] = savepoints[Newest(i)].work
  BY LevelsAlive
<1>2. Alive' /\ depth' = depth + 1 /\ start' = start
  BY DEF Alive, Enter
<1>3. /\ Levels' \in Seq(SUBSET Works) /\ Len(Levels') = depth + 2 /\ Levels'[1] = start
      /\ \A i \in 1..depth + 1 : Levels'[i + 1] = savepoints'[Newest(i)'].work
  BY <1>1, <1>2, LevelsAliveNext
<1>4. work \in SUBSET Works
  BY DEF IInv, TypeOK
<1>5. /\ more \in Seq(SUBSET Works) /\ Len(more) = depth + 2
      /\ \A i \in 1..depth + 1 : more[i] = Levels[i]
      /\ more[depth + 2] = work
  BY <1>1, <1>4, AppendProperties
<1>6. KeepsLevels(depth) /\ savepoints'[Newest(n)'] = [name |-> n, work |-> work]
  BY <1>0, EnterKeepsLevels DEF IInv, Bounded
<1>7. ASSUME NEW i \in 1..depth + 2 PROVE Levels'[i] = more[i]
  <2>1. CASE i = 1
    BY <1>1, <1>3, <1>5, <2>1
  <2>2. CASE i # 1
    <3>1. PICK j : j = i - 1
      OBVIOUS
    <3>2. j \in 1..depth + 1 /\ i = j + 1
      BY <1>1, <2>2, <3>1
    <3>3. Levels'[j + 1] = savepoints'[Newest(j)'].work
      BY <1>3, <3>2
    <3>4. CASE j = n
      <4>1. i = depth + 2
        BY <1>0, <1>1, <3>2, <3>4
      <4>2. savepoints'[Newest(j)'].work = work
        BY <1>6, <3>4
      <4> QED
        BY <1>5, <3>2, <3>3, <4>1, <4>2
    <3>5. CASE j # n
      <4>1. j \in 1..depth /\ i \in 1..depth + 1
        BY <1>0, <1>1, <3>2, <3>5
      <4>2. savepoints'[Newest(j)'] = savepoints[Newest(j)] /\ Levels[j + 1] = savepoints[Newest(j)].work
        BY <1>1, <1>6, <4>1 DEF KeepsLevels
      <4> QED
        BY <1>5, <3>2, <3>3, <4>1, <4>2
    <3> QED
      BY <3>4, <3>5
  <2> QED
    BY <2>1, <2>2
<1> HIDE DEF more
<1>8. Levels' = more
  BY <1>1, <1>3, <1>5, <1>7, SeqEqual
<1> QED
  BY <1>8 DEF more

\* A client that has not begun maps to the initial state of NestedTransactions.
LEMMA InitRefines == Init => Promise!Init
BY LevelsNow DEF Init, Alive, Promise!Init

\* Every step is one of NestedTransactions or leaves it alone.
LEMMA StepRefines == Bounded /\ IInv /\ [Next]_vars => [Promise!Next]_Promise!vars
<1> SUFFICES ASSUME Bounded, IInv, [Next]_vars, ~alone'
             PROVE  Promise!Promised \/ UNCHANGED Promise!vars
  BY DEF Promise!Next
<1>0. IInv'
  BY NextIInv
<1>a. Next /\ ~Begin => ~alone
  BY DEF Next, Write, StatementFails, DeadlockVictim, Lose, Return, ReturnError, Panics, Enter,
         EnterFails, Expire, NestedReturns, NestedFails, Release, RollbackTo, Leave, server
<1>b. ASSUME Alive
      PROVE  /\ Levels \in Seq(SUBSET Works) /\ Len(Levels) = depth + 1 /\ depth \in Nat
             /\ Levels # <<>> /\ depth = Len(frames)
             /\ \A i \in 1..depth : Levels[i + 1] = savepoints[Newest(i)].work
  <2>1. /\ Levels \in Seq(SUBSET Works) /\ Len(Levels) = depth + 1 /\ depth \in Nat
        /\ \A i \in 1..depth : Levels[i + 1] = savepoints[Newest(i)].work
    BY <1>b, LevelsAlive
  <2>2. Levels # <<>>
    BY <2>1, EmptySeq
  <2> QED
    BY <1>b, <2>1, <2>2 DEF IInv, LevelsNest, Alive
<1>1. CASE Begin
  <2>1. Levels = <<>>
    BY <1>1, LevelsNow DEF Begin, Alive
  <2>2. Alive' /\ depth' = 0 /\ start' = committed
    BY <1>1 DEF Begin, Alive
  <2>3. Levels' \in Seq(SUBSET Works) /\ Len(Levels') = 1 /\ Levels'[1] = committed
    BY <1>0, <2>2, LevelsAliveNext
  <2>4. Levels' = <<committed>>
    BY <2>3
  <2> QED
    BY <1>1, <2>1, <2>4 DEF Begin, Promise!Promised, Promise!Begin
<1>2. ASSUME NEW w \in Works, Write(w) PROVE Promise!Promised
  <2>1. Alive
    BY <1>2 DEF Write, client, Alive
  <2>2. Levels' = Levels
    BY <1>2, SameLevels DEF Write, client
  <2>3. Promise!Work(w)
    BY <1>2, <1>b, <2>1, <2>2 DEF Write, client, Usable, Alive, Promise!Work
  <2> QED
    BY <2>3 DEF Promise!Promised
<1>3. CASE StatementFails
  <2>1. Alive /\ Levels' = Levels
    BY <1>3, SameLevels DEF StatementFails, client, Alive
  <2>2. CASE provider = "postgresql"
    BY <1>3, <1>b, <2>1, <2>2 DEF StatementFails, client, Promise!Promised, Promise!Doom
  <2>3. CASE provider # "postgresql"
    BY <1>3, <2>1, <2>3 DEF StatementFails, client, Usable, Promise!vars
  <2> QED
    BY <2>2, <2>3
<1>4. CASE DeadlockVictim
  BY <1>4 DEF DeadlockVictim
<1>5. CASE Lose
  <2>1. Alive /\ Levels' = Levels
    BY <1>5, SameLevels DEF Lose, client, server, Alive
  <2> QED
    BY <1>5, <1>b, <2>1 DEF Lose, client, server, Promise!Promised, Promise!Doom
<1>6. CASE Return
  <2>1. Alive /\ Levels' = <<>> /\ Len(Levels) = 1
    BY <1>6, <1>b, EmptySeq, LevelsNow DEF Return, Finish, Alive
  <2>2. CASE outcome' = "ok"
    BY <1>6, <2>1, <2>2 DEF Return, Finish, Usable, Alive, Promise!Promised, Promise!Commit
  <2>3. CASE outcome' # "ok"
    BY <1>6, <2>1, <2>3 DEF Return, Finish, Usable, Alive, Promise!Promised, Promise!CommitFails
  <2> QED
    BY <2>2, <2>3
<1>7. CASE ReturnError \/ Panics
  <2>0. Alive /\ ~Alive' /\ frames = <<>>
    BY <1>7 DEF ReturnError, Panics, Finish, server, Alive
  <2>1. Levels' = <<>> /\ Len(Levels) = 1
    BY <1>b, <2>0, EmptySeq, LevelsNow
  <2> QED
    BY <1>7, <2>0, <2>1 DEF ReturnError, Panics, Finish, server, Promise!Promised, Promise!Abort
<1>8. CASE Enter
  <2>1. Alive
    BY <1>8 DEF Enter, Alive
  <2>2. Levels' = Append(Levels, work)
    BY <1>0, <1>8, <2>1, OneMoreLevel
  <2> QED
    BY <1>8, <1>b, <2>1, <2>2 DEF Enter, Usable, Alive, Promise!Promised, Promise!Open
<1>9. CASE EnterFails
  <2>1. Levels' = Levels
    BY <1>9, SameLevels DEF EnterFails, server
  <2> QED
    BY <1>9, <2>1 DEF EnterFails, server, Promise!vars
<1>10. CASE NestedReturns
  <2>0. PICK result \in {"ok", "error"} : Leave(result)
    BY <1>10 DEF NestedReturns
  <2>1. /\ Last(frames) = depth /\ depth \in 1..MaxDepth
        /\ depth' = depth - 1 /\ depth - 1 \in 0..depth
    BY <1>10, <2>0, LeaveFrames DEF NestedReturns, Bounded
  <2>2. Alive /\ Alive' /\ start' = start /\ UNCHANGED <<lost, running>>
    BY <1>10, <2>0 DEF NestedReturns, Release, Leave, server, Alive
  <2>3. Named(Last(frames)) # {}
    BY <2>1, <2>2, LevelsPlaced DEF IInv, IsNewest, NamedIn, Named
  <2>4. CASE Usable /\ Release(depth) /\ Leave(IF expired THEN "error" ELSE "ok")
    <3>1. Release(depth)
      BY <2>4
    <3>2. KeepsLevels(depth')
      BY <2>1, <2>2, <3>1, ReleaseKeepsLevels
    <3>3. Len(Levels) > 1 /\ Levels' = SubSeq(Levels, 1, Len(Levels) - 1)
      BY <1>0, <2>1, <2>2, <3>2, FewerLevels
    <3>4. CASE ~expired
      <4>1. Promise!Keep
        BY <2>2, <2>4, <3>3, <3>4
        DEF Release, Leave, Usable, Alive, Promise!Keep, Promise!Outer
      <4> QED
        BY <4>1 DEF Promise!Promised
    <3>5. CASE expired
      <4>1. Promise!GiveUp
        BY <2>2, <2>4, <3>3, <3>5
        DEF Release, Leave, Usable, Alive, Promise!GiveUp, Promise!Outer
      <4> QED
        BY <4>1 DEF Promise!Promised
    <3> QED
      BY <3>4, <3>5
  <2>5. CASE (~Usable \/ expired) /\ UNCHANGED server /\ Leave("error")
    <3>1. UNCHANGED server /\ Leave("error")
      BY <2>5
    <3>2. KeepsLevels(depth')
      BY <2>1, <2>2, <3>1, UntouchedKeepLevels DEF IInv, server
    <3>3. Len(Levels) > 1 /\ Levels' = SubSeq(Levels, 1, Len(Levels) - 1)
      BY <1>0, <2>1, <2>2, <3>2, FewerLevels
    <3>4. Promise!GiveUp
      BY <2>2, <2>5, <3>1, <3>3
      DEF Leave, server, Usable, Alive, Promise!GiveUp, Promise!Outer
    <3> QED
      BY <3>4 DEF Promise!Promised
  <2> QED
    BY <1>10, <2>1, <2>3, <2>4, <2>5 DEF NestedReturns
<1>11. CASE NestedFails
  <2>0. PICK result \in {"error", "panicked"} : Leave(result)
    BY <1>11 DEF NestedFails
  <2>1. /\ Last(frames) = depth /\ depth \in 1..MaxDepth
        /\ depth' = depth - 1 /\ depth - 1 \in 0..depth
    BY <1>11, <2>0, LeaveFrames DEF NestedFails, Bounded
  <2>2. Alive /\ Alive' /\ start' = start /\ UNCHANGED <<lost, running>>
    BY <1>11, <2>0 DEF NestedFails, RollbackTo, Leave, server, Alive
  <2>3. Named(Last(frames)) # {}
    BY <2>1, <2>2, LevelsPlaced DEF IInv, IsNewest, NamedIn, Named
  <2>4. CASE ~lost /\ RollbackTo(depth)
    <3>1. RollbackTo(depth)
      BY <2>4
    <3>2. KeepsLevels(depth')
      BY <2>1, <2>2, <3>1, RollbackKeepsLevels
    <3>3. Len(Levels) > 1 /\ Levels' = SubSeq(Levels, 1, Len(Levels) - 1)
      BY <1>0, <2>1, <2>2, <3>2, FewerLevels
    <3>4. Levels[Len(Levels)] = savepoints[Newest(depth)].work
      BY <1>b, <2>1, <2>2
    <3>5. Promise!Undo
      BY <2>0, <2>2, <2>4, <3>1, <3>3, <3>4
      DEF RollbackTo, Leave, Alive, Promise!Undo, Promise!Outer, Promise!Innermost
    <3> QED
      BY <3>5 DEF Promise!Promised
  <2>5. CASE (lost \/ expired) /\ UNCHANGED server
    <3>1. UNCHANGED server
      BY <2>5
    <3>2. KeepsLevels(depth')
      BY <2>1, <2>2, <3>1, UntouchedKeepLevels DEF IInv, server
    <3>3. Len(Levels) > 1 /\ Levels' = SubSeq(Levels, 1, Len(Levels) - 1)
      BY <1>0, <2>1, <2>2, <3>2, FewerLevels
    <3>4. Promise!GiveUp
      BY <2>0, <2>2, <2>5, <3>1, <3>3
      DEF Leave, server, Alive, Promise!GiveUp, Promise!Outer
    <3> QED
      BY <3>4 DEF Promise!Promised
  <2> QED
    BY <1>11, <2>1, <2>3, <2>4, <2>5 DEF NestedFails
<1>13. CASE Expire
  <2>1. Levels' = Levels
    BY <1>13, SameLevels DEF Expire, client, server
  <2> QED
    BY <1>13, <2>1 DEF Expire, client, server, Promise!Promised, Promise!Expire
<1>12. CASE UNCHANGED vars
  <2>1. Levels' = Levels
    BY <1>12, SameLevels DEF vars, client, server
  <2> QED
    BY <1>12, <2>1 DEF vars, client, server, Promise!vars
<1> QED
  BY <1>1, <1>2, <1>3, <1>4, <1>5, <1>6, <1>7, <1>8, <1>9, <1>10, <1>11, <1>12, <1>13 DEF Next

-----------------------------------------------------------------------------
(* Theorems.                                                               *)

LEMMA Invariant ==
  ASSUME Bounded
  PROVE  Spec => []IInv
<1>1. Init => IInv
  BY InitIInv
<1>2. IInv /\ [Next]_vars => IInv'
  BY NextIInv
<1> QED
  BY <1>1, <1>2, PTL DEF Spec

\* Type correctness.
THEOREM TypeCorrect ==
  ASSUME Bounded
  PROVE  Spec => []TypeOK
<1>1. IInv => TypeOK
  BY DEF IInv
<1> QED
  BY <1>1, Invariant, PTL

\* Tx.depth and the savepoints: whatever fails, panics or is caught on the way, every open
\* NestedTransaction of a reachable database has a savepoint of its name, and those of the
\* levels within are younger.
THEOREM LevelsHaveSavepoints ==
  ASSUME Bounded
  PROVE  Spec => []SavepointsNest
<1>1. IInv => SavepointsNest
  BY NamedNewest DEF IInv, LevelsNest, NestsIn, SavepointsNest
<1> QED
  BY <1>1, Invariant, PTL

\* TransactionWithTxAndOptions and NestedTransaction keep what NestedTransactions promises:
\* the work of a level that failed is undone, by it or with a level around it, unless the
\* context of its own was over before it ended; the rest is committed together or not at
\* all.
THEOREM LevelsAreKept ==
  ASSUME Bounded
  PROVE  Spec => ImplementsNesting
<1>1. Init => Promise!Init
  BY InitRefines
<1>2. IInv /\ [Next]_vars => [Promise!Next]_Promise!vars
  BY StepRefines
<1> QED
  BY <1>1, <1>2, Invariant, PTL DEF Spec, ImplementsNesting, Promise!Spec
=============================================================================
