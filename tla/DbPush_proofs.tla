---------------------------- MODULE DbPush_proofs ----------------------------
(***************************************************************************)
(* For any databases, schemas, catalogs, processes and orders in which a   *)
(* differ visits what it compares: that a push or a migration drops no     *)
(* table and no column that its own schema has, nor the history table,     *)
(* whatever other processes have done since it read the catalog; and, in   *)
(* the second half, that it reports success only of a database that has    *)
(* its schema.                                                             *)
(***************************************************************************)
EXTENDS DbPush, FiniteSetTheorems, SequenceTheorems, WellFoundedInduction, TLAPS

-----------------------------------------------------------------------------
(* Induction over numbers, with a set in the place of a predicate.         *)

LEMMA UpTo ==
  ASSUME NEW n \in Nat, NEW S, 0 \in S, \A k \in 0..n : k \in S /\ k < n => k + 1 \in S
  PROVE  \A k \in 0..n : k \in S
<1> DEFINE T == (0..n) \ S
           R == OpToRel(<, Nat)
<1> SUFFICES ASSUME T # {} PROVE FALSE
  OBVIOUS
<1>1. T \in SUBSET Nat
  OBVIOUS
<1>2. IsWellFoundedOn(R, Nat)
  BY NatLessThanWellFounded
<1>3. \A x, y \in Nat : x < y => <<x, y>> \in R
  BY DEF OpToRel
<1>4. PICK m \in T : \A k \in T : ~(<<k, m>> \in R)
  <2> HIDE DEF T, R
  <2> QED
    BY <1>1, <1>2, WFMin
<1>5. m # 0 /\ m \in 0..n /\ m \notin S
  OBVIOUS
<1>6. m - 1 \in 0..n /\ m - 1 \in Nat /\ m \in Nat /\ m - 1 < m /\ m - 1 < n /\ (m - 1) + 1 = m
  BY <1>5
<1>7. m - 1 \notin T
  <2> HIDE DEF R
  <2> QED
    BY <1>3, <1>4, <1>6
<1> QED
  BY <1>5, <1>6, <1>7

\* The greatest of some numbers.
LEMMA Greatest ==
  ASSUME NEW n \in Nat, NEW S \in SUBSET (1..n), S # {}
  PROVE  Max(S) \in S /\ \A k \in S : k <= Max(S)
<1> DEFINE T == {n - k : k \in S}
           R == OpToRel(<, Nat)
<1>0. \A k \in S : n - k \in Nat
  OBVIOUS
<1>1. T \in SUBSET Nat /\ T # {}
  BY <1>0
<1>2. IsWellFoundedOn(R, Nat)
  BY NatLessThanWellFounded
<1>3. \A x, y \in Nat : x < y => <<x, y>> \in R
  BY DEF OpToRel
<1>4. PICK m \in T : \A k \in T : ~(<<k, m>> \in R)
  <2> HIDE DEF T, R
  <2> QED
    BY <1>1, <1>2, WFMin
<1>5. \A k \in T : ~(k < m)
  <2> HIDE DEF T, R
  <2> QED
    BY <1>1, <1>3, <1>4
<1>6. PICK i \in S : m = n - i
  BY <1>5
<1>7. \A k \in S : i >= k
  BY <1>5, <1>6
<1>8. \E x \in S : \A y \in S : x >= y
  BY <1>7
<1>9. Max(S) \in S /\ \A y \in S : Max(S) >= y
  BY <1>8 DEF Max
<1> QED
  BY <1>9

-----------------------------------------------------------------------------
(* Sequences and orders.                                                   *)

\* What FlattenSeq computes for the first members of a sequence.
Flattens(flat, seqs, n) ==
  flat = [i \in 1..n |-> IF i = 1 THEN seqs[i] ELSE flat[i - 1] \o seqs[i]]

LEMMA FlattenExists ==
  ASSUME NEW seqs, NEW n \in Nat
  PROVE  \E flat : Flattens(flat, seqs, n)
<1> DEFINE S == {k \in 0..n : \E flat : Flattens(flat, seqs, k)}
<1>1. 0 \in S
  <2>1. Flattens([i \in 1..0 |-> 0], seqs, 0)
    BY DEF Flattens
  <2> QED
    BY <2>1
<1>2. ASSUME NEW k \in 0..n, k \in S, k < n PROVE k + 1 \in S
  <2> PICK flat : Flattens(flat, seqs, k)
    BY <1>2
  <2> DEFINE more == [i \in 1..(k + 1) |->
                        IF i <= k THEN flat[i] ELSE IF i = 1 THEN seqs[i] ELSE flat[k] \o seqs[i]]
             other == [i \in 1..(k + 1) |-> IF i = 1 THEN seqs[i] ELSE more[i - 1] \o seqs[i]]
  <2>0. k \in Nat /\ k + 1 \in 0..n
    BY <1>2
  <2>1. ASSUME NEW i \in 1..(k + 1) PROVE more[i] = other[i]
    <3>1. CASE i \in 1..k
      <4>1. more[i] = flat[i] /\ (i # 1 => more[i - 1] = flat[i - 1])
        BY <3>1, <2>0
      <4>2. flat[i] = IF i = 1 THEN seqs[i] ELSE flat[i - 1] \o seqs[i]
        BY <3>1 DEF Flattens
      <4> QED
        BY <4>1, <4>2
    <3>2. CASE i \notin 1..k
      <4>1. i = k + 1 /\ ~(i <= k) /\ i - 1 = k
        BY <3>2, <2>0
      <4>2. i # 1 => k \in 1..(k + 1) /\ k <= k
        BY <4>1, <2>0
      <4>3. i # 1 => more[i - 1] = flat[k]
        BY <4>1, <4>2
      <4> QED
        BY <4>1, <4>3
    <3> QED
      BY <3>1, <3>2
  <2>2. more = other
    BY <2>1
  <2>3. Flattens(more, seqs, k + 1)
    BY <2>2 DEF Flattens
  <2> QED
    BY <2>0, <2>3
<1>3. n \in S
  <2> HIDE DEF S
  <2> QED
    BY <1>1, <1>2, UpTo
<1> QED
  BY <1>3

\* Sequences over a set, one after the other, are a sequence over it.
LEMMA Flattened ==
  ASSUME NEW S, NEW n \in Nat, NEW seqs \in [1..n -> Seq(S)]
  PROVE  FlattenSeq(seqs) \in Seq(S)
<1>1. Len(seqs) = n /\ seqs \in Seq(Seq(S))
  BY IsASeq
<1>2. CASE n = 0
  BY <1>1, <1>2 DEF FlattenSeq
<1>3. CASE n # 0
  <2> DEFINE flat == CHOOSE f : Flattens(f, seqs, n)
             G == {k \in 0..n : k # 0 => flat[k] \in Seq(S)}
  <2>1. Flattens(flat, seqs, n)
    BY FlattenExists
  <2>2. FlattenSeq(seqs) = flat[n]
    BY <1>1, <1>3 DEF FlattenSeq, Flattens
  <2> HIDE DEF flat
  <2>3. 0 \in G
    OBVIOUS
  <2>4. ASSUME NEW k \in 0..n, k \in G, k < n PROVE k + 1 \in G
    <3>1. k + 1 \in 1..n /\ k + 1 \in 0..n /\ (k + 1) - 1 = k /\ (k + 1 = 1 <=> k = 0)
      BY <2>4
    <3>2. flat[k + 1] = IF k = 0 THEN seqs[k + 1] ELSE flat[k] \o seqs[k + 1]
      BY <2>1, <3>1 DEF Flattens
    <3>3. seqs[k + 1] \in Seq(S)
      BY <3>1
    <3>4. k # 0 => flat[k] \o seqs[k + 1] \in Seq(S)
      BY <2>4, <3>3, ConcatProperties
    <3> QED
      BY <3>1, <3>2, <3>3, <3>4
  <2>5. n \in G
    <3> HIDE DEF G
    <3>1. \A k \in 0..n : k \in G
      BY <2>3, <2>4, UpTo
    <3> QED
      BY <3>1
  <2> QED
    BY <2>2, <2>5, <1>3
<1> QED
  BY <1>2, <1>3

\* Whatever order a finite set is visited in, it is a sequence over it.
LEMMA Ordered ==
  ASSUME NEW S, IsFiniteSet(S)
  PROVE  SetToSeq(S) \in Seq(S) /\ Orders(S) \subseteq Seq(S)
<1>1. Cardinality(S) \in Nat /\ ExistsBijection(1..Cardinality(S), S)
  BY FS_CardinalityType
<1>2. PICK b : b \in Bijection(1..Cardinality(S), S)
  BY <1>1 DEF ExistsBijection
<1>3. b \in [1..Cardinality(S) -> S] /\ IsInjective(b)
  BY <1>2 DEF Bijection, Injection, IsInjective
<1>4. SetToSeq(S) \in [1..Cardinality(S) -> S]
  BY <1>3 DEF SetToSeq
<1>5. [1..Cardinality(S) -> S] \subseteq Seq(S)
  BY <1>1, IsASeq
<1> QED
  BY <1>4, <1>5 DEF Orders, SetToSeqs

-----------------------------------------------------------------------------
(* What the statements do to a catalog.                                    *)

GoodCatalog(cat) ==
  IsFiniteSet(DOMAIN cat) /\ \A t \in DOMAIN cat : IsTable(cat[t]) /\ KeysAreColumns(cat[t])

Ops == {"createTable", "dropTable", "addColumn", "dropColumn", "setType", "setNullable", "setDefault",
        "modifyColumn", "createIndex", "dropIndex", "renameIndex", "comment", "invalid"}

\* A statement that a generator writes: a new table has the columns of its key.
WellFormed(s) ==
  /\ s.op \in Ops
  /\ s.op = "createTable" => IsFiniteSet(DOMAIN s.cols) /\ ToSet(s.pk) \subseteq DOMAIN s.cols

\* A statement drops nothing that the target has, nor the history table.
Spares(s, target) ==
  /\ s.op = "dropTable" => s.table \notin DOMAIN target \cup {"_prisma_migrations"}
  /\ s.op = "dropColumn" /\ s.table \in DOMAIN target => s.column \notin DOMAIN target[s.table].cols

\* What the target has of the one catalog is in the other.
Keeps(before, after, target) ==
  \A t \in DOMAIN before \cap (DOMAIN target \cup {"_prisma_migrations"}) :
    /\ t \in DOMAIN after
    /\ t \in DOMAIN target => DOMAIN before[t].cols \cap DOMAIN target[t].cols \subseteq DOMAIN after[t].cols

LEMMA KeepsTransitive ==
  ASSUME NEW a, NEW b, NEW c, NEW target, Keeps(a, b, target), Keeps(b, c, target)
  PROVE  Keeps(a, c, target)
BY DEF Keeps

\* A column, an index or a table more: still finitely many.
LEMMA OneMore ==
  ASSUME NEW f, NEW x, NEW y, IsFiniteSet(DOMAIN f)
  PROVE  /\ DOMAIN With(f, x, y) = DOMAIN f \cup {x} /\ IsFiniteSet(DOMAIN With(f, x, y))
BY FS_AddElement DEF With

LEMMA SomeLess ==
  ASSUME NEW f, NEW names, IsFiniteSet(DOMAIN f)
  PROVE  /\ DOMAIN Without(f, names) = DOMAIN f \ names /\ IsFiniteSet(DOMAIN Without(f, names))
         /\ \A x \in DOMAIN f \ names : Without(f, names)[x] = f[x]
<1>1. DOMAIN f \ names \in SUBSET (DOMAIN f)
  OBVIOUS
<1> QED
  BY <1>1, FS_Subset DEF Without

\* The parts of a table that is made of four others.
LEMMA MadeOf ==
  ASSUME NEW cols, NEW pk, NEW idxs, NEW fks,
         IsFiniteSet(DOMAIN cols), IsFiniteSet(DOMAIN idxs), IsFiniteSet(fks)
  PROVE  IsTable([cols |-> cols, pk |-> pk, idxs |-> idxs, fks |-> fks])
BY DEF IsTable

\* One table changes, and keeps the columns that the target has.
LEMMA TableChanged ==
  ASSUME NEW cat, GoodCatalog(cat), NEW t \in DOMAIN cat, NEW u, IsTable(u), KeysAreColumns(u), NEW target,
         NEW spared, spared => (t \in DOMAIN target =>
                                  DOMAIN cat[t].cols \cap DOMAIN target[t].cols \subseteq DOMAIN u.cols)
  PROVE  GoodCatalog([cat EXCEPT ![t] = u]) /\ (spared => Keeps(cat, [cat EXCEPT ![t] = u], target))
<1> DEFINE after == [cat EXCEPT ![t] = u]
<1>1. DOMAIN after = DOMAIN cat /\ \A v \in DOMAIN cat : after[v] = IF v = t THEN u ELSE cat[v]
  OBVIOUS
<1> HIDE DEF after
<1> QED
  BY <1>1 DEF GoodCatalog, Keeps

\* Only the definition of a column changes.
LEMMA ColumnChanged ==
  ASSUME NEW cat, GoodCatalog(cat), NEW t \in DOMAIN cat, NEW c, NEW target, NEW def
  PROVE  /\ GoodCatalog([cat EXCEPT ![t].cols[c] = def])
         /\ Keeps(cat, [cat EXCEPT ![t].cols[c] = def], target)
<1> DEFINE u == [cols |-> [cat[t].cols EXCEPT ![c] = def], pk |-> cat[t].pk, idxs |-> cat[t].idxs, fks |-> cat[t].fks]
<1>0. IsTable(cat[t]) /\ KeysAreColumns(cat[t])
  BY DEF GoodCatalog
<1>1. [cat[t] EXCEPT !.cols = [cat[t].cols EXCEPT ![c] = def]] = u
  BY <1>0 DEF IsTable
<1>2. [cat EXCEPT ![t].cols[c] = def] = [cat EXCEPT ![t] = u]
  BY <1>1
<1>3. DOMAIN u.cols = DOMAIN cat[t].cols /\ IsTable(u) /\ KeysAreColumns(u)
  BY <1>0 DEF IsTable, KeysAreColumns
<1> HIDE DEF u
<1> QED
  BY <1>2, <1>3, TableChanged

LEMMA CreatingTable ==
  ASSUME NEW prov, NEW cat, GoodCatalog(cat), NEW s, WellFormed(s), s.op = "createTable", NEW target,
         CanCreateTable(prov, cat, s)
  PROVE  LET after == With(cat, s.table, NewTable(prov, s)) IN GoodCatalog(after) /\ Keeps(cat, after, target)
<1> DEFINE cols == [c \in DOMAIN s.cols |-> Stored(prov, s.cols[c])]
           idxs == AutoIndex(prov, s)
           table == [cols |-> cols, pk |-> s.pk, idxs |-> idxs, fks |-> {}]
<1>0. IsFiniteSet(DOMAIN s.cols) /\ ToSet(s.pk) \subseteq DOMAIN s.cols
  BY DEF WellFormed
<1>1. IsFiniteSet(DOMAIN idxs) /\ \A i \in DOMAIN idxs : idxs[i].cols = s.pk
  <2>1. IsFiniteSet(DOMAIN <<>>) /\ DOMAIN <<>> = {}
    <3>1. DOMAIN <<>> = {}
      OBVIOUS
    <3> QED
      BY <3>1, FS_EmptySet
  <2> DEFINE none == <<>>
             name == <<"sqlite_autoindex", s.table>>
             index == [cols |-> s.pk, unique |-> TRUE]
             one == With(none, name, index)
  <2>2. idxs = one \/ idxs = none
    BY DEF AutoIndex
  <2>3. index.cols = s.pk
    OBVIOUS
  <2>4. IsFiniteSet(DOMAIN none) /\ DOMAIN none = {}
    BY <2>1
  <2> HIDE DEF none, name, index
  <2>5. /\ DOMAIN one = {name} /\ IsFiniteSet(DOMAIN one)
        /\ one[name] = index
    <3>1. DOMAIN one = {name} /\ one[name] = index
      BY <2>4 DEF With
    <3> QED
      BY <3>1, FS_Singleton
  <2> HIDE DEF one, idxs
  <2> QED
    BY <2>2, <2>3, <2>4, <2>5
<1>2. table = NewTable(prov, s)
  BY DEF NewTable
<1>3. DOMAIN cols = DOMAIN s.cols
  OBVIOUS
<1> HIDE DEF cols, idxs
<1>4. IsTable(table)
  BY <1>0, <1>1, <1>3, FS_EmptySet, MadeOf
<1>5. KeysAreColumns(table)
  BY <1>0, <1>1, <1>3 DEF KeysAreColumns
<1> HIDE DEF table
<1> DEFINE after == With(cat, s.table, table)
<1>6. s.table \notin DOMAIN cat
  BY DEF CanCreateTable
<1>7. /\ DOMAIN after = DOMAIN cat \cup {s.table} /\ IsFiniteSet(DOMAIN after)
      /\ after[s.table] = table
      /\ \A z \in DOMAIN cat \ {s.table} : after[z] = cat[z]
  <2>1. IsFiniteSet(DOMAIN cat)
    BY DEF GoodCatalog
  <2>2. DOMAIN after = DOMAIN cat \cup {s.table} /\ IsFiniteSet(DOMAIN after)
    BY <2>1, OneMore
  <2> QED
    BY <2>2 DEF With
<1> HIDE DEF after
<1>8. GoodCatalog(after) /\ Keeps(cat, after, target)
  BY <1>4, <1>5, <1>6, <1>7 DEF GoodCatalog, Keeps
<1> QED
  BY <1>2, <1>8 DEF after

LEMMA DroppingTable ==
  ASSUME NEW cat, GoodCatalog(cat), NEW s, s.op = "dropTable", NEW target
  PROVE  GoodCatalog(DroppedTable(cat, s)) /\ (Spares(s, target) => Keeps(cat, DroppedTable(cat, s), target))
<1> DEFINE fks(u) == {fk \in cat[u].fks : s.cascade => fk.table # s.table}
           after == DroppedTable(cat, s)
<1>1. DOMAIN after = DOMAIN cat \ {s.table}
  BY DEF DroppedTable
<1>2. ASSUME NEW u \in DOMAIN after
      PROVE  IsTable(after[u]) /\ KeysAreColumns(after[u]) /\ after[u].cols = cat[u].cols
  <2>1. u \in DOMAIN cat /\ IsTable(cat[u]) /\ KeysAreColumns(cat[u])
    BY <1>1, <1>2 DEF GoodCatalog
  <2>2. after[u] = [cat[u] EXCEPT !.fks = fks(u)]
    BY <1>1, <1>2 DEF DroppedTable
  <2>3. IsFiniteSet(fks(u))
    <3>1. fks(u) \in SUBSET cat[u].fks
      OBVIOUS
    <3> QED
      BY <2>1, <3>1, FS_Subset DEF IsTable
  <2> HIDE DEF fks
  <2>4. after[u] = [cols |-> cat[u].cols, pk |-> cat[u].pk, idxs |-> cat[u].idxs, fks |-> fks(u)]
    BY <2>1, <2>2 DEF IsTable
  <2> QED
    BY <2>1, <2>3, <2>4, MadeOf DEF IsTable, KeysAreColumns
<1>3. IsFiniteSet(DOMAIN after)
  <2>1. DOMAIN after \in SUBSET (DOMAIN cat)
    BY <1>1
  <2> QED
    BY <2>1, FS_Subset DEF GoodCatalog
<1> HIDE DEF after
<1>4. GoodCatalog(after)
  BY <1>2, <1>3 DEF GoodCatalog
<1>5. Spares(s, target) => Keeps(cat, after, target)
  BY <1>1, <1>2 DEF Spares, Keeps
<1> QED
  BY <1>4, <1>5 DEF after

LEMMA AddingColumn ==
  ASSUME NEW prov, NEW cat, GoodCatalog(cat), NEW t \in DOMAIN cat, NEW c, NEW def, NEW target,
         c \notin DOMAIN cat[t].cols
  PROVE  LET after == [cat EXCEPT ![t].cols = With(@, c, def)] IN GoodCatalog(after) /\ Keeps(cat, after, target)
<1>0. IsTable(cat[t]) /\ KeysAreColumns(cat[t])
  BY DEF GoodCatalog
<1> DEFINE cols == With(cat[t].cols, c, def)
           u == [cols |-> cols, pk |-> cat[t].pk, idxs |-> cat[t].idxs, fks |-> cat[t].fks]
<1>1. DOMAIN cols = DOMAIN cat[t].cols \cup {c} /\ IsFiniteSet(DOMAIN cols)
  BY <1>0, OneMore DEF IsTable
<1>2. [cat EXCEPT ![t].cols = With(@, c, def)] = [cat EXCEPT ![t] = u]
  <2>1. [cat[t] EXCEPT !.cols = cols] = u
    BY <1>0 DEF IsTable
  <2> QED
    BY <2>1
<1> HIDE DEF cols
<1>3. IsTable(u) /\ KeysAreColumns(u)
  BY <1>0, <1>1, MadeOf DEF IsTable, KeysAreColumns
<1>4. DOMAIN cat[t].cols \subseteq DOMAIN u.cols
  BY <1>1
<1> HIDE DEF u
<1> QED
  BY <1>2, <1>3, <1>4, TableChanged

LEMMA DroppingColumn ==
  ASSUME NEW cat, GoodCatalog(cat), NEW s, s.op = "dropColumn", s.table \in DOMAIN cat, NEW target
  PROVE  LET after == [cat EXCEPT ![s.table] = DroppedColumn(@, s.column)]
         IN  GoodCatalog(after) /\ (Spares(s, target) => Keeps(cat, after, target))
<1> DEFINE t == cat[s.table]
           c == s.column
           cols == Without(t.cols, {c})
           pk == IF c \in ToSet(t.pk) THEN <<>> ELSE t.pk
           idxs == Without(t.idxs, {i \in DOMAIN t.idxs : c \in ToSet(t.idxs[i].cols)})
           fks == {fk \in t.fks : fk.column # c}
           u == [cols |-> cols, pk |-> pk, idxs |-> idxs, fks |-> fks]
<1>0. IsTable(t) /\ KeysAreColumns(t)
  BY DEF GoodCatalog
<1>1. DroppedColumn(t, c) = u
  BY DEF DroppedColumn
<1>2. DOMAIN cols = DOMAIN t.cols \ {c} /\ IsFiniteSet(DOMAIN cols)
  BY <1>0, SomeLess DEF IsTable
<1>3. /\ DOMAIN idxs = {i \in DOMAIN t.idxs : c \notin ToSet(t.idxs[i].cols)} /\ IsFiniteSet(DOMAIN idxs)
      /\ \A i \in DOMAIN idxs : idxs[i] = t.idxs[i]
  <2> DEFINE gone == {i \in DOMAIN t.idxs : c \in ToSet(t.idxs[i].cols)}
  <2>1. DOMAIN t.idxs \ gone = {i \in DOMAIN t.idxs : c \notin ToSet(t.idxs[i].cols)}
    OBVIOUS
  <2>2. IsFiniteSet(DOMAIN t.idxs)
    BY <1>0 DEF IsTable
  <2> HIDE DEF gone
  <2>3. /\ DOMAIN Without(t.idxs, gone) = DOMAIN t.idxs \ gone /\ IsFiniteSet(DOMAIN Without(t.idxs, gone))
        /\ \A x \in DOMAIN t.idxs \ gone : Without(t.idxs, gone)[x] = t.idxs[x]
    BY <2>2, SomeLess
  <2>4. idxs = Without(t.idxs, gone)
    BY DEF gone
  <2> HIDE DEF idxs
  <2> QED
    BY <2>1, <2>3, <2>4
<1>4. IsFiniteSet(fks)
  <2>1. fks \in SUBSET t.fks
    OBVIOUS
  <2> QED
    BY <1>0, <2>1, FS_Subset DEF IsTable
<1>5. ToSet(pk) \subseteq DOMAIN t.cols \ {c}
  <2>1. ToSet(<<>>) = {}
    BY DEF ToSet
  <2> QED
    BY <1>0, <2>1 DEF KeysAreColumns
<1> HIDE DEF cols, pk, idxs, fks
<1>6. IsTable(u) /\ KeysAreColumns(u)
  BY <1>0, <1>2, <1>3, <1>4, <1>5, MadeOf DEF KeysAreColumns
<1>7. Spares(s, target) =>
        (s.table \in DOMAIN target => DOMAIN t.cols \cap DOMAIN target[s.table].cols \subseteq DOMAIN u.cols)
  BY <1>2 DEF Spares
<1> HIDE DEF u
<1> QED
  BY <1>1, <1>6, <1>7, TableChanged

\* Other indexes on a table.
LEMMA Reindexed ==
  ASSUME NEW t, IsTable(t), KeysAreColumns(t), NEW idxs, IsFiniteSet(DOMAIN idxs),
         \A i \in DOMAIN idxs : ToSet(idxs[i].cols) \subseteq DOMAIN t.cols
  PROVE  LET u == [t EXCEPT !.idxs = idxs] IN IsTable(u) /\ KeysAreColumns(u) /\ u.cols = t.cols
<1> DEFINE u == [cols |-> t.cols, pk |-> t.pk, idxs |-> idxs, fks |-> t.fks]
<1>1. [t EXCEPT !.idxs = idxs] = u
  BY DEF IsTable
<1>2. IsTable(u) /\ KeysAreColumns(u) /\ u.cols = t.cols
  BY MadeOf DEF IsTable, KeysAreColumns
<1> QED
  BY <1>1, <1>2

LEMMA TablesReindexed ==
  ASSUME NEW cat, GoodCatalog(cat), NEW after, NEW target, DOMAIN after = DOMAIN cat,
         \A t \in DOMAIN cat : IsTable(after[t]) /\ KeysAreColumns(after[t]) /\ after[t].cols = cat[t].cols
  PROVE  GoodCatalog(after) /\ Keeps(cat, after, target)
BY DEF GoodCatalog, Keeps

LEMMA CreatingIndex ==
  ASSUME NEW cat, GoodCatalog(cat), NEW t \in DOMAIN cat, NEW i, NEW def, NEW target,
         ToSet(def.cols) \subseteq DOMAIN cat[t].cols
  PROVE  LET after == [cat EXCEPT ![t].idxs = With(@, i, def)] IN GoodCatalog(after) /\ Keeps(cat, after, target)
<1> DEFINE idxs == With(cat[t].idxs, i, def)
           u == [cat[t] EXCEPT !.idxs = idxs]
           after == [cat EXCEPT ![t] = u]
<1>0. IsTable(cat[t]) /\ KeysAreColumns(cat[t])
  BY DEF GoodCatalog
<1>1. IsFiniteSet(DOMAIN idxs)
  BY <1>0, OneMore DEF IsTable
<1>2. \A j \in DOMAIN idxs : ToSet(idxs[j].cols) \subseteq DOMAIN cat[t].cols
  <2>1. \A j \in DOMAIN idxs : idxs[j] = def \/ (j \in DOMAIN cat[t].idxs /\ idxs[j] = cat[t].idxs[j])
    BY DEF With
  <2> HIDE DEF idxs
  <2> QED
    BY <1>0, <2>1 DEF KeysAreColumns
<1> HIDE DEF idxs
<1>3. IsTable(u) /\ KeysAreColumns(u) /\ u.cols = cat[t].cols
  BY <1>0, <1>1, <1>2, Reindexed
<1>4. [cat EXCEPT ![t].idxs = With(@, i, def)] = after
  BY DEF idxs
<1> HIDE DEF u
<1>5. DOMAIN after = DOMAIN cat /\ \A v \in DOMAIN cat : after[v] = IF v = t THEN u ELSE cat[v]
  OBVIOUS
<1>6. \A v \in DOMAIN cat : IsTable(after[v]) /\ KeysAreColumns(after[v]) /\ after[v].cols = cat[v].cols
  BY <1>3, <1>5 DEF GoodCatalog
<1> HIDE DEF after
<1> QED
  BY <1>4, <1>5, <1>6, TablesReindexed

LEMMA DroppingIndex ==
  ASSUME NEW prov, NEW cat, GoodCatalog(cat), NEW s, s.op = "dropIndex", NEW target
  PROVE  GoodCatalog(Executed(prov, cat, s)) /\ Keeps(cat, Executed(prov, cat, s), target)
<1> DEFINE after == [t \in DOMAIN cat |-> IF prov = "mysql" /\ t # s.table THEN cat[t]
                       ELSE [cat[t] EXCEPT !.idxs = Without(@, {s.index})]]
<1>1. ASSUME NEW t \in DOMAIN cat
      PROVE  IsTable(after[t]) /\ KeysAreColumns(after[t]) /\ after[t].cols = cat[t].cols
  <2> DEFINE idxs == Without(cat[t].idxs, {s.index})
             u == [cat[t] EXCEPT !.idxs = idxs]
  <2>0. IsTable(cat[t]) /\ KeysAreColumns(cat[t])
    BY DEF GoodCatalog
  <2>1. after[t] = cat[t] \/ after[t] = u
    OBVIOUS
  <2>2. /\ IsFiniteSet(DOMAIN idxs) /\ DOMAIN idxs \subseteq DOMAIN cat[t].idxs
        /\ \A j \in DOMAIN idxs : idxs[j] = cat[t].idxs[j]
    <3>1. IsFiniteSet(DOMAIN idxs)
      BY <2>0, SomeLess DEF IsTable
    <3> QED
      BY <3>1 DEF Without
  <2>3. \A j \in DOMAIN idxs : ToSet(idxs[j].cols) \subseteq DOMAIN cat[t].cols
    BY <2>0, <2>2 DEF KeysAreColumns
  <2> HIDE DEF after, idxs
  <2>4. IsTable(u) /\ KeysAreColumns(u) /\ u.cols = cat[t].cols
    BY <2>0, <2>2, <2>3, Reindexed
  <2> QED
    BY <2>0, <2>1, <2>4
<1>2. DOMAIN after = DOMAIN cat
  OBVIOUS
<1>3. GoodCatalog(after) /\ Keeps(cat, after, target)
  <2> HIDE DEF after
  <2> QED
    BY <1>1, <1>2, TablesReindexed
<1>4. Executed(prov, cat, s) = after
  BY DEF Executed
<1> HIDE DEF after
<1> QED
  BY <1>3, <1>4

LEMMA RenamingIndex ==
  ASSUME NEW prov, NEW cat, GoodCatalog(cat), NEW s, NEW target
  PROVE  LET after == [t \in DOMAIN cat |->
                         IF s.old \in DOMAIN cat[t].idxs /\ (prov = "mysql" => t = s.table)
                         THEN RenamedIndex(cat[t], s.old, s.new) ELSE cat[t]]
         IN  GoodCatalog(after) /\ Keeps(cat, after, target)
<1> DEFINE after == [t \in DOMAIN cat |->
                       IF s.old \in DOMAIN cat[t].idxs /\ (prov = "mysql" => t = s.table)
                       THEN RenamedIndex(cat[t], s.old, s.new) ELSE cat[t]]
<1>1. ASSUME NEW t \in DOMAIN cat
      PROVE  IsTable(after[t]) /\ KeysAreColumns(after[t]) /\ after[t].cols = cat[t].cols
  <2> DEFINE rest == Without(cat[t].idxs, {s.old})
             idxs == With(rest, s.new, cat[t].idxs[s.old])
             u == [cat[t] EXCEPT !.idxs = idxs]
  <2>0. IsTable(cat[t]) /\ KeysAreColumns(cat[t])
    BY DEF GoodCatalog
  <2>1. after[t] = cat[t] \/ (s.old \in DOMAIN cat[t].idxs /\ after[t] = u)
    BY DEF RenamedIndex
  <2>2. /\ IsFiniteSet(DOMAIN rest) /\ DOMAIN rest \subseteq DOMAIN cat[t].idxs
        /\ \A j \in DOMAIN rest : rest[j] = cat[t].idxs[j]
    <3>1. IsFiniteSet(DOMAIN rest)
      BY <2>0, SomeLess DEF IsTable
    <3> QED
      BY <3>1 DEF Without
  <2> HIDE DEF after, rest
  <2>3. IsFiniteSet(DOMAIN idxs)
    BY <2>2, OneMore
  <2>4. ASSUME s.old \in DOMAIN cat[t].idxs
        PROVE  \A j \in DOMAIN idxs : ToSet(idxs[j].cols) \subseteq DOMAIN cat[t].cols
    <3>1. \A j \in DOMAIN idxs : idxs[j] = cat[t].idxs[s.old] \/ (j \in DOMAIN rest /\ idxs[j] = rest[j])
      BY DEF With
    <3>2. \A j \in DOMAIN idxs : \E k \in DOMAIN cat[t].idxs : idxs[j] = cat[t].idxs[k]
      BY <2>2, <2>4, <3>1
    <3> HIDE DEF idxs
    <3> QED
      BY <2>0, <3>2 DEF KeysAreColumns
  <2> HIDE DEF idxs
  <2>5. s.old \in DOMAIN cat[t].idxs => IsTable(u) /\ KeysAreColumns(u) /\ u.cols = cat[t].cols
    BY <2>0, <2>3, <2>4, Reindexed
  <2> QED
    BY <2>0, <2>1, <2>5
<1>2. DOMAIN after = DOMAIN cat
  OBVIOUS
<1>3. GoodCatalog(after) /\ Keeps(cat, after, target)
  <2> HIDE DEF after
  <2> QED
    BY <1>1, <1>2, TablesReindexed
<1> QED
  BY <1>3

\* Executing a statement leaves a catalog, and drops only what the statement is to drop.
LEMMA Executing ==
  ASSUME NEW prov, NEW cat, GoodCatalog(cat), NEW s, WellFormed(s), CanExecute(prov, cat, s), NEW target
  PROVE  /\ GoodCatalog(Executed(prov, cat, s))
         /\ Spares(s, target) => Keeps(cat, Executed(prov, cat, s), target)
<1>1. CASE s.op = "createTable"
  BY <1>1, CreatingTable DEF CanExecute, Executed
<1>2. CASE s.op = "dropTable"
  BY <1>2, DroppingTable DEF Executed
<1>3. CASE s.op = "addColumn"
  BY <1>3, AddingColumn DEF CanExecute, CanAddColumn, HasColumn, Executed
<1>4. CASE s.op = "dropColumn"
  BY <1>4, DroppingColumn DEF CanExecute, CanDropColumn, Executed
<1>5. CASE s.op \in {"setType", "setNullable", "setDefault", "modifyColumn"}
  <2>1. s.table \in DOMAIN cat
    BY <1>5 DEF CanExecute, CanModify, HasColumn
  <2> DEFINE was == cat[s.table].cols[s.column]
  <2>2. \E def : Executed(prov, cat, s) = [cat EXCEPT ![s.table].cols[s.column] = def]
    <3>1. CASE s.op = "setType"
      BY <3>1 DEF Executed
    <3>2. CASE s.op = "setNullable"
      <4>1. Executed(prov, cat, s) = [cat EXCEPT ![s.table].cols[s.column].nullable = s.nullable]
        BY <3>2 DEF Executed
      <4> QED
        BY <4>1
    <3>3. CASE s.op = "setDefault"
      BY <3>3 DEF Executed
    <3>4. CASE s.op = "modifyColumn"
      BY <3>4 DEF Executed
    <3> QED
      BY <1>5, <3>1, <3>2, <3>3, <3>4
  <2> HIDE DEF was
  <2>3. PICK def : Executed(prov, cat, s) = [cat EXCEPT ![s.table].cols[s.column] = def]
    BY <2>2
  <2>4. /\ GoodCatalog([cat EXCEPT ![s.table].cols[s.column] = def])
        /\ Keeps(cat, [cat EXCEPT ![s.table].cols[s.column] = def], target)
    BY <2>1, ColumnChanged
  <2> QED
    BY <2>3, <2>4
<1>6. CASE s.op = "createIndex"
  BY <1>6, CreatingIndex DEF CanExecute, CanCreateIndex, Executed
<1>7. CASE s.op = "dropIndex"
  BY <1>7, DroppingIndex
<1>8. CASE s.op = "renameIndex"
  <2> DEFINE after == [t \in DOMAIN cat |->
                         IF s.old \in DOMAIN cat[t].idxs /\ (prov = "mysql" => t = s.table)
                         THEN RenamedIndex(cat[t], s.old, s.new) ELSE cat[t]]
  <2>1. Executed(prov, cat, s) = after
    BY <1>8 DEF Executed
  <2>2. GoodCatalog(after) /\ Keeps(cat, after, target)
    BY RenamingIndex
  <2> QED
    BY <2>1, <2>2
<1>9. CASE s.op = "comment"
  BY <1>9 DEF Executed, Keeps
<1>10. CASE s.op = "invalid"
  BY <1>10 DEF CanExecute
<1> QED
  BY <1>1, <1>2, <1>3, <1>4, <1>5, <1>6, <1>7, <1>8, <1>9, <1>10 DEF WellFormed, Ops

-----------------------------------------------------------------------------
(* A whole script.                                                         *)

\* One statement of a transaction that began with cat.
Step(prov, cat, r, s) ==
  IF r.ok /\ CanExecute(prov, r.cat, s)
  THEN [ok |-> TRUE, cat |-> Executed(prov, r.cat, s)]
  ELSE [ok |-> FALSE, cat |-> cat]

\* What ExecutedAll computes for the numbers of the statements: what those in S come to.
Executes(rest, prov, cat, file, n) ==
  rest = [S \in SUBSET (1..n) |-> IF S = {} THEN [ok |-> TRUE, cat |-> cat]
                                  ELSE Step(prov, cat, rest[S \ {Max(S)}], file[Max(S)])]

LEMMA ExecutionExists ==
  ASSUME NEW prov, NEW cat, NEW file, NEW n \in Nat
  PROVE  \E rest : Executes(rest, prov, cat, file, n)
<1> DEFINE start == [ok |-> TRUE, cat |-> cat]
           S == {k \in 0..n : \E rest : Executes(rest, prov, cat, file, k)}
<1>1. 0 \in S
  <2> DEFINE rest == [s \in SUBSET (1..0) |-> start]
  <2>1. \A s \in SUBSET (1..0) : s = {}
    OBVIOUS
  <2>2. Executes(rest, prov, cat, file, 0)
    BY <2>1 DEF Executes
  <2> QED
    BY <2>2
<1>2. ASSUME NEW k \in 0..n, k \in S, k < n PROVE k + 1 \in S
  <2> PICK rest : Executes(rest, prov, cat, file, k)
    BY <1>2
  <2> DEFINE more == [s \in SUBSET (1..(k + 1)) |->
                        IF k + 1 \in s THEN Step(prov, cat, rest[s \ {k + 1}], file[k + 1]) ELSE rest[s]]
  <2>0. k \in Nat /\ k + 1 \in 0..n
    BY <1>2
  <2>1. ASSUME NEW s \in SUBSET (1..(k + 1))
        PROVE  more[s] = IF s = {} THEN start ELSE Step(prov, cat, more[s \ {Max(s)}], file[Max(s)])
    <3>1. CASE k + 1 \in s
      <4>1. Max(s) = k + 1
        <5>1. Max(s) \in s /\ k + 1 <= Max(s)
          BY <2>0, <3>1, Greatest
        <5>2. PICK m \in 1..(k + 1) : m = Max(s)
          BY <5>1
        <5> QED
          BY <2>0, <5>1, <5>2
      <4>2. s \ {k + 1} \in SUBSET (1..(k + 1)) /\ k + 1 \notin s \ {k + 1}
        OBVIOUS
      <4>3. more[s \ {k + 1}] = rest[s \ {k + 1}]
        BY <4>2
      <4> QED
        BY <3>1, <4>1, <4>3
    <3>2. CASE k + 1 \notin s
      <4>1. s \in SUBSET (1..k)
        BY <2>0, <3>2
      <4>2. more[s] = rest[s]
        BY <3>2
      <4>3. more[s \ {Max(s)}] = rest[s \ {Max(s)}]
        BY <3>2
      <4>4. rest[s] = IF s = {} THEN start ELSE Step(prov, cat, rest[s \ {Max(s)}], file[Max(s)])
        BY <4>1 DEF Executes
      <4> QED
        BY <4>2, <4>3, <4>4
    <3> QED
      BY <3>1, <3>2
  <2>2. Executes(more, prov, cat, file, k + 1)
    <3> DEFINE other == [s \in SUBSET (1..(k + 1)) |->
                           IF s = {} THEN start ELSE Step(prov, cat, more[s \ {Max(s)}], file[Max(s)])]
    <3>1. \A s \in SUBSET (1..(k + 1)) : more[s] = other[s]
      BY <2>1
    <3>2. more = other
      BY <3>1
    <3> QED
      BY <3>2 DEF Executes
  <2> QED
    BY <2>0, <2>2
<1>3. \A k \in 0..n : k \in S
  <2> HIDE DEF S
  <2> QED
    BY <1>1, <1>2, UpTo
<1> QED
  BY <1>3

LEMMA AllExecuted ==
  ASSUME NEW prov, NEW cat, NEW file, NEW n \in Nat, DOMAIN file = 1..n
  PROVE  \E rest : Executes(rest, prov, cat, file, n) /\ ExecutedAll(prov, cat, file) = rest[1..n]
<1> DEFINE rest == CHOOSE r : Executes(r, prov, cat, file, n)
<1>1. Executes(rest, prov, cat, file, n)
  BY ExecutionExists
<1>2. ExecutedAll(prov, cat, file) = rest[1..n]
  BY DEF Executes, Step, ExecutedAll, FoldLeft, MapThenFoldSet
<1> QED
  BY <1>1, <1>2

IsScript(file) == file \in Seq(ToSet(file)) /\ \A i \in DOMAIN file : WellFormed(file[i])
SparesAll(file, target) == \A i \in DOMAIN file : Spares(file[i], target)

\* However a transaction ends, it leaves a catalog, and drops only what its statements are to drop.
LEMMA ScriptExecuted ==
  ASSUME NEW prov, NEW cat, GoodCatalog(cat), NEW file, IsScript(file), NEW target
  PROVE  /\ GoodCatalog(ExecutedAll(prov, cat, file).cat)
         /\ SparesAll(file, target) => Keeps(cat, ExecutedAll(prov, cat, file).cat, target)
<1> DEFINE n == Len(file)
<1>0. n \in Nat /\ DOMAIN file = 1..n
  BY DEF IsScript
<1> HIDE DEF n
<1> PICK rest : Executes(rest, prov, cat, file, n) /\ ExecutedAll(prov, cat, file) = rest[1..n]
  BY <1>0, AllExecuted
<1> DEFINE Good(r) == GoodCatalog(r.cat) /\ (SparesAll(file, target) => Keeps(cat, r.cat, target))
           S == {k \in 0..n : Good(rest[1..k])}
<1>a. Keeps(cat, cat, target)
  BY DEF Keeps
<1>1. 0 \in S
  <2>1. 1..0 = {} /\ {} \in SUBSET (1..n) /\ 0 \in 0..n
    BY <1>0
  <2>2. rest[{}] = [ok |-> TRUE, cat |-> cat]
    BY <2>1 DEF Executes
  <2>3. rest[{}].cat = cat
    BY <2>2
  <2> QED
    BY <1>a, <2>1, <2>3
<1>2. ASSUME NEW k \in 0..n, k \in S, k < n PROVE k + 1 \in S
  <2>0. k \in Nat /\ k + 1 \in 1..n /\ k + 1 \in 0..n /\ k + 1 \in 1..(k + 1)
    BY <1>0, <1>2
  <2>1. 1..(k + 1) \in SUBSET (1..n) /\ 1..(k + 1) # {}
    <3>1. \A i \in 1..(k + 1) : i \in 1..n
      BY <1>0, <2>0
    <3> QED
      BY <2>0, <3>1
  <2>2. Max(1..(k + 1)) = k + 1
    <3>1. Max(1..(k + 1)) \in 1..(k + 1) /\ k + 1 <= Max(1..(k + 1))
      BY <1>0, <2>0, <2>1, Greatest
    <3>2. PICK m \in 1..(k + 1) : m = Max(1..(k + 1))
      BY <3>1
    <3> QED
      BY <2>0, <3>1, <3>2
  <2>3. (1..(k + 1)) \ {k + 1} = 1..k
    BY <2>0
  <2> DEFINE r == rest[1..k]
             s == file[k + 1]
  <2>4. rest[1..(k + 1)] = Step(prov, cat, r, s)
    BY <2>1, <2>2, <2>3 DEF Executes
  <2>5. WellFormed(s) /\ (SparesAll(file, target) => Spares(s, target))
    BY <1>0, <2>0 DEF IsScript, SparesAll
  <2>6. Good(r)
    BY <1>2
  <2> HIDE DEF r, s
  <2>7. CASE r.ok /\ CanExecute(prov, r.cat, s)
    <3>1. Step(prov, cat, r, s).cat = Executed(prov, r.cat, s)
      BY <2>7 DEF Step
    <3>2. /\ GoodCatalog(Executed(prov, r.cat, s))
          /\ Spares(s, target) => Keeps(r.cat, Executed(prov, r.cat, s), target)
      BY <2>5, <2>6, <2>7, Executing
    <3> QED
      BY <2>0, <2>4, <2>5, <2>6, <3>1, <3>2, KeepsTransitive
  <2>8. CASE ~(r.ok /\ CanExecute(prov, r.cat, s))
    <3>1. Step(prov, cat, r, s) = [ok |-> FALSE, cat |-> cat]
      BY <2>8 DEF Step
    <3>2. Step(prov, cat, r, s).cat = cat
      BY <3>1
    <3> QED
      BY <1>a, <2>0, <2>4, <3>2
  <2> QED
    BY <2>7, <2>8
<1>3. \A k \in 0..n : k \in S
  <2> HIDE DEF S
  <2> QED
    BY <1>0, <1>1, <1>2, UpTo
<1>4. n \in S
  BY <1>0, <1>3
<1> QED
  BY <1>4

-----------------------------------------------------------------------------
(* The tables that a schema asks for.                                      *)

LEMMA FiniteImage ==
  ASSUME NEW S, IsFiniteSet(S), NEW f, DOMAIN f = S
  PROVE  IsFiniteSet({f[x] : x \in S})
<1> DEFINE T == {f[x] : x \in S}
           g == [x \in S |-> f[x]]
<1>1. g \in Surjection(S, T)
  BY DEF Surjection
<1> QED
  BY <1>1, FS_Surjection

LEMMA FiniteMembers ==
  ASSUME NEW S, NEW s \in Seq(S)
  PROVE  IsFiniteSet(ToSet(s))
<1>1. Len(s) \in Nat /\ DOMAIN s = 1..Len(s)
  OBVIOUS
<1>2. IsFiniteSet(1..Len(s))
  BY <1>1, FS_Interval
<1> QED
  BY <1>1, <1>2, FiniteImage DEF ToSet

\* The members of a sequence that pass a test.
LEMMA Passing ==
  ASSUME NEW S, NEW s \in Seq(S), NEW some
  PROVE  FlattenSeq([i \in DOMAIN s |-> IF i \in some THEN <<s[i]>> ELSE <<>>]) \in Seq(S)
<1> DEFINE f == [i \in DOMAIN s |-> IF i \in some THEN <<s[i]>> ELSE <<>>]
<1>1. Len(s) \in Nat /\ DOMAIN s = 1..Len(s)
  OBVIOUS
<1>2. ASSUME NEW i \in 1..Len(s) PROVE f[i] \in Seq(S)
  <2>1. s[i] \in S
    BY <1>1
  <2>2. f[i] = <<s[i]>> \/ f[i] = <<>>
    BY <1>1
  <2>3. <<s[i]>> \in Seq(S) /\ <<>> \in Seq(S)
    BY <2>1
  <2> QED
    BY <2>2, <2>3
<1>3. f \in [1..Len(s) -> Seq(S)]
  BY <1>1, <1>2
<1> HIDE DEF f
<1>4. FlattenSeq(f) \in Seq(S)
  BY <1>1, <1>3, Flattened
<1> QED
  BY <1>4 DEF f

LEMMA ColumnsAreFields ==
  ASSUME NEW model, model.fields \in Seq(ToSet(model.fields))
  PROVE  Columns(model) \in Seq(ToSet(model.fields))
<1> DEFINE some == {i \in DOMAIN model.fields : model.fields[i].type \in Scalars /\ Arity(model.fields[i]) # "list"}
<1>1. Columns(model) = FlattenSeq([i \in DOMAIN model.fields |-> IF i \in some THEN <<model.fields[i]>> ELSE <<>>])
  BY DEF Columns, Only, Each
<1> HIDE DEF some
<1> QED
  BY <1>1, Passing

LEMMA Converted ==
  ASSUME NEW prov, NEW model, model.fields \in Seq(ToSet(model.fields))
  PROVE  IsTable(ConvertModel(prov, model)) /\ KeysAreColumns(ConvertModel(prov, model))
<1> DEFINE fields == Columns(model)
           named(c) == CHOOSE f \in ToSet(fields) : f.name = c
           names == {f.name : f \in ToSet(fields)}
           unique == {f.name : f \in {g \in ToSet(fields) : "unique" \in g.attrs}}
           ids == Only(fields, LAMBDA f : "id" \in f.attrs)
           cols == [c \in names |-> ConvertField(prov, named(c))]
           pk == [i \in DOMAIN ids |-> ids[i].name]
           idxs == [n \in {<<model.name, c, "unique">> : c \in unique} |-> [cols |-> <<n[2]>>, unique |-> TRUE]]
           table == [cols |-> cols, pk |-> pk, idxs |-> idxs, fks |-> {}]
<1>1. ConvertModel(prov, model) = table
  BY DEF ConvertModel, ExtractForeignKeys
<1>2. fields \in Seq(ToSet(model.fields)) /\ IsFiniteSet(ToSet(fields))
  BY ColumnsAreFields, FiniteMembers
<1>3. IsFiniteSet(names)
  <2> DEFINE f == [x \in ToSet(fields) |-> x.name]
  <2>1. {f[x] : x \in ToSet(fields)} = names
    OBVIOUS
  <2>2. IsFiniteSet({f[x] : x \in ToSet(fields)})
    BY <1>2, FiniteImage
  <2> QED
    BY <2>1, <2>2
<1>4. unique \subseteq names /\ IsFiniteSet(unique)
  <2>1. unique \in SUBSET names
    OBVIOUS
  <2> QED
    BY <1>3, <2>1, FS_Subset
<1>5. ids \in Seq(ToSet(fields))
  <2> DEFINE some == {i \in DOMAIN fields : "id" \in fields[i].attrs}
  <2>1. ids = FlattenSeq([i \in DOMAIN fields |-> IF i \in some THEN <<fields[i]>> ELSE <<>>])
    BY DEF Only, Each
  <2>2. fields \in Seq(ToSet(fields))
    BY <1>2 DEF ToSet
  <2> HIDE DEF some, fields
  <2> QED
    BY <2>1, <2>2, Passing
<1>6. ToSet(pk) \subseteq names
  <2>1. \A i \in DOMAIN ids : ids[i] \in ToSet(fields)
    BY <1>5
  <2> HIDE DEF ids, fields
  <2> QED
    BY <2>1 DEF ToSet
<1> HIDE DEF fields, ids, pk
<1>7. IsFiniteSet(DOMAIN idxs)
  <2> DEFINE f == [c \in unique |-> <<model.name, c, "unique">>]
  <2>1. DOMAIN idxs = {f[c] : c \in unique}
    OBVIOUS
  <2>2. IsFiniteSet({f[c] : c \in unique})
    <3>1. DOMAIN f = unique
      OBVIOUS
    <3> HIDE DEF unique, f
    <3> QED
      BY <1>4, <3>1, FiniteImage
  <2> QED
    BY <2>1, <2>2
<1>8. ASSUME NEW n \in DOMAIN idxs PROVE ToSet(idxs[n].cols) \subseteq names
  <2>1. PICK c \in unique : n = <<model.name, c, "unique">>
    OBVIOUS
  <2>2. idxs[n].cols = <<c>>
    BY <2>1
  <2>3. ToSet(<<c>>) = {c}
    BY DEF ToSet
  <2> QED
    BY <1>4, <2>2, <2>3
<1>9. DOMAIN cols = names
  OBVIOUS
<1> HIDE DEF cols, idxs, names
<1>10. IsTable(table)
  BY <1>3, <1>7, <1>9, FS_EmptySet, MadeOf
<1>11. KeysAreColumns(table)
  BY <1>6, <1>8, <1>9 DEF KeysAreColumns
<1> QED
  BY <1>1, <1>10, <1>11

LEMMA SchemaConverted ==
  ASSUME NEW prov, NEW models, IsFiniteSet(models), \A m \in models : m.fields \in Seq(ToSet(m.fields))
  PROVE  GoodCatalog(ConvertSchema(prov, models))
<1> DEFINE names == {m.name : m \in models}
           of(n) == CHOOSE m \in models : m.name = n
           cat == [n \in names |-> ConvertModel(prov, of(n))]
<1>1. ConvertSchema(prov, models) = cat
  BY DEF ConvertSchema
<1>2. IsFiniteSet(names)
  <2> DEFINE f == [m \in models |-> m.name]
  <2>1. names = {f[m] : m \in models}
    OBVIOUS
  <2>2. IsFiniteSet({f[m] : m \in models})
    BY FiniteImage
  <2> QED
    BY <2>1, <2>2
<1>3. ASSUME NEW n \in names PROVE IsTable(cat[n]) /\ KeysAreColumns(cat[n])
  <2>1. of(n) \in models
    OBVIOUS
  <2>2. cat[n] = ConvertModel(prov, of(n))
    OBVIOUS
  <2> HIDE DEF of, cat
  <2> QED
    BY <2>1, <2>2, Converted
<1>4. DOMAIN cat = names
  OBVIOUS
<1> HIDE DEF cat
<1> QED
  BY <1>1, <1>2, <1>3, <1>4 DEF GoodCatalog

LEMMA TargetsAreCatalogs ==
  ASSUME NEW prov \in Providers, NEW s \in DOMAIN Schemas[prov] \cup {"none"}
  PROVE  GoodCatalog(Targets[prov][s])
<1>1. CASE s = "none"
  <2>1. Targets[prov][s] = ConvertSchema(prov, {})
    BY <1>1 DEF Targets, With
  <2> QED
    BY <2>1, SchemaConverted, FS_EmptySet
<1>2. CASE s # "none"
  <2>1. Targets[prov][s] = ConvertSchema(prov, Schemas[prov][s])
    BY <1>2 DEF Targets, With
  <2> QED
    BY <1>2, <2>1, SchemaConverted, SchemasAssumption
<1> QED
  BY <1>1, <1>2

-----------------------------------------------------------------------------
(* What the differ finds.                                                  *)

ChangeTypes == {"AddColumn", "DropColumn", "AlterColumn", "RenameIndex", "CreateIndex", "DropIndex",
                "DropForeignKey", "ChangePrimaryKey"}

\* A change of table n drops no column that the target has.
SparesColumns(ch, n, target) ==
  ch.type \in ChangeTypes /\ (ch.type = "DropColumn" /\ n \in DOMAIN target => ch.column \notin DOMAIN target[n].cols)
SparingChanges(changes, n, target) ==
  changes \in Seq(ToSet(changes)) /\ \A i \in DOMAIN changes : SparesColumns(changes[i], n, target)

LEMMA ChangesOf ==
  ASSUME NEW S, NEW changes \in Seq(S), NEW n, NEW target, \A ch \in S : SparesColumns(ch, n, target)
  PROVE  SparingChanges(changes, n, target)
<1>1. \A i \in DOMAIN changes : changes[i] \in S
  OBVIOUS
<1>2. changes \in Seq(ToSet(changes))
  BY DEF ToSet
<1> QED
  BY <1>1, <1>2 DEF SparingChanges

LEMMA ChangesJoined ==
  ASSUME NEW a, NEW b, NEW n, NEW target, SparingChanges(a, n, target), SparingChanges(b, n, target)
  PROVE  SparingChanges(a \o b, n, target)
<1> DEFINE S == ToSet(a) \cup ToSet(b)
<1>1. a \in Seq(ToSet(a)) /\ b \in Seq(ToSet(b))
  BY DEF SparingChanges
<1>2. a \in Seq(S) /\ b \in Seq(S)
  BY <1>1, SeqMonotonic
<1>3. \A ch \in S : SparesColumns(ch, n, target)
  BY DEF SparingChanges, ToSet
<1> HIDE DEF S
<1>4. a \o b \in Seq(S)
  BY <1>2, ConcatProperties
<1> QED
  BY <1>3, <1>4, ChangesOf

LEMMA ChangesOrdered ==
  ASSUME NEW S, IsFiniteSet(S), NEW n, NEW target, \A ch \in S : SparesColumns(ch, n, target),
         NEW changes \in Orders(S)
  PROVE  SparingChanges(changes, n, target)
BY Ordered, ChangesOf

LEMMA NoChange ==
  ASSUME NEW n, NEW target
  PROVE  SparingChanges(<<>>, n, target)
BY DEF SparingChanges

LEMMA ColumnsCompared ==
  ASSUME NEW prov, NEW prev, IsTable(prev), NEW target, NEW name \in DOMAIN target, IsTable(target[name]),
         NEW changes \in CompareColumns(prov, prev, target[name], name)
  PROVE  SparingChanges(changes, Normalize(prov, name), target)
<1> DEFINE n == Normalize(prov, name)
           next == target[name]
           new == AddColumns(next.cols, DOMAIN next.cols \ DOMAIN prev.cols)
           old == DropColumns(DOMAIN prev.cols \ DOMAIN next.cols)
           other == AlterColumns(prev.cols, next.cols)
<1>1. CASE n # name
  BY <1>1, NoChange DEF CompareColumns
<1>2. CASE n = name
  <2>0. IsFiniteSet(DOMAIN prev.cols) /\ IsFiniteSet(DOMAIN next.cols)
    BY DEF IsTable
  <2>1. \E a \in Orders(new), d \in Orders(old), u \in Orders(other) : changes = a \o d \o u
    <3>1. CompareColumns(prov, prev, next, name) =
            {a \o d \o u : a \in Orders(new), d \in Orders(old), u \in Orders(other)}
      BY <1>2 DEF CompareColumns
    <3> HIDE DEF new, old, other, next
    <3>2. changes \in {a \o d \o u : a \in Orders(new), d \in Orders(old), u \in Orders(other)}
      BY <3>1 DEF next
    <3> QED
      BY <3>2
  <2>2. IsFiniteSet(new) /\ \A ch \in new : SparesColumns(ch, n, target)
    <3> DEFINE names == DOMAIN next.cols \ DOMAIN prev.cols
               f == [c \in names |-> [type |-> "AddColumn", column |-> c, meta |-> next.cols[c]]]
    <3>1. names \in SUBSET (DOMAIN next.cols)
      OBVIOUS
    <3>2. IsFiniteSet(names) /\ DOMAIN f = names
      BY <2>0, <3>1, FS_Subset
    <3>3. new = {f[c] : c \in names}
      BY DEF AddColumns
    <3>4. \A c \in names : f[c].type = "AddColumn"
      OBVIOUS
    <3> HIDE DEF names, f, new
    <3>5. IsFiniteSet(new)
      BY <3>2, <3>3, FiniteImage
    <3> QED
      BY <3>3, <3>4, <3>5 DEF SparesColumns, ChangeTypes
  <2>3. IsFiniteSet(old) /\ \A ch \in old : SparesColumns(ch, n, target)
    <3> DEFINE names == DOMAIN prev.cols \ DOMAIN next.cols
               f == [c \in names |-> [type |-> "DropColumn", column |-> c]]
    <3>1. names \in SUBSET (DOMAIN prev.cols)
      OBVIOUS
    <3>2. IsFiniteSet(names) /\ DOMAIN f = names /\ \A c \in names : c \notin DOMAIN next.cols
      BY <2>0, <3>1, FS_Subset
    <3>3. old = {f[c] : c \in names}
      BY DEF DropColumns
    <3>4. \A c \in names : f[c].type = "DropColumn" /\ f[c].column = c
      OBVIOUS
    <3> HIDE DEF names, f, old
    <3>5. IsFiniteSet(old)
      BY <3>2, <3>3, FiniteImage
    <3> QED
      BY <1>2, <3>2, <3>3, <3>4, <3>5 DEF SparesColumns, ChangeTypes
  <2>4. IsFiniteSet(other) /\ \A ch \in other : SparesColumns(ch, n, target)
    <3> DEFINE names == Altered(prev.cols, next.cols)
               f == [c \in names |-> [type |-> "AlterColumn", column |-> c, meta |-> next.cols[c],
                                      oldType |-> prev.cols[c].type, oldNullable |-> prev.cols[c].nullable]]
    <3>1. names \in SUBSET (DOMAIN prev.cols)
      BY DEF Altered
    <3>2. IsFiniteSet(names) /\ DOMAIN f = names
      BY <2>0, <3>1, FS_Subset
    <3>3. other = {f[c] : c \in names}
      BY DEF AlterColumns
    <3>4. \A c \in names : f[c].type = "AlterColumn"
      OBVIOUS
    <3> HIDE DEF names, f, other
    <3>5. IsFiniteSet(other)
      BY <3>2, <3>3, FiniteImage
    <3> QED
      BY <3>3, <3>4, <3>5 DEF SparesColumns, ChangeTypes
  <2> HIDE DEF new, old, other, n
  <2> PICK a \in Orders(new), d \in Orders(old), u \in Orders(other) : changes = a \o d \o u
    BY <2>1
  <2>5. SparingChanges(a, n, target) /\ SparingChanges(d, n, target) /\ SparingChanges(u, n, target)
    BY <2>2, <2>3, <2>4, ChangesOrdered
  <2>6. SparingChanges(a \o d, n, target)
    BY <2>5, ChangesJoined
  <2>7. SparingChanges((a \o d) \o u, n, target)
    BY <2>5, <2>6, ChangesJoined
  <2> QED
    BY <2>7 DEF n
<1> QED
  BY <1>1, <1>2

LEMMA IndexesCompared ==
  ASSUME NEW prov, NEW prev, IsFiniteSet(DOMAIN prev), NEW next, IsFiniteSet(DOMAIN next), NEW n, NEW target,
         NEW changes \in CompareIndexes(prov, prev, next)
  PROVE  SparingChanges(changes, n, target)
<1> DEFINE renames == {r \in IndexPairs(prev, next) :
                         /\ Flavour[prov].canRenameIndex
                         /\ IndexShouldBeRenamed(prev[r[1]], next[r[2]], r[1], r[2])}
           created == {i \in DOMAIN next : \A r \in renames : r[2] # i}
           dropped == {i \in DOMAIN prev : \A r \in renames : r[1] # i}
           R == {[type |-> "RenameIndex", old |-> x[1], new |-> x[2]] : x \in renames}
           C == {[type |-> "CreateIndex", index |-> i] : i \in created}
           D == {[type |-> "DropIndex", index |-> i] : i \in dropped}
<1>1. \E r \in Orders(R), c \in Orders(C), d \in Orders(D) : changes = r \o c \o d
  <2>1. CompareIndexes(prov, prev, next) = {r \o c \o d : r \in Orders(R), c \in Orders(C), d \in Orders(D)}
    BY DEF CompareIndexes
  <2> HIDE DEF R, C, D
  <2> QED
    BY <2>1
<1>2. IsFiniteSet(renames)
  <2>1. IsFiniteSet((DOMAIN prev) \X (DOMAIN next))
    BY FS_Product
  <2>2. renames \in SUBSET ((DOMAIN prev) \X (DOMAIN next))
    BY DEF IndexPairs
  <2> HIDE DEF renames
  <2> QED
    BY <2>1, <2>2, FS_Subset
<1>3. IsFiniteSet(created) /\ IsFiniteSet(dropped)
  <2>1. created \in SUBSET (DOMAIN next) /\ dropped \in SUBSET (DOMAIN prev)
    OBVIOUS
  <2> HIDE DEF created, dropped
  <2> QED
    BY <2>1, FS_Subset
<1> HIDE DEF renames, created, dropped
<1>4. IsFiniteSet(R) /\ \A ch \in R : SparesColumns(ch, n, target)
  <2> DEFINE f == [x \in renames |-> [type |-> "RenameIndex", old |-> x[1], new |-> x[2]]]
  <2>1. R = {f[x] : x \in renames} /\ DOMAIN f = renames /\ \A x \in renames : f[x].type = "RenameIndex"
    OBVIOUS
  <2> HIDE DEF f, R
  <2>2. IsFiniteSet(R)
    BY <1>2, <2>1, FiniteImage
  <2> QED
    BY <2>1, <2>2 DEF SparesColumns, ChangeTypes
<1>5. IsFiniteSet(C) /\ \A ch \in C : SparesColumns(ch, n, target)
  <2> DEFINE f == [i \in created |-> [type |-> "CreateIndex", index |-> i]]
  <2>1. C = {f[x] : x \in created} /\ DOMAIN f = created /\ \A x \in created : f[x].type = "CreateIndex"
    OBVIOUS
  <2> HIDE DEF f, C
  <2>2. IsFiniteSet(C)
    BY <1>3, <2>1, FiniteImage
  <2> QED
    BY <2>1, <2>2 DEF SparesColumns, ChangeTypes
<1>6. IsFiniteSet(D) /\ \A ch \in D : SparesColumns(ch, n, target)
  <2> DEFINE f == [i \in dropped |-> [type |-> "DropIndex", index |-> i]]
  <2>1. D = {f[x] : x \in dropped} /\ DOMAIN f = dropped /\ \A x \in dropped : f[x].type = "DropIndex"
    OBVIOUS
  <2> HIDE DEF f, D
  <2>2. IsFiniteSet(D)
    BY <1>3, <2>1, FiniteImage
  <2> QED
    BY <2>1, <2>2 DEF SparesColumns, ChangeTypes
<1> HIDE DEF R, C, D
<1> PICK r \in Orders(R), c \in Orders(C), d \in Orders(D) : changes = r \o c \o d
  BY <1>1
<1>7. SparingChanges(r, n, target) /\ SparingChanges(c, n, target) /\ SparingChanges(d, n, target)
  BY <1>4, <1>5, <1>6, ChangesOrdered
<1>8. SparingChanges(r \o c, n, target)
  BY <1>7, ChangesJoined
<1>9. SparingChanges((r \o c) \o d, n, target)
  BY <1>7, <1>8, ChangesJoined
<1> QED
  BY <1>9

LEMMA KeysCompared ==
  ASSUME NEW prov, NEW prev, IsFiniteSet(prev), NEW next, NEW n, NEW target
  PROVE  SparingChanges(CompareForeignKeys(prov, prev, next), n, target)
<1> DEFINE renamed == {r \in ForeignKeyPairs(prev, next) : Flavour[prov].canRenameForeignKey}
           dropped == {k \in prev : \A r \in renamed : r[1] # k}
           one == [type |-> "DropForeignKey"]
           changes == [i \in 1..Cardinality(dropped) |-> one]
<1>1. dropped \in SUBSET prev
  OBVIOUS
<1>2. changes = CompareForeignKeys(prov, prev, next)
  BY DEF CompareForeignKeys
<1>3. one.type = "DropForeignKey"
  OBVIOUS
<1> HIDE DEF dropped, one
<1>4. Cardinality(dropped) \in Nat
  BY <1>1, FS_Subset, FS_CardinalityType
<1>5. changes \in Seq({one})
  <2>1. changes \in [1..Cardinality(dropped) -> {one}]
    OBVIOUS
  <2> QED
    BY <1>4, <2>1, IsASeq
<1>6. \A ch \in {one} : SparesColumns(ch, n, target)
  BY <1>3 DEF SparesColumns, ChangeTypes
<1> HIDE DEF changes
<1> QED
  BY <1>2, <1>5, <1>6, ChangesOf

LEMMA PrimaryKeysCompared ==
  ASSUME NEW prev, NEW next, NEW n, NEW target
  PROVE  SparingChanges(ComparePrimaryKeys(prev, next), n, target)
<1> DEFINE one == [type |-> "ChangePrimaryKey"]
<1>1. \A ch \in {one} : SparesColumns(ch, n, target)
  BY DEF SparesColumns, ChangeTypes
<1>2. ComparePrimaryKeys(prev, next) = <<>> \/ ComparePrimaryKeys(prev, next) = <<one>>
  BY DEF ComparePrimaryKeys
<1> HIDE DEF one
<1>4. SparingChanges(<<one>>, n, target)
  <2> DEFINE S == {one}
  <2>1. <<one>> \in Seq(S)
    OBVIOUS
  <2>2. \A ch \in S : SparesColumns(ch, n, target)
    BY <1>1
  <2> DEFINE changes == <<one>>
  <2> HIDE DEF S, changes
  <2>3. SparingChanges(changes, n, target)
    BY <2>1, <2>2, ChangesOf DEF changes
  <2> QED
    BY <2>3 DEF changes
<1> QED
  BY <1>2, <1>4, NoChange

LEMMA TablesCompared ==
  ASSUME NEW prov, NEW prev, IsTable(prev), NEW target, NEW name \in DOMAIN target, IsTable(target[name]),
         NEW changes \in CompareTables(prov, prev, target[name], name)
  PROVE  SparingChanges(changes, Normalize(prov, name), target)
<1> DEFINE n == Normalize(prov, name)
           next == target[name]
           f == CompareForeignKeys(prov, prev.fks, next.fks)
           k == ComparePrimaryKeys(prev.pk, next.pk)
<1>0. CompareTables(prov, prev, next, name) =
        {c \o i \o f \o k : c \in CompareColumns(prov, prev, next, name), i \in CompareIndexes(prov, prev.idxs, next.idxs)}
  BY DEF CompareTables
<1> HIDE DEF f, k
<1>1. PICK c \in CompareColumns(prov, prev, next, name), i \in CompareIndexes(prov, prev.idxs, next.idxs) :
        changes = c \o i \o f \o k
  BY <1>0
<1> USE DEF f, k
<1>2. SparingChanges(c, n, target)
  BY ColumnsCompared
<1>3. SparingChanges(i, n, target)
  BY IndexesCompared DEF IsTable
<1>4. SparingChanges(f, n, target)
  BY KeysCompared DEF IsTable
<1>5. SparingChanges(k, n, target)
  BY PrimaryKeysCompared
<1> HIDE DEF f, k, n
<1>6. SparingChanges(c \o i, n, target)
  BY <1>2, <1>3, ChangesJoined
<1>7. SparingChanges((c \o i) \o f, n, target)
  BY <1>4, <1>6, ChangesJoined
<1>8. SparingChanges(((c \o i) \o f) \o k, n, target)
  BY <1>5, <1>7, ChangesJoined
<1> QED
  BY <1>1, <1>8 DEF n

\* The tables a differ database knows, and the names it knows them by.
LEMMA NamesOfTables ==
  ASSUME NEW prov, NEW tables, IsFiniteSet(DOMAIN tables)
  PROVE  /\ IsFiniteSet(TableNames(prov, tables))
         /\ \A n \in TableNames(prov, tables) : /\ n # "_prisma_migrations"
                                                /\ Table(prov, tables, n) \in DOMAIN tables
                                                /\ Normalize(prov, Table(prov, tables, n)) = n
         /\ \A t \in DOMAIN tables : Normalize(prov, t) # "_prisma_migrations" =>
              Normalize(prov, t) \in TableNames(prov, tables)
<1> DEFINE f == [t \in DOMAIN tables |-> Normalize(prov, t)]
           all == {Normalize(prov, t) : t \in DOMAIN tables}
<1>1. IsFiniteSet(all)
  <2>1. all = {f[t] : t \in DOMAIN tables} /\ DOMAIN f = DOMAIN tables
    OBVIOUS
  <2> HIDE DEF f, all
  <2> QED
    BY <2>1, FiniteImage
<1>2. TableNames(prov, tables) \in SUBSET all
  BY DEF TableNames
<1>3. IsFiniteSet(TableNames(prov, tables))
  <2> HIDE DEF all
  <2> QED
    BY <1>1, <1>2, FS_Subset
<1>4. \A n \in TableNames(prov, tables) : n # "_prisma_migrations" /\ \E t \in DOMAIN tables : Normalize(prov, t) = n
  BY DEF TableNames, TableShouldBeIgnored
<1>5. \A n \in TableNames(prov, tables) :
        Table(prov, tables, n) \in DOMAIN tables /\ Normalize(prov, Table(prov, tables, n)) = n
  BY <1>4 DEF Table
<1>6. \A t \in DOMAIN tables : Normalize(prov, t) # "_prisma_migrations" => Normalize(prov, t) \in TableNames(prov, tables)
  BY DEF TableNames, TableShouldBeIgnored
<1> QED
  BY <1>3, <1>4, <1>5, <1>6

\* A diff creates tables of the target, drops none of them nor the history table, and spares their columns.
GoodDiff(diff, target) ==
  /\ diff.create \in Seq(DOMAIN target)
  /\ diff.drop \in Seq(ToSet(diff.drop))
  /\ \A i \in DOMAIN diff.drop : diff.drop[i] \notin DOMAIN target \cup {"_prisma_migrations"}
  /\ diff.alter \in Seq(ToSet(diff.alter))
  /\ \A i \in DOMAIN diff.alter : SparingChanges(diff.alter[i].changes, diff.alter[i].table, target)

\* What introspection has read.
GoodTables(tables) == IsFiniteSet(DOMAIN tables) /\ \A t \in DOMAIN tables : IsTable(tables[t])

LEMMA SchemasCompared ==
  ASSUME NEW prov, NEW prev, GoodTables(prev), NEW target, GoodCatalog(target),
         NEW diff \in CompareSchemas(prov, prev, target)
  PROVE  GoodDiff(diff, target)
<1> DEFINE old == TableNames(prov, prev)
           new == TableNames(prov, target)
           created == {Table(prov, target, n) : n \in new \ old}
           dropped == {Table(prov, prev, n) : n \in old \ new}
           changes == [n \in old \cap new |->
                         LET u == Table(prov, target, n)
                         IN  CompareTables(prov, prev[Table(prov, prev, n)], target[u], u)]
           altered == {n \in old \cap new : <<>> \notin changes[n]}
           sorted == SetToSeq(altered)
           choices == {g \in [altered -> UNION {changes[n] : n \in altered}] : \A n \in altered : g[n] \in changes[n]}
<1>1. CompareSchemas(prov, prev, target) =
        {[create |-> c, drop |-> d,
          alter |-> [i \in DOMAIN sorted |-> [table |-> sorted[i], changes |-> f[sorted[i]]]]] :
            c \in Orders(created), d \in Orders(dropped), f \in choices}
  BY DEF CompareSchemas
<1>2. /\ IsFiniteSet(old) /\ IsFiniteSet(new)
      /\ \A n \in old : /\ n # "_prisma_migrations" /\ Table(prov, prev, n) \in DOMAIN prev
                        /\ Normalize(prov, Table(prov, prev, n)) = n
      /\ \A n \in new : /\ n # "_prisma_migrations" /\ Table(prov, target, n) \in DOMAIN target
                        /\ Normalize(prov, Table(prov, target, n)) = n
      /\ \A t \in DOMAIN target : Normalize(prov, t) # "_prisma_migrations" => Normalize(prov, t) \in new
  BY NamesOfTables DEF GoodTables, GoodCatalog
<1> HIDE DEF old, new
<1>3. created \subseteq DOMAIN target /\ IsFiniteSet(created)
  <2>1. created \in SUBSET DOMAIN target
    BY <1>2
  <2> HIDE DEF created
  <2> QED
    BY <2>1, FS_Subset DEF GoodCatalog
<1>4. IsFiniteSet(dropped) /\ \A t \in dropped : t \notin DOMAIN target \cup {"_prisma_migrations"}
  <2>1. dropped \in SUBSET DOMAIN prev
    BY <1>2
  <2>2. Normalize(prov, "_prisma_migrations") = "_prisma_migrations"
    BY HistoryAssumption DEF Normalize
  <2>3. \A t \in dropped : \E n \in old \ new : t = Table(prov, prev, n)
    OBVIOUS
  <2>4. \A t \in dropped : t \notin DOMAIN target \cup {"_prisma_migrations"}
    BY <1>2, <2>2, <2>3
  <2> HIDE DEF dropped
  <2> QED
    BY <2>1, <2>4, FS_Subset DEF GoodTables
<1>5. altered \subseteq old \cap new /\ IsFiniteSet(altered)
  <2>1. altered \in SUBSET old
    OBVIOUS
  <2>2. altered \subseteq old \cap new
    OBVIOUS
  <2> HIDE DEF altered
  <2> QED
    BY <1>2, <2>1, <2>2, FS_Subset
<1> HIDE DEF created, dropped, altered
<1>6. sorted \in Seq(altered)
  BY <1>5, Ordered
<1>7. ASSUME NEW n \in old \cap new, NEW ch \in changes[n]
      PROVE  SparingChanges(ch, n, target)
  <2> DEFINE u == Table(prov, target, n)
             was == prev[Table(prov, prev, n)]
  <2>1. changes[n] = CompareTables(prov, was, target[u], u)
    OBVIOUS
  <2>2. IsTable(was) /\ u \in DOMAIN target /\ IsTable(target[u]) /\ Normalize(prov, u) = n
    BY <1>2 DEF GoodTables, GoodCatalog
  <2>3. ch \in CompareTables(prov, was, target[u], u)
    BY <2>1
  <2> HIDE DEF was, u, changes
  <2> QED
    BY <2>2, <2>3, TablesCompared
<1> HIDE DEF changes, sorted
<1>8. \A f \in choices : \A n \in altered : f[n] \in changes[n]
  OBVIOUS
<1> HIDE DEF choices
<1>9. PICK c \in Orders(created), d \in Orders(dropped), f \in choices :
        diff = [create |-> c, drop |-> d,
                alter |-> [i \in DOMAIN sorted |-> [table |-> sorted[i], changes |-> f[sorted[i]]]]]
  BY <1>1
<1>10. c \in Seq(DOMAIN target)
  <2>1. c \in Seq(created)
    BY <1>3, Ordered
  <2> QED
    BY <1>3, <2>1, SeqMonotonic
<1>11. d \in Seq(ToSet(d)) /\ \A i \in DOMAIN d : d[i] \notin DOMAIN target \cup {"_prisma_migrations"}
  <2>1. d \in Seq(dropped)
    BY <1>4, Ordered
  <2>2. \A i \in DOMAIN d : d[i] \in dropped
    BY <2>1
  <2>3. d \in Seq(ToSet(d))
    BY <2>1 DEF ToSet
  <2> QED
    BY <1>4, <2>2, <2>3
<1> DEFINE alter == [i \in DOMAIN sorted |-> [table |-> sorted[i], changes |-> f[sorted[i]]]]
<1>12. alter \in Seq(ToSet(alter)) /\ \A i \in DOMAIN alter : SparingChanges(alter[i].changes, alter[i].table, target)
  <2>1. Len(sorted) \in Nat /\ DOMAIN alter = 1..Len(sorted) /\ DOMAIN sorted = 1..Len(sorted)
    BY <1>6
  <2>2. ASSUME NEW i \in DOMAIN alter PROVE SparingChanges(alter[i].changes, alter[i].table, target)
    <3>1. sorted[i] \in altered
      BY <1>6, <2>1
    <3>2. alter[i].changes = f[sorted[i]] /\ alter[i].table = sorted[i]
      BY <2>1
    <3> HIDE DEF alter
    <3> QED
      BY <1>5, <1>7, <1>8, <3>1, <3>2
  <2>3. alter \in Seq(ToSet(alter))
    <3> HIDE DEF alter
    <3>1. \A i \in 1..Len(sorted) : alter[i] \in ToSet(alter)
      BY <2>1 DEF ToSet
    <3>2. alter = [i \in 1..Len(sorted) |-> alter[i]]
      BY <2>1 DEF alter
    <3>3. alter \in [1..Len(sorted) -> ToSet(alter)]
      BY <3>1, <3>2
    <3> QED
      BY <2>1, <3>3, IsASeq
  <2> QED
    BY <2>2, <2>3
<1>13. diff.create = c /\ diff.drop = d /\ diff.alter = alter
  BY <1>9
<1> HIDE DEF alter
<1> QED
  BY <1>10, <1>11, <1>12, <1>13 DEF GoodDiff

-----------------------------------------------------------------------------
(* What the generators write.                                              *)

\* A script that can be executed, and that spares the target if it is to.
FineScript(file, target, spares) == IsScript(file) /\ (spares => SparesAll(file, target))

LEMMA StatementsOf ==
  ASSUME NEW S, NEW file \in Seq(S), NEW target, NEW spares,
         \A s \in S : WellFormed(s) /\ (spares => Spares(s, target))
  PROVE  FineScript(file, target, spares)
<1>1. \A i \in DOMAIN file : file[i] \in S
  OBVIOUS
<1>2. file \in Seq(ToSet(file))
  BY DEF ToSet
<1> QED
  BY <1>1, <1>2 DEF FineScript, IsScript, SparesAll

LEMMA NoStatement ==
  ASSUME NEW target, NEW spares
  PROVE  FineScript(<<>>, target, spares)
BY DEF FineScript, IsScript, SparesAll

LEMMA OneStatement ==
  ASSUME NEW s, WellFormed(s), NEW target, NEW spares, spares => Spares(s, target)
  PROVE  FineScript(<<s>>, target, spares)
<1> DEFINE S == {s}
           file == <<s>>
<1>1. file \in Seq(S) /\ \A x \in S : WellFormed(x) /\ (spares => Spares(x, target))
  OBVIOUS
<1> HIDE DEF S, file
<1>2. FineScript(file, target, spares)
  BY <1>1, StatementsOf
<1> QED
  BY <1>2 DEF file

LEMMA ScriptsJoined ==
  ASSUME NEW a, NEW b, NEW target, NEW spares, FineScript(a, target, spares), FineScript(b, target, spares)
  PROVE  FineScript(a \o b, target, spares)
<1> DEFINE S == ToSet(a) \cup ToSet(b)
<1>1. a \in Seq(ToSet(a)) /\ b \in Seq(ToSet(b))
  BY DEF FineScript, IsScript
<1>2. a \in Seq(S) /\ b \in Seq(S)
  BY <1>1, SeqMonotonic
<1>3. \A s \in S : WellFormed(s) /\ (spares => Spares(s, target))
  BY DEF FineScript, IsScript, SparesAll, ToSet
<1> HIDE DEF S
<1>4. a \o b \in Seq(S)
  BY <1>2, ConcatProperties
<1> QED
  BY <1>3, <1>4, StatementsOf

\* One script for each member of a sequence.
LEMMA EachScript ==
  ASSUME NEW S, NEW seq \in Seq(S), NEW f, f = [i \in DOMAIN seq |-> f[i]], NEW target, NEW spares,
         \A i \in DOMAIN seq : FineScript(f[i], target, spares)
  PROVE  FineScript(FlattenSeq(f), target, spares)
<1> DEFINE n == Len(seq)
           T == UNION {ToSet(f[i]) : i \in 1..n}
<1>1. n \in Nat /\ DOMAIN seq = 1..n
  OBVIOUS
<1> HIDE DEF n
<1>2. ASSUME NEW i \in 1..n PROVE f[i] \in Seq(T)
  <2>1. f[i] \in Seq(ToSet(f[i]))
    BY <1>1 DEF FineScript, IsScript
  <2>2. ToSet(f[i]) \subseteq T
    OBVIOUS
  <2> HIDE DEF T
  <2> QED
    BY <2>1, <2>2, SeqMonotonic
<1>3. ASSUME NEW s \in T PROVE WellFormed(s) /\ (spares => Spares(s, target))
  <2>1. PICK i \in 1..n : s \in ToSet(f[i])
    OBVIOUS
  <2>2. FineScript(f[i], target, spares)
    BY <1>1
  <2>3. PICK j \in DOMAIN f[i] : s = f[i][j]
    BY <2>1 DEF ToSet
  <2> QED
    BY <2>2, <2>3 DEF FineScript, IsScript, SparesAll
<1> HIDE DEF T
<1>4. f \in [1..n -> Seq(T)]
  BY <1>1, <1>2
<1>5. FlattenSeq(f) \in Seq(T)
  BY <1>1, <1>4, Flattened
<1> QED
  BY <1>3, <1>5, StatementsOf

\* Some statements, one for each member of a sequence.
LEMMA EachStatement ==
  ASSUME NEW S, NEW seq \in Seq(S), NEW f, f = [i \in DOMAIN seq |-> f[i]], NEW target, NEW spares,
         \A i \in DOMAIN seq : WellFormed(f[i]) /\ (spares => Spares(f[i], target))
  PROVE  FineScript(f, target, spares)
<1>1. Len(seq) \in Nat /\ DOMAIN seq = 1..Len(seq)
  OBVIOUS
<1>2. f \in [1..Len(seq) -> ToSet(f)]
  BY <1>1 DEF ToSet
<1>3. f \in Seq(ToSet(f))
  BY <1>1, <1>2, IsASeq
<1>4. DOMAIN f = DOMAIN seq
  OBVIOUS
<1> QED
  BY <1>3, <1>4 DEF FineScript, IsScript, SparesAll

\* A statement that drops nothing is always fine.
LEMMA Harmless ==
  ASSUME NEW s, NEW target, s.op \in Ops \ {"createTable", "dropTable", "dropColumn"}
  PROVE  WellFormed(s) /\ Spares(s, target)
BY DEF WellFormed, Spares

LEMMA HarmlessStatement ==
  ASSUME NEW s, NEW target, NEW spares, s.op \in Ops \ {"createTable", "dropTable", "dropColumn"}
  PROVE  FineScript(<<s>>, target, spares)
BY Harmless, OneStatement

LEMMA TableCreated ==
  ASSUME NEW t, NEW table, IsTable(table), KeysAreColumns(table),
         NEW cols, DOMAIN cols = DOMAIN table.cols, NEW target, NEW spares
  PROVE  FineScript(NewTableSQL(t, table, cols), target, spares)
<1> DEFINE create == [op |-> "createTable", table |-> t, pk |-> table.pk, cols |-> cols]
           names == SetToSeq(DOMAIN table.idxs)
           f == [k \in DOMAIN names |-> <<CreateIndex(t, names[k], table.idxs[names[k]])>>]
<1>1. NewTableSQL(t, table, cols) = <<create>> \o FlattenSeq(f)
  BY DEF NewTableSQL, CreateIndexes, Each
<1>2. FineScript(<<create>>, target, spares)
  <2>1. create.op = "createTable" /\ create.cols = cols /\ create.pk = table.pk
    OBVIOUS
  <2>2. WellFormed(create)
    <3> HIDE DEF create
    <3> QED
      BY <2>1 DEF WellFormed, Ops, IsTable, KeysAreColumns
  <2>3. Spares(create, target)
    <3> HIDE DEF create
    <3> QED
      BY <2>1 DEF Spares
  <2> HIDE DEF create
  <2> QED
    BY <2>2, <2>3, OneStatement
<1>3. names \in Seq(DOMAIN table.idxs)
  BY Ordered DEF IsTable
<1>4. ASSUME NEW k \in DOMAIN names PROVE FineScript(f[k], target, spares)
  <2> DEFINE s == CreateIndex(t, names[k], table.idxs[names[k]])
  <2>1. f[k] = <<s>>
    OBVIOUS
  <2>2. s.op = "createIndex"
    BY DEF CreateIndex
  <2> HIDE DEF s, f
  <2> QED
    BY <2>1, <2>2, HarmlessStatement DEF Ops
<1>5. f = [k \in DOMAIN names |-> f[k]]
  OBVIOUS
<1> HIDE DEF f, names, create
<1>6. FineScript(FlattenSeq(f), target, spares)
  BY <1>3, <1>4, <1>5, EachScript
<1> QED
  BY <1>1, <1>2, <1>6, ScriptsJoined

\* The statements of one change.
LEMMA PostgresAlters ==
  ASSUME NEW t, NEW ch, NEW target, SparesColumns(ch, t, target)
  PROVE  FineScript(PostgresAlter(t, ch, target), target, TRUE)
<1>1. CASE ch.type = "AddColumn"
  <2> DEFINE s == PostgresAddColumn(t, ch)
  <2>1. s.op = "addColumn"
    BY DEF PostgresAddColumn, AddColumn
  <2>2. PostgresAlter(t, ch, target) = <<s>>
    BY <1>1 DEF PostgresAlter
  <2> HIDE DEF s
  <2> QED
    BY <2>1, <2>2, HarmlessStatement DEF Ops
<1>2. CASE ch.type = "DropColumn"
  <2> DEFINE s == DropColumn(t, ch.column)
  <2>1. s.op = "dropColumn" /\ s.table = t /\ s.column = ch.column
    BY DEF DropColumn
  <2>2. PostgresAlter(t, ch, target) = <<s>>
    BY <1>2 DEF PostgresAlter
  <2> HIDE DEF s
  <2>3. WellFormed(s) /\ Spares(s, target)
    BY <1>2, <2>1 DEF WellFormed, Ops, Spares, SparesColumns
  <2> QED
    BY <2>2, <2>3, OneStatement
<1>3. CASE ch.type = "AlterColumn"
  <2> DEFINE retype == SetType(t, ch.column, ch.meta.type)
             renull == SetNullable(t, ch.column, ch.meta.nullable)
             redefault == [op |-> "setDefault", table |-> t, column |-> ch.column,
                           default |-> QuoteDefaultValue(ch.meta.default, ch.meta.type)]
             a == IF ch.meta.type # ch.oldType THEN <<retype>> ELSE <<>>
             b == IF ch.meta.nullable # ch.oldNullable THEN <<renull>> ELSE <<>>
             c == IF ch.meta.default = "none" THEN <<Comment>> ELSE <<redefault>>
  <2>1. PostgresAlter(t, ch, target) = a \o b \o c
    BY <1>3 DEF PostgresAlter, PostgresAlterColumn
  <2>2. retype.op = "setType" /\ renull.op = "setNullable" /\ redefault.op = "setDefault" /\ Comment.op = "comment"
    BY DEF SetType, SetNullable, Comment
  <2>3. (a = <<retype>> \/ a = <<>>) /\ (b = <<renull>> \/ b = <<>>) /\ (c = <<redefault>> \/ c = <<Comment>>)
    OBVIOUS
  <2> HIDE DEF retype, renull, redefault, a, b, c
  <2>4. FineScript(a, target, TRUE)
    BY <2>2, <2>3, HarmlessStatement, NoStatement DEF Ops
  <2>5. FineScript(b, target, TRUE)
    BY <2>2, <2>3, HarmlessStatement, NoStatement DEF Ops
  <2>6. FineScript(c, target, TRUE)
    BY <2>2, <2>3, HarmlessStatement DEF Ops
  <2>7. FineScript(a \o b, target, TRUE)
    BY <2>4, <2>5, ScriptsJoined
  <2>8. FineScript((a \o b) \o c, target, TRUE)
    BY <2>6, <2>7, ScriptsJoined
  <2> QED
    BY <2>1, <2>8
<1>4. CASE ch.type \in {"RenameIndex", "CreateIndex", "DropIndex", "DropForeignKey", "ChangePrimaryKey"}
  <2>1. PICK s : PostgresAlter(t, ch, target) = <<s>> /\ s.op \in {"renameIndex", "createIndex", "dropIndex", "invalid", "comment"}
    <3>1. CASE ch.type = "RenameIndex"
      BY <3>1 DEF PostgresAlter, RenameIndex
    <3>2. CASE ch.type = "CreateIndex"
      BY <3>2 DEF PostgresAlter, CreateIndex
    <3>3. CASE ch.type = "DropIndex"
      BY <3>3 DEF PostgresAlter, DropIndex
    <3>4. CASE ch.type = "DropForeignKey"
      BY <3>4 DEF PostgresAlter, Invalid
    <3>5. CASE ch.type = "ChangePrimaryKey"
      BY <3>5 DEF PostgresAlter, Comment
    <3> QED
      BY <1>4, <3>1, <3>2, <3>3, <3>4, <3>5
  <2> QED
    BY <2>1, HarmlessStatement DEF Ops
<1> QED
  BY <1>1, <1>2, <1>3, <1>4 DEF SparesColumns, ChangeTypes

LEMMA MySQLAlters ==
  ASSUME NEW t, NEW ch, NEW target, SparesColumns(ch, t, target)
  PROVE  FineScript(MySQLAlter(t, ch), target, TRUE)
<1>1. CASE ch.type = "DropColumn"
  <2> DEFINE s == DropColumn(t, ch.column)
  <2>1. s.op = "dropColumn" /\ s.table = t /\ s.column = ch.column
    BY DEF DropColumn
  <2>2. MySQLAlter(t, ch) = <<s>>
    BY <1>1 DEF MySQLAlter
  <2> HIDE DEF s
  <2>3. WellFormed(s) /\ Spares(s, target)
    BY <1>1, <2>1 DEF WellFormed, Ops, Spares, SparesColumns
  <2> QED
    BY <2>2, <2>3, OneStatement
<1>2. CASE ch.type # "DropColumn"
  <2>1. PICK s : /\ MySQLAlter(t, ch) = <<s>>
                 /\ s.op \in {"addColumn", "modifyColumn", "renameIndex", "dropIndex", "invalid", "comment"}
    <3>1. CASE ch.type = "AddColumn"
      BY <3>1 DEF MySQLAlter, AddColumn
    <3>2. CASE ch.type = "AlterColumn"
      BY <3>2 DEF MySQLAlter
    <3>3. CASE ch.type = "RenameIndex"
      BY <3>3 DEF MySQLAlter, RenameIndex
    <3>4. CASE ch.type = "CreateIndex"
      BY <3>4 DEF MySQLAlter, Invalid
    <3>5. CASE ch.type = "DropIndex"
      BY <3>5 DEF MySQLAlter, DropIndex
    <3>6. CASE ch.type \in {"DropForeignKey", "ChangePrimaryKey"}
      BY <3>6 DEF MySQLAlter, Comment
    <3> QED
      BY <1>2, <3>1, <3>2, <3>3, <3>4, <3>5, <3>6 DEF SparesColumns, ChangeTypes
  <2> QED
    BY <2>1, HarmlessStatement DEF Ops
<1> QED
  BY <1>1, <1>2

LEMMA SQLiteAlters ==
  ASSUME NEW t, NEW changes, NEW target, SparingChanges(changes, t, target)
  PROVE  FineScript(SQLiteAlterTable(t, changes, target), target, TRUE)
<1> DEFINE adds == Only(changes, LAMBDA ch : ch.type = "AddColumn")
           pk == IF t \in DOMAIN target THEN target[t].pk ELSE <<>>
           f == [i \in DOMAIN adds |-> SQLiteAddColumn(t, adds[i], pk)]
           rest == IF Only(changes, LAMBDA ch : ch.type # "AddColumn") = <<>> THEN <<>> ELSE <<Comment>>
<1>1. SQLiteAlterTable(t, changes, target) = f \o rest
  BY DEF SQLiteAlterTable
<1>2. adds \in Seq(ToSet(changes))
  <2> DEFINE some == {i \in DOMAIN changes : changes[i].type = "AddColumn"}
  <2>1. adds = FlattenSeq([i \in DOMAIN changes |-> IF i \in some THEN <<changes[i]>> ELSE <<>>])
    BY DEF Only, Each
  <2>2. changes \in Seq(ToSet(changes))
    BY DEF SparingChanges
  <2> HIDE DEF some, adds
  <2> QED
    BY <2>1, <2>2, Passing
<1>3. \A i \in DOMAIN adds : f[i].op = "addColumn"
  BY DEF SQLiteAddColumn, AddColumn
<1>4. f = [i \in DOMAIN adds |-> f[i]]
  OBVIOUS
<1>5. rest = <<>> \/ rest = <<Comment>>
  OBVIOUS
<1> HIDE DEF adds, f, rest
<1>6. FineScript(f, target, TRUE)
  <2>1. \A i \in DOMAIN adds : WellFormed(f[i]) /\ Spares(f[i], target)
    BY <1>3, Harmless DEF Ops
  <2> QED
    BY <1>2, <1>4, <2>1, EachStatement
<1>7. FineScript(rest, target, TRUE)
  BY <1>5, NoStatement, HarmlessStatement DEF Ops, Comment
<1> QED
  BY <1>1, <1>6, <1>7, ScriptsJoined

\* Tables are created, altered and dropped by fine scripts.
LEMMA ScriptOfParts ==
  ASSUME NEW diff, NEW target, GoodDiff(diff, target), NEW cascade,
         NEW creates, creates = [i \in DOMAIN diff.create |-> creates[i]],
         \A i \in DOMAIN diff.create : FineScript(creates[i], target, TRUE),
         NEW alters, alters = [i \in DOMAIN diff.alter |-> alters[i]],
         \A i \in DOMAIN diff.alter : FineScript(alters[i], target, TRUE)
  PROVE  FineScript(FlattenSeq(creates) \o FlattenSeq(alters) \o
                    FlattenSeq([i \in DOMAIN diff.drop |-> <<DropTable(diff.drop[i], cascade)>>]), target, TRUE)
<1> DEFINE drops == [i \in DOMAIN diff.drop |-> <<DropTable(diff.drop[i], cascade)>>]
<1>1. FineScript(FlattenSeq(creates), target, TRUE)
  BY EachScript DEF GoodDiff
<1>2. FineScript(FlattenSeq(alters), target, TRUE)
  BY EachScript DEF GoodDiff
<1>3. drops = [i \in DOMAIN diff.drop |-> drops[i]]
  OBVIOUS
<1>4. ASSUME NEW i \in DOMAIN diff.drop PROVE FineScript(drops[i], target, TRUE)
  <2> DEFINE s == DropTable(diff.drop[i], cascade)
  <2>1. s.op = "dropTable" /\ s.table = diff.drop[i] /\ drops[i] = <<s>>
    BY DEF DropTable
  <2> HIDE DEF s, drops
  <2>2. WellFormed(s) /\ Spares(s, target)
    BY <2>1 DEF WellFormed, Ops, Spares, GoodDiff
  <2> QED
    BY <2>1, <2>2, OneStatement
<1> HIDE DEF drops
<1>5. FineScript(FlattenSeq(drops), target, TRUE)
  BY <1>3, <1>4, EachScript DEF GoodDiff
<1>6. FineScript(FlattenSeq(creates) \o FlattenSeq(alters), target, TRUE)
  BY <1>1, <1>2, ScriptsJoined
<1>7. FineScript((FlattenSeq(creates) \o FlattenSeq(alters)) \o FlattenSeq(drops), target, TRUE)
  BY <1>5, <1>6, ScriptsJoined
<1> QED
  BY <1>7 DEF drops

LEMMA PostgresScript ==
  ASSUME NEW diff, NEW target, GoodCatalog(target), GoodDiff(diff, target)
  PROVE  FineScript(PostgresMigrationSQL(diff, target), target, TRUE)
<1> DEFINE creates == [i \in DOMAIN diff.create |-> PostgresCreateTable(diff.create[i], target[diff.create[i]])]
           alter(a) == FlattenSeq([j \in DOMAIN a.changes |-> PostgresAlter(a.table, a.changes[j], target)])
           alters == [i \in DOMAIN diff.alter |-> alter(diff.alter[i])]
           commandsOf == FlattenSeq(creates) \o FlattenSeq(alters) \o
                     FlattenSeq([i \in DOMAIN diff.drop |-> <<DropTable(diff.drop[i], TRUE)>>])
<1>1. PostgresMigrationSQL(diff, target) = commandsOf
  BY DEF PostgresMigrationSQL, Each
<1>2. ASSUME NEW i \in DOMAIN diff.create PROVE FineScript(creates[i], target, TRUE)
  <2> DEFINE t == diff.create[i]
             cols == [c \in DOMAIN target[t].cols |-> PostgresColumn(target[t].cols[c])]
  <2>1. IsTable(target[t]) /\ KeysAreColumns(target[t])
    BY DEF GoodDiff, GoodCatalog
  <2>2. creates[i] = NewTableSQL(t, target[t], cols) /\ DOMAIN cols = DOMAIN target[t].cols
    BY DEF PostgresCreateTable
  <2> HIDE DEF creates, t, cols
  <2> QED
    BY <2>1, <2>2, TableCreated
<1>3. ASSUME NEW i \in DOMAIN diff.alter PROVE FineScript(alters[i], target, TRUE)
  <2> DEFINE a == diff.alter[i]
             f == [j \in DOMAIN a.changes |-> PostgresAlter(a.table, a.changes[j], target)]
  <2>1. SparingChanges(a.changes, a.table, target)
    BY DEF GoodDiff
  <2>2. \A j \in DOMAIN a.changes : FineScript(f[j], target, TRUE)
    BY <2>1, PostgresAlters DEF SparingChanges
  <2>3. alters[i] = FlattenSeq(f) /\ f = [j \in DOMAIN a.changes |-> f[j]]
    OBVIOUS
  <2> HIDE DEF a, f, alters
  <2> QED
    BY <2>1, <2>2, <2>3, EachScript DEF SparingChanges
<1>4. creates = [i \in DOMAIN diff.create |-> creates[i]] /\ alters = [i \in DOMAIN diff.alter |-> alters[i]]
  OBVIOUS
<1> HIDE DEF creates, alters
<1>5. FineScript(commandsOf, target, TRUE)
  BY <1>2, <1>3, <1>4, ScriptOfParts
<1> QED
  BY <1>1, <1>5

LEMMA MySQLScript ==
  ASSUME NEW diff, NEW target, GoodCatalog(target), GoodDiff(diff, target)
  PROVE  FineScript(MySQLMigrationSQL(diff, target), target, TRUE)
<1> DEFINE creates == [i \in DOMAIN diff.create |-> MySQLCreateTable(diff.create[i], target[diff.create[i]])]
           alter(a) == FlattenSeq([j \in DOMAIN a.changes |-> MySQLAlter(a.table, a.changes[j])])
           alters == [i \in DOMAIN diff.alter |-> alter(diff.alter[i])]
           commandsOf == FlattenSeq(creates) \o FlattenSeq(alters) \o
                     FlattenSeq([i \in DOMAIN diff.drop |-> <<DropTable(diff.drop[i], FALSE)>>])
<1>1. MySQLMigrationSQL(diff, target) = commandsOf
  BY DEF MySQLMigrationSQL, Each
<1>2. ASSUME NEW i \in DOMAIN diff.create PROVE FineScript(creates[i], target, TRUE)
  <2> DEFINE t == diff.create[i]
             cols == [c \in DOMAIN target[t].cols |-> MySQLColumn(target[t].cols[c])]
  <2>1. IsTable(target[t]) /\ KeysAreColumns(target[t])
    BY DEF GoodDiff, GoodCatalog
  <2>2. creates[i] = NewTableSQL(t, target[t], cols) /\ DOMAIN cols = DOMAIN target[t].cols
    BY DEF MySQLCreateTable
  <2> HIDE DEF creates, t, cols
  <2> QED
    BY <2>1, <2>2, TableCreated
<1>3. ASSUME NEW i \in DOMAIN diff.alter PROVE FineScript(alters[i], target, TRUE)
  <2> DEFINE a == diff.alter[i]
             f == [j \in DOMAIN a.changes |-> MySQLAlter(a.table, a.changes[j])]
  <2>1. SparingChanges(a.changes, a.table, target)
    BY DEF GoodDiff
  <2>2. \A j \in DOMAIN a.changes : FineScript(f[j], target, TRUE)
    BY <2>1, MySQLAlters DEF SparingChanges
  <2>3. alters[i] = FlattenSeq(f) /\ f = [j \in DOMAIN a.changes |-> f[j]]
    OBVIOUS
  <2> HIDE DEF a, f, alters
  <2> QED
    BY <2>1, <2>2, <2>3, EachScript DEF SparingChanges
<1>4. creates = [i \in DOMAIN diff.create |-> creates[i]] /\ alters = [i \in DOMAIN diff.alter |-> alters[i]]
  OBVIOUS
<1> HIDE DEF creates, alters
<1>5. FineScript(commandsOf, target, TRUE)
  BY <1>2, <1>3, <1>4, ScriptOfParts
<1> QED
  BY <1>1, <1>5

LEMMA SQLiteScript ==
  ASSUME NEW diff, NEW target, GoodCatalog(target), GoodDiff(diff, target)
  PROVE  FineScript(SQLiteMigrationSQL(diff, target), target, TRUE)
<1> DEFINE creates == [i \in DOMAIN diff.create |-> SQLiteCreateTable(diff.create[i], target[diff.create[i]])]
           alters == [i \in DOMAIN diff.alter |-> SQLiteAlterTable(diff.alter[i].table, diff.alter[i].changes, target)]
           commandsOf == FlattenSeq(creates) \o FlattenSeq(alters) \o
                     FlattenSeq([i \in DOMAIN diff.drop |-> <<DropTable(diff.drop[i], FALSE)>>])
<1>1. SQLiteMigrationSQL(diff, target) = commandsOf
  BY DEF SQLiteMigrationSQL, Each
<1>2. ASSUME NEW i \in DOMAIN diff.create PROVE FineScript(creates[i], target, TRUE)
  <2> DEFINE t == diff.create[i]
             cols == [c \in DOMAIN target[t].cols |-> SQLiteColumn(target[t].cols[c], SinglePK(target[t].pk, c))]
  <2>1. IsTable(target[t]) /\ KeysAreColumns(target[t])
    BY DEF GoodDiff, GoodCatalog
  <2>2. creates[i] = NewTableSQL(t, target[t], cols) /\ DOMAIN cols = DOMAIN target[t].cols
    BY DEF SQLiteCreateTable
  <2> HIDE DEF creates, t, cols
  <2> QED
    BY <2>1, <2>2, TableCreated
<1>3. \A i \in DOMAIN diff.alter : FineScript(alters[i], target, TRUE)
  BY SQLiteAlters DEF GoodDiff
<1>4. creates = [i \in DOMAIN diff.create |-> creates[i]] /\ alters = [i \in DOMAIN diff.alter |-> alters[i]]
  OBVIOUS
<1> HIDE DEF creates, alters
<1>5. FineScript(commandsOf, target, TRUE)
  BY <1>2, <1>3, <1>4, ScriptOfParts
<1> QED
  BY <1>1, <1>5

\* Whatever order the differ has met its changes in, the script of a push is fine.
LEMMA ScriptGenerated ==
  ASSUME NEW prov \in Providers, NEW diff, NEW target, GoodCatalog(target), GoodDiff(diff, target)
  PROVE  FineScript(GenerateMigrationSQL(prov, diff, target), target, TRUE)
<1>1. CASE prov = "postgresql"
  BY <1>1, PostgresScript DEF GenerateMigrationSQL
<1>2. CASE prov = "mysql"
  BY <1>2, MySQLScript DEF GenerateMigrationSQL
<1>3. CASE prov = "sqlite"
  BY <1>3, SQLiteScript DEF GenerateMigrationSQL
<1> QED
  BY <1>1, <1>2, <1>3, ProvidersAssumption

LEMMA Reversed ==
  ASSUME NEW S, NEW s \in Seq(S)
  PROVE  Reverse(s) \in Seq(S)
<1>1. Len(s) \in Nat
  OBVIOUS
<1>2. ASSUME NEW i \in 1..Len(s) PROVE s[(Len(s) - i) + 1] \in S
  <2>1. (Len(s) - i) + 1 \in 1..Len(s)
    BY <1>1
  <2> QED
    BY <2>1
<1>3. [i \in 1..Len(s) |-> s[(Len(s) - i) + 1]] \in [1..Len(s) -> S]
  BY <1>2
<1> QED
  BY <1>1, <1>3, IsASeq DEF Reverse

\* The way back from one change drops columns, indexes and nothing that cannot be written.
LEMMA ChangesUndone ==
  ASSUME NEW t, NEW ch, ch.type \in ChangeTypes, NEW target
  PROVE  /\ FineScript(PostgresRollback(t, ch), target, FALSE)
         /\ FineScript(MySQLRollback(t, ch), target, FALSE)
         /\ FineScript(SQLiteRollback(t, ch), target, FALSE)
<1> DEFINE drop == DropColumn(t, ch.column)
           some == {"modifyColumn", "dropIndex", "renameIndex", "comment"}
<1>1. FineScript(<<drop>>, target, FALSE)
  <2>1. drop.op = "dropColumn"
    BY DEF DropColumn
  <2> HIDE DEF drop
  <2>2. WellFormed(drop)
    BY <2>1 DEF WellFormed, Ops
  <2> QED
    BY <2>2, OneStatement
<1>2. FineScript(PostgresRollbackColumn(t, ch), target, FALSE)
  <2> DEFINE a == SetType(t, ch.column, ch.oldType)
             b == SetNullable(t, ch.column, ch.oldNullable)
  <2>1. a.op = "setType" /\ b.op = "setNullable" /\ PostgresRollbackColumn(t, ch) = <<a>> \o <<b>>
    BY DEF SetType, SetNullable, PostgresRollbackColumn
  <2> HIDE DEF a, b
  <2>2. FineScript(<<a>>, target, FALSE) /\ FineScript(<<b>>, target, FALSE)
    BY <2>1, HarmlessStatement DEF Ops
  <2> QED
    BY <2>1, <2>2, ScriptsJoined
<1>3. \/ PostgresRollback(t, ch) = <<>> \/ PostgresRollback(t, ch) = <<drop>>
      \/ PostgresRollback(t, ch) = PostgresRollbackColumn(t, ch)
      \/ \E s : PostgresRollback(t, ch) = <<s>> /\ s.op \in some
  <2>1. CASE ch.type = "AddColumn"
    BY <2>1 DEF PostgresRollback
  <2>2. CASE ch.type = "AlterColumn"
    BY <2>2 DEF PostgresRollback
  <2>3. CASE ch.type = "CreateIndex"
    BY <2>3 DEF PostgresRollback, DropIndex
  <2>4. CASE ch.type = "RenameIndex"
    BY <2>4 DEF PostgresRollback, RenameIndex
  <2>5. CASE ch.type \in {"DropColumn", "DropIndex", "DropForeignKey"}
    BY <2>5 DEF PostgresRollback, Comment
  <2>6. CASE ch.type = "ChangePrimaryKey"
    BY <2>6 DEF PostgresRollback
  <2> QED
    BY <2>1, <2>2, <2>3, <2>4, <2>5, <2>6 DEF ChangeTypes
<1>4. \/ MySQLRollback(t, ch) = <<>> \/ MySQLRollback(t, ch) = <<drop>>
      \/ \E s : MySQLRollback(t, ch) = <<s>> /\ s.op \in some
  <2>1. CASE ch.type = "AddColumn"
    BY <2>1 DEF MySQLRollback
  <2>2. CASE ch.type = "AlterColumn"
    BY <2>2 DEF MySQLRollback
  <2>3. CASE ch.type = "CreateIndex"
    BY <2>3 DEF MySQLRollback, DropIndex
  <2>4. CASE ch.type = "RenameIndex"
    BY <2>4 DEF MySQLRollback, RenameIndex
  <2>5. CASE ch.type \in {"DropColumn", "DropIndex", "DropForeignKey"}
    BY <2>5 DEF MySQLRollback, Comment
  <2>6. CASE ch.type = "ChangePrimaryKey"
    BY <2>6 DEF MySQLRollback
  <2> QED
    BY <2>1, <2>2, <2>3, <2>4, <2>5, <2>6 DEF ChangeTypes
<1>5. \E s : SQLiteRollback(t, ch) = <<s>> /\ s.op \in some
  BY DEF SQLiteRollback, DropIndex, Comment
<1>6. \A s : s.op \in some => FineScript(<<s>>, target, FALSE)
  BY HarmlessStatement DEF Ops
<1> HIDE DEF drop, some
<1> QED
  BY <1>1, <1>2, <1>3, <1>4, <1>5, <1>6, NoStatement

\* The alterations are undone change by change, from the last; the rest of a rollback is the same on each database.
LEMMA RollbackOfParts ==
  ASSUME NEW diff, NEW target, GoodDiff(diff, target), NEW cascade, NEW undo,
         \A i \in DOMAIN diff.alter : \A j \in DOMAIN Reverse(diff.alter[i].changes) :
           FineScript(undo[i][j], target, FALSE)
  PROVE  IsScript(FlattenSeq([i \in DOMAIN diff.drop |-> <<Comment>>]) \o
                  FlattenSeq([i \in DOMAIN diff.alter |->
                                FlattenSeq([j \in DOMAIN Reverse(diff.alter[i].changes) |-> undo[i][j]])]) \o
                  FlattenSeq([i \in DOMAIN diff.create |-> <<DropTable(diff.create[i], cascade)>>]))
<1> DEFINE notes == [i \in DOMAIN diff.drop |-> <<Comment>>]
           one(i) == [j \in DOMAIN Reverse(diff.alter[i].changes) |-> undo[i][j]]
           alters == [i \in DOMAIN diff.alter |-> FlattenSeq(one(i))]
           drops == [i \in DOMAIN diff.create |-> <<DropTable(diff.create[i], cascade)>>]
<1>1. FineScript(FlattenSeq(notes), target, FALSE)
  <2>1. notes = [i \in DOMAIN diff.drop |-> notes[i]] /\ \A i \in DOMAIN diff.drop : notes[i] = <<Comment>>
    OBVIOUS
  <2>2. FineScript(<<Comment>>, target, FALSE)
    BY HarmlessStatement DEF Comment, Ops
  <2> HIDE DEF notes
  <2> QED
    BY <2>1, <2>2, EachScript DEF GoodDiff
<1>2. FineScript(FlattenSeq(alters), target, FALSE)
  <2>1. ASSUME NEW i \in DOMAIN diff.alter PROVE FineScript(FlattenSeq(one(i)), target, FALSE)
    <3> DEFINE back == Reverse(diff.alter[i].changes)
               f == one(i)
    <3>1. back \in Seq(ToSet(diff.alter[i].changes))
      BY Reversed DEF GoodDiff, SparingChanges
    <3>2. f = [j \in DOMAIN back |-> f[j]] /\ \A j \in DOMAIN back : FineScript(f[j], target, FALSE)
      OBVIOUS
    <3> HIDE DEF back, one, f
    <3>3. FineScript(FlattenSeq(f), target, FALSE)
      BY <3>1, <3>2, EachScript
    <3> QED
      BY <3>3 DEF f
  <2> HIDE DEF one
  <2>2. alters = [i \in DOMAIN diff.alter |-> alters[i]] /\ \A i \in DOMAIN diff.alter : FineScript(alters[i], target, FALSE)
    BY <2>1
  <2> HIDE DEF alters
  <2> QED
    BY <2>2, EachScript DEF GoodDiff
<1>3. FineScript(FlattenSeq(drops), target, FALSE)
  <2>1. ASSUME NEW i \in DOMAIN diff.create PROVE FineScript(drops[i], target, FALSE)
    <3> DEFINE s == DropTable(diff.create[i], cascade)
    <3>1. s.op = "dropTable" /\ drops[i] = <<s>>
      BY DEF DropTable
    <3> HIDE DEF s, drops
    <3>2. WellFormed(s)
      BY <3>1 DEF WellFormed, Ops
    <3> QED
      BY <3>1, <3>2, OneStatement
  <2>2. drops = [i \in DOMAIN diff.create |-> drops[i]]
    OBVIOUS
  <2> HIDE DEF drops
  <2> QED
    BY <2>1, <2>2, EachScript DEF GoodDiff
<1> HIDE DEF notes, alters, drops
<1>4. FineScript(FlattenSeq(notes) \o FlattenSeq(alters), target, FALSE)
  BY <1>1, <1>2, ScriptsJoined
<1>5. FineScript((FlattenSeq(notes) \o FlattenSeq(alters)) \o FlattenSeq(drops), target, FALSE)
  BY <1>3, <1>4, ScriptsJoined
<1>6. IsScript((FlattenSeq(notes) \o FlattenSeq(alters)) \o FlattenSeq(drops))
  BY <1>5 DEF FineScript
<1> QED
  BY <1>6 DEF notes, alters, drops

LEMMA RollbackGenerated ==
  ASSUME NEW prov \in Providers, NEW diff, NEW target, GoodDiff(diff, target)
  PROVE  IsScript(GenerateRollbackSQL(prov, diff))
<1>0. \A i \in DOMAIN diff.alter : \A j \in DOMAIN Reverse(diff.alter[i].changes) :
        Reverse(diff.alter[i].changes)[j].type \in ChangeTypes
  <2> TAKE i \in DOMAIN diff.alter
  <2> DEFINE changes == diff.alter[i].changes
             S == ToSet(changes)
  <2>1. \A ch \in S : ch.type \in ChangeTypes
    BY DEF GoodDiff, SparingChanges, SparesColumns, ToSet
  <2>2. changes \in Seq(S)
    BY DEF GoodDiff, SparingChanges
  <2> HIDE DEF S, changes
  <2>3. Reverse(changes) \in Seq(S)
    BY <2>2, Reversed
  <2>4. \A j \in DOMAIN Reverse(changes) : Reverse(changes)[j] \in S
    BY <2>3
  <2>5. \A j \in DOMAIN Reverse(changes) : Reverse(changes)[j].type \in ChangeTypes
    BY <2>1, <2>4
  <2> QED
    BY <2>5 DEF changes
<1>1. CASE prov = "postgresql"
  <2> DEFINE undo == [i \in DOMAIN diff.alter |-> [j \in DOMAIN Reverse(diff.alter[i].changes) |->
                        PostgresRollback(diff.alter[i].table, Reverse(diff.alter[i].changes)[j])]]
             commandsOf == FlattenSeq([i \in DOMAIN diff.drop |-> <<Comment>>]) \o
                       FlattenSeq([i \in DOMAIN diff.alter |->
                                     FlattenSeq([j \in DOMAIN Reverse(diff.alter[i].changes) |-> undo[i][j]])]) \o
                       FlattenSeq([i \in DOMAIN diff.create |-> <<DropTable(diff.create[i], TRUE)>>])
  <2>1. GenerateRollbackSQL(prov, diff) = commandsOf
    BY <1>1 DEF GenerateRollbackSQL, PostgresRollbackSQL, Each
  <2>2. \A i \in DOMAIN diff.alter : \A j \in DOMAIN Reverse(diff.alter[i].changes) : FineScript(undo[i][j], target, FALSE)
    BY <1>0, ChangesUndone
  <2> HIDE DEF undo
  <2> QED
    BY <2>1, <2>2, RollbackOfParts
<1>2. CASE prov = "mysql"
  <2> DEFINE undo == [i \in DOMAIN diff.alter |-> [j \in DOMAIN Reverse(diff.alter[i].changes) |->
                        MySQLRollback(diff.alter[i].table, Reverse(diff.alter[i].changes)[j])]]
             commandsOf == FlattenSeq([i \in DOMAIN diff.drop |-> <<Comment>>]) \o
                       FlattenSeq([i \in DOMAIN diff.alter |->
                                     FlattenSeq([j \in DOMAIN Reverse(diff.alter[i].changes) |-> undo[i][j]])]) \o
                       FlattenSeq([i \in DOMAIN diff.create |-> <<DropTable(diff.create[i], FALSE)>>])
  <2>1. GenerateRollbackSQL(prov, diff) = commandsOf
    BY <1>2 DEF GenerateRollbackSQL, MySQLRollbackSQL, Each
  <2>2. \A i \in DOMAIN diff.alter : \A j \in DOMAIN Reverse(diff.alter[i].changes) : FineScript(undo[i][j], target, FALSE)
    BY <1>0, ChangesUndone
  <2> HIDE DEF undo
  <2> QED
    BY <2>1, <2>2, RollbackOfParts
<1>3. CASE prov = "sqlite"
  <2> DEFINE undo == [i \in DOMAIN diff.alter |-> [j \in DOMAIN Reverse(diff.alter[i].changes) |->
                        SQLiteRollback(diff.alter[i].table, Reverse(diff.alter[i].changes)[j])]]
             commandsOf == FlattenSeq([i \in DOMAIN diff.drop |-> <<Comment>>]) \o
                       FlattenSeq([i \in DOMAIN diff.alter |->
                                     FlattenSeq([j \in DOMAIN Reverse(diff.alter[i].changes) |-> undo[i][j]])]) \o
                       FlattenSeq([i \in DOMAIN diff.create |-> <<DropTable(diff.create[i], FALSE)>>])
  <2>1. GenerateRollbackSQL(prov, diff) = commandsOf
    BY <1>3 DEF GenerateRollbackSQL, SQLiteRollbackSQL, Each
  <2>2. \A i \in DOMAIN diff.alter : \A j \in DOMAIN Reverse(diff.alter[i].changes) : FineScript(undo[i][j], target, FALSE)
    BY <1>0, ChangesUndone
  <2> HIDE DEF undo
  <2> QED
    BY <2>1, <2>2, RollbackOfParts
<1> QED
  BY <1>1, <1>2, <1>3, ProvidersAssumption

\* The statements of a file, without the comments.
LEMMA StatementsKept ==
  ASSUME NEW file, NEW target, NEW spares, FineScript(file, target, spares)
  PROVE  FineScript(Statements(file), target, spares)
<1> DEFINE some == {i \in DOMAIN file : file[i].op # "comment"}
           S == ToSet(file)
<1>1. Statements(file) = FlattenSeq([i \in DOMAIN file |-> IF i \in some THEN <<file[i]>> ELSE <<>>])
  BY DEF Statements, Only, Each
<1>2. file \in Seq(S)
  BY DEF FineScript, IsScript
<1>3. \A s \in S : WellFormed(s) /\ (spares => Spares(s, target))
  BY DEF FineScript, IsScript, SparesAll, ToSet
<1> HIDE DEF some, S
<1>4. Statements(file) \in Seq(S)
  BY <1>1, <1>2, Passing
<1> QED
  BY <1>3, <1>4, StatementsOf

-----------------------------------------------------------------------------
(* What introspection reads.                                               *)

LEMMA Introspected ==
  ASSUME NEW prov \in Providers, NEW t, IsTable(t)
  PROVE  IsTable(IntrospectTable(prov, t))
<1>0. IsFiniteSet(DOMAIN t.cols) /\ IsFiniteSet(DOMAIN t.idxs) /\ IsFiniteSet(t.fks)
  BY DEF IsTable
<1>1. IsFiniteSet(DOMAIN Listed(t) \ {<<"PRIMARY">>})
  <2> DEFINE key == <<"PRIMARY">>
             index == [cols |-> t.pk, unique |-> TRUE]
  <2>1. Listed(t) = With(t.idxs, key, index)
    BY DEF Listed
  <2> HIDE DEF key, index
  <2>2. IsFiniteSet(DOMAIN Listed(t))
    BY <1>0, <2>1, OneMore
  <2>3. DOMAIN Listed(t) \ {key} \in SUBSET DOMAIN Listed(t)
    OBVIOUS
  <2>4. IsFiniteSet(DOMAIN Listed(t) \ {key})
    BY <2>2, <2>3, FS_Subset
  <2> QED
    BY <2>4 DEF key
<1>2. CASE prov = "postgresql"
  <2>1. DOMAIN PostgresColumns(t) = DOMAIN t.cols
    BY DEF PostgresColumns
  <2>2. DOMAIN PostgresIndexes(t) = DOMAIN Listed(t) \ {<<"PRIMARY">>} /\ PostgresForeignKeys(t) = t.fks
    BY DEF PostgresIndexes, PostgresForeignKeys
  <2> QED
    BY <1>0, <1>1, <1>2, <2>1, <2>2, MadeOf DEF IntrospectTable, PostgresTable
<1>3. CASE prov = "mysql"
  <2>1. DOMAIN MySQLColumns(t) = DOMAIN t.cols
    BY DEF MySQLColumns
  <2>2. DOMAIN MySQLIndexes(t) = DOMAIN Listed(t) \ {<<"PRIMARY">>} /\ MySQLForeignKeys(t) = t.fks
    BY DEF MySQLIndexes, MySQLForeignKeys
  <2> QED
    BY <1>0, <1>1, <1>3, <2>1, <2>2, MadeOf DEF IntrospectTable, MySQLTable
<1>4. CASE prov = "sqlite"
  <2>1. DOMAIN SQLiteColumns(t) = DOMAIN t.cols
    BY DEF SQLiteColumns
  <2>2. SQLiteIndexes(t) = t.idxs /\ SQLiteForeignKeys(t) = t.fks
    BY DEF SQLiteIndexes, SQLiteForeignKeys
  <2> QED
    BY <1>0, <1>4, <2>1, <2>2, MadeOf DEF IntrospectTable, SQLiteTable
<1> QED
  BY <1>2, <1>3, <1>4, ProvidersAssumption

LEMMA GoneTable == IsTable(EmptyTable)
<1> DEFINE none == <<>>
<1>1. DOMAIN none = {}
  OBVIOUS
<1>2. IsFiniteSet(DOMAIN none)
  BY <1>1, FS_EmptySet
<1> HIDE DEF none
<1>3. IsTable([cols |-> none, pk |-> none, idxs |-> none, fks |-> {}])
  BY <1>2, FS_EmptySet, MadeOf
<1> QED
  BY <1>3 DEF EmptyTable, none

-----------------------------------------------------------------------------
(* The inductive invariant: what a process has read is a catalog, what it  *)
(* still has to execute spares its own schema, and the way back from the   *)
(* last migration is a script.                                             *)

ProcsInv ==
  /\ provider \in Providers
  /\ pc \in [Procs -> {"idle", "read", "execute"}]
  /\ schema \in [Procs -> DOMAIN Schemas[provider] \cup {"none"}]
  /\ outcome \in [Procs -> {"none", "success", "failed", "up_to_date"}]
  /\ seen = [p \in Procs |-> seen[p]]
  /\ script = [p \in Procs |-> script[p]]
  /\ \A p \in Procs : /\ GoodTables(seen[p])
                      /\ FineScript(script[p], Target(p), TRUE)
                      /\ pc[p] # "execute" => script[p] = <<>>

DatabaseInv ==
  /\ GoodCatalog(catalog)
  /\ alone \in [Procs -> BOOLEAN]
  /\ "state" \in DOMAIN migration
  /\ migration.state \in {"none", "applied", "rolledback"}
  /\ migration.state = "applied" => IsScript(migration.down)
  /\ commands \in 0..MaxCommands

IInv == ProcsInv /\ DatabaseInv

LEMMA GoodTarget ==
  ASSUME ProcsInv, NEW p \in Procs
  PROVE  GoodCatalog(Target(p))
BY TargetsAreCatalogs DEF ProcsInv, Target

LEMMA NothingRead == GoodTables(<<>>)
<1> DEFINE none == <<>>
<1>1. DOMAIN none = {}
  OBVIOUS
<1> HIDE DEF none
<1>2. GoodTables(none)
  BY <1>1, FS_EmptySet DEF GoodTables
<1> QED
  BY <1>2 DEF none

LEMMA Initially == Init => IInv
<1> SUFFICES ASSUME Init PROVE IInv
  OBVIOUS
<1> USE DEF Init
<1>1. ASSUME NEW p \in Procs
      PROVE  GoodTables(seen[p]) /\ FineScript(script[p], Target(p), TRUE) /\ script[p] = <<>>
  BY <1>1, NothingRead, NoStatement
<1>2. ProcsInv
  BY <1>1 DEF ProcsInv
<1>3. GoodCatalog(catalog)
  BY FirstCatalogsAssumption DEF GoodCatalog
<1>4. "state" \in DOMAIN migration /\ migration.state = "none"
  BY DEF None
<1>5. alone \in [Procs -> BOOLEAN] /\ commands \in 0..MaxCommands
  BY CommandsAssumption
<1> QED
  BY <1>2, <1>3, <1>4, <1>5 DEF IInv, DatabaseInv

\* A command that ends leaves nothing to do.
LEMMA Finished ==
  ASSUME ProcsInv, NEW p \in Procs, NEW result \in {"success", "failed", "up_to_date"},
         Finish(p, result), provider' = provider
  PROVE  ProcsInv'
<1> USE DEF ProcsInv, Finish
<1>1. pc' \in [Procs -> {"idle", "read", "execute"}] /\ outcome' \in [Procs -> {"none", "success", "failed", "up_to_date"}]
  OBVIOUS
<1>2. schema' \in [Procs -> DOMAIN Schemas[provider] \cup {"none"}]
  OBVIOUS
<1>3. seen' = [q \in Procs |-> seen'[q]] /\ script' = [q \in Procs |-> script'[q]]
  OBVIOUS
<1>4. ASSUME NEW q \in Procs
      PROVE  GoodTables(seen'[q]) /\ FineScript(script'[q], Target(q)', TRUE) /\ (pc'[q] # "execute" => script'[q] = <<>>)
  <2>1. CASE q = p
    <3>1. seen'[q] = <<>> /\ script'[q] = <<>>
      BY <2>1
    <3> QED
      BY <3>1, NothingRead, NoStatement
  <2>2. CASE q # p
    <3>1. seen'[q] = seen[q] /\ script'[q] = script[q] /\ pc'[q] = pc[q] /\ schema'[q] = schema[q]
      BY <2>2
    <3>2. Target(q)' = Target(q)
      BY <3>1 DEF Target
    <3> QED
      BY <3>1, <3>2
  <2> QED
    BY <2>1, <2>2
<1> QED
  BY <1>1, <1>2, <1>3, <1>4

LEMMA Beginning ==
  ASSUME IInv, NEW p \in Procs, Begin(p)
  PROVE  IInv'
<1> USE DEF IInv, ProcsInv, Begin
<1>1. pc' \in [Procs -> {"idle", "read", "execute"}] /\ outcome' \in [Procs -> {"none", "success", "failed", "up_to_date"}]
  OBVIOUS
<1>2. PICK s \in DOMAIN Schemas[provider] : schema' = [schema EXCEPT ![p] = s]
  OBVIOUS
<1>3. schema' \in [Procs -> DOMAIN Schemas[provider] \cup {"none"}]
  BY <1>2
<1>4. ASSUME NEW q \in Procs
      PROVE  GoodTables(seen'[q]) /\ FineScript(script'[q], Target(q)', TRUE) /\ (pc'[q] # "execute" => script'[q] = <<>>)
  <2>1. CASE q = p
    <3>1. seen'[q] = <<>> /\ script'[q] = <<>>
      BY <2>1
    <3>2. FineScript(<<>>, Target(q)', TRUE)
      BY NoStatement
    <3> QED
      BY <3>1, <3>2, NothingRead
  <2>2. CASE q # p
    <3>1. seen'[q] = seen[q] /\ script'[q] = script[q] /\ pc'[q] = pc[q] /\ schema'[q] = schema[q]
      BY <1>2, <2>2
    <3>2. Target(q)' = Target(q)
      BY <3>1 DEF Target
    <3> QED
      BY <3>1, <3>2
  <2> QED
    BY <2>1, <2>2
<1>5. ProcsInv'
  BY <1>1, <1>3, <1>4
<1>6. alone' \in [Procs -> BOOLEAN] /\ commands' \in 0..MaxCommands
  BY CommandsAssumption DEF DatabaseInv
<1> QED
  BY <1>5, <1>6 DEF DatabaseInv

LEMMA Reading ==
  ASSUME IInv, NEW p \in Procs, ReadTable(p)
  PROVE  IInv'
<1> USE DEF IInv, ProcsInv
<1> DEFINE t == NextTable(p)
           table == IF t \in DOMAIN catalog THEN catalog[t] ELSE EmptyTable
           read == IntrospectTable(provider, table)
<1>1. seen' = [seen EXCEPT ![p] = With(@, t, read)] /\ UNCHANGED <<provider, catalog, pc, schema, script, outcome, alone, migration, commands>>
  BY DEF ReadTable
<1>2. IsTable(read)
  <2>1. IsTable(table)
    BY GoneTable DEF DatabaseInv, GoodCatalog
  <2> HIDE DEF table
  <2> QED
    BY <2>1, Introspected
<1> HIDE DEF read, t
<1>3. GoodTables(With(seen[p], t, read))
  <2>0. GoodTables(seen[p])
    OBVIOUS
  <2>1. DOMAIN With(seen[p], t, read) = DOMAIN seen[p] \cup {t} /\ IsFiniteSet(DOMAIN With(seen[p], t, read))
    BY <2>0, OneMore DEF GoodTables
  <2>2. \A z \in DOMAIN seen[p] \cup {t} : IsTable(With(seen[p], t, read)[z])
    BY <1>2, <2>0 DEF With, GoodTables
  <2> QED
    BY <2>1, <2>2 DEF GoodTables
<1>4. \A q \in Procs : GoodTables(seen'[q])
  BY <1>1, <1>3
<1>5. \A q \in Procs : Target(q)' = Target(q)
  BY <1>1 DEF Target
<1>6. ProcsInv'
  BY <1>1, <1>4, <1>5
<1> QED
  BY <1>1, <1>6 DEF DatabaseInv

LEMMA Confirmed ==
  ASSUME IInv, NEW p \in Procs, pc[p] = "read", NEW diff \in CompareSchemas(provider, seen[p], Target(p)), Confirm(p, diff)
  PROVE  IInv'
<1> USE DEF IInv
<1> DEFINE up == GenerateMigrationSQL(provider, diff, Target(p))
<1>1. UNCHANGED <<provider, catalog, alone, migration, commands>>
  BY DEF Confirm
<1>2. CASE Finish(p, "failed")
  BY <1>1, <1>2, Finished DEF DatabaseInv
<1>3. CASE /\ script' = [script EXCEPT ![p] = up]
           /\ pc' = [pc EXCEPT ![p] = "execute"]
           /\ seen' = [seen EXCEPT ![p] = <<>>]
           /\ UNCHANGED <<unread, outcome, schema>>
  <2>1. FineScript(up, Target(p), TRUE)
    <3>1. GoodCatalog(Target(p)) /\ GoodTables(seen[p]) /\ provider \in Providers
      BY GoodTarget DEF ProcsInv
    <3>2. GoodDiff(diff, Target(p))
      BY <3>1, SchemasCompared
    <3> QED
      BY <3>1, <3>2, ScriptGenerated
  <2> HIDE DEF up
  <2>2. \A q \in Procs : Target(q)' = Target(q)
    BY <1>1, <1>3 DEF Target
  <2>3. ASSUME NEW q \in Procs
        PROVE  GoodTables(seen'[q]) /\ FineScript(script'[q], Target(q)', TRUE) /\ (pc'[q] # "execute" => script'[q] = <<>>)
    BY <1>3, <2>1, <2>2, NothingRead DEF ProcsInv
  <2>4. ProcsInv'
    BY <1>1, <1>3, <2>3 DEF ProcsInv
  <2> QED
    BY <1>1, <2>4 DEF DatabaseInv
<1> QED
  BY <1>2, <1>3 DEF Confirm

\* What one process does to the data of another is not asked here: only its own schema counts.
OnlyActs(p) == \A q \in Procs \ {p} : script'[q] = script[q] /\ outcome'[q] = outcome[q]

LEMMA FinishActs ==
  ASSUME ProcsInv, NEW p \in Procs, NEW result, Finish(p, result)
  PROVE  OnlyActs(p)
BY DEF ProcsInv, Finish, OnlyActs

LEMMA ExecutingOne ==
  ASSUME IInv, NEW p \in Procs, ExecuteStatement(p)
  PROVE  IInv' /\ OnlyActs(p) /\ Keeps(catalog, catalog', Target(p))
<1> DEFINE file == script[p]
           s == Head(file)
<1>0. ProcsInv /\ DatabaseInv /\ Keeps(catalog, catalog, Target(p))
  BY DEF IInv, Keeps
<1>1. /\ pc[p] = "execute" /\ file # <<>> /\ file \in Seq(ToSet(file)) /\ FineScript(file, Target(p), TRUE)
      /\ UNCHANGED <<provider, commands>>
  BY <1>0 DEF ExecuteStatement, ProcsInv, FineScript, IsScript
<1>2. s = file[1] /\ 1 \in DOMAIN file
  BY <1>1
<1>3. WellFormed(s) /\ Spares(s, Target(p))
  BY <1>1, <1>2 DEF FineScript, IsScript, SparesAll
<1>4. CASE /\ CanExecute(provider, catalog, s)
           /\ catalog' = Executed(provider, catalog, s)
           /\ script' = [script EXCEPT ![p] = Tail(@)]
           /\ IF catalog' = catalog THEN UNCHANGED <<alone, migration>> ELSE Beside(p) /\ migration' = None
           /\ UNCHANGED <<provider, pc, schema, unread, seen, outcome, commands>>
  <2>1. GoodCatalog(catalog') /\ Keeps(catalog, catalog', Target(p))
    <3> HIDE DEF s
    <3>1. GoodCatalog(catalog)
      BY <1>0 DEF DatabaseInv
    <3> QED
      BY <1>3, <1>4, <3>1, Executing
  <2>2. FineScript(Tail(file), Target(p), TRUE)
    <3> DEFINE S == ToSet(file)
    <3>1. \A x \in S : WellFormed(x) /\ Spares(x, Target(p))
      BY <1>1 DEF FineScript, IsScript, SparesAll, ToSet
    <3>2. file \in Seq(S)
      BY <1>1
    <3> HIDE DEF S, file
    <3>3. Tail(file) \in Seq(S)
      BY <1>1, <3>2
    <3> QED
      BY <3>1, <3>3, StatementsOf
  <2>3. \A q \in Procs : Target(q)' = Target(q)
    BY <1>4 DEF Target
  <2>4. \A q \in Procs : script'[q] = IF q = p THEN Tail(file) ELSE script[q]
    BY <1>0, <1>4 DEF ProcsInv
  <2>5. ProcsInv'
    <3> HIDE DEF file, s
    <3>1. \A q \in Procs : FineScript(script'[q], Target(q)', TRUE) /\ (pc'[q] # "execute" => script'[q] = <<>>)
      BY <1>0, <1>1, <1>4, <2>2, <2>3, <2>4 DEF ProcsInv
    <3>2. script' = [q \in Procs |-> script'[q]]
      BY <1>0, <1>4 DEF ProcsInv
    <3> QED
      BY <1>0, <1>4, <3>1, <3>2 DEF ProcsInv
  <2>6. alone' \in [Procs -> BOOLEAN] /\ (migration' = migration \/ migration' = None)
    <3>1. CASE catalog' = catalog
      BY <1>0, <1>4, <3>1 DEF DatabaseInv
    <3>2. CASE catalog' # catalog
      <4>1. alone' = [q \in Procs |-> alone[q] /\ alone[p] /\ schema[q] = schema[p]] /\ migration' = None
        BY <1>4, <3>2 DEF Beside
      <4> QED
        BY <1>0, <4>1 DEF DatabaseInv
    <3> QED
      BY <3>1, <3>2
  <2>7. "state" \in DOMAIN None /\ None.state = "none"
    BY DEF None
  <2>8. DatabaseInv'
    BY <1>0, <1>1, <2>1, <2>6, <2>7 DEF DatabaseInv
  <2>9. OnlyActs(p)
    BY <1>4, <2>4 DEF OnlyActs
  <2> QED
    BY <2>1, <2>5, <2>8, <2>9 DEF IInv
<1>5. CASE Finish(p, "failed") /\ UNCHANGED <<provider, catalog, alone, migration, commands>>
  <2>1. ProcsInv' /\ OnlyActs(p)
    BY <1>0, <1>5, Finished, FinishActs
  <2>2. DatabaseInv'
    BY <1>0, <1>5 DEF DatabaseInv
  <2> QED
    BY <1>0, <1>5, <2>1, <2>2 DEF IInv
<1> QED
  BY <1>4, <1>5 DEF ExecuteStatement

LEMMA Migrating ==
  ASSUME IInv, NEW p \in Procs, NEW diff \in CompareSchemas(provider, seen[p], Target(p)), ApplyDev(p, diff)
  PROVE  IInv' /\ OnlyActs(p) /\ Keeps(catalog, catalog', Target(p))
<1> DEFINE up == GenerateMigrationSQL(provider, diff, Target(p))
           down == GenerateRollbackSQL(provider, diff)
           applied == [state |-> "applied", down |-> down, before |-> catalog, target |-> Target(p),
                       current |-> seen[p] = Introspect(provider, catalog)]
<1>0. ProcsInv /\ DatabaseInv /\ Keeps(catalog, catalog, Target(p)) /\ UNCHANGED <<provider, commands>>
  BY DEF IInv, Keeps, ApplyDev
<1>1. GoodCatalog(Target(p)) /\ GoodTables(seen[p]) /\ provider \in Providers /\ GoodCatalog(catalog)
  BY <1>0, GoodTarget DEF ProcsInv, DatabaseInv
<1>2. GoodDiff(diff, Target(p))
  BY <1>1, SchemasCompared
<1>3. FineScript(up, Target(p), TRUE) /\ IsScript(down)
  BY <1>1, <1>2, ScriptGenerated, RollbackGenerated
<1>4. CASE /\ catalog' = OneExec(up).cat
           /\ migration' = applied
           /\ Beside(p)
           /\ Finish(p, "success")
  <2>1. GoodCatalog(catalog') /\ Keeps(catalog, catalog', Target(p))
    <3> HIDE DEF up
    <3>1. FineScript(Statements(up), Target(p), TRUE)
      BY <1>3, StatementsKept
    <3>2. catalog' = ExecutedAll(provider, catalog, Statements(up)).cat
      BY <1>4 DEF OneExec
    <3>3. IsScript(Statements(up)) /\ SparesAll(Statements(up), Target(p))
      BY <3>1 DEF FineScript
    <3> QED
      BY <1>1, <3>2, <3>3, ScriptExecuted
  <2>2. ProcsInv' /\ OnlyActs(p)
    BY <1>0, <1>4, Finished, FinishActs
  <2>3. "state" \in DOMAIN applied /\ applied.state = "applied" /\ applied.down = down
    OBVIOUS
  <2>4. alone' \in [Procs -> BOOLEAN]
    BY <1>0, <1>4 DEF Beside, DatabaseInv
  <2> HIDE DEF down, applied
  <2>5. DatabaseInv'
    BY <1>0, <1>3, <1>4, <2>1, <2>3, <2>4 DEF DatabaseInv
  <2> QED
    BY <2>1, <2>2, <2>5 DEF IInv
<1>5. CASE Finish(p, "failed") /\ UNCHANGED <<catalog, alone, migration>>
  <2>1. ProcsInv' /\ OnlyActs(p)
    BY <1>0, <1>5, Finished, FinishActs
  <2>2. DatabaseInv'
    BY <1>0, <1>5 DEF DatabaseInv
  <2> QED
    BY <1>0, <1>5, <2>1, <2>2 DEF IInv
<1> QED
  BY <1>4, <1>5 DEF ApplyDev

LEMMA RollingBack ==
  ASSUME IInv, NEW p \in Procs, Rollback(p)
  PROVE  IInv' /\ OnlyActs(p) /\ pc[p] = "idle"
<1>0. ProcsInv /\ DatabaseInv
  BY DEF IInv
<1>1. /\ pc[p] = "idle" /\ commands < MaxCommands /\ migration.state = "applied" /\ commands' = commands + 1
      /\ UNCHANGED <<provider, pc, schema, unread, seen, script>>
  BY DEF Rollback
<1>2. \E result \in {"success", "failed"} : outcome' = [outcome EXCEPT ![p] = result]
  BY DEF Rollback
<1>3. ProcsInv' /\ OnlyActs(p)
  <2>1. \A q \in Procs : Target(q)' = Target(q)
    BY <1>1 DEF Target
  <2>2. outcome' \in [Procs -> {"none", "success", "failed", "up_to_date"}] /\ \A q \in Procs \ {p} : outcome'[q] = outcome[q]
    BY <1>0, <1>2 DEF ProcsInv
  <2>3. OnlyActs(p)
    BY <1>1, <2>2 DEF OnlyActs
  <2> QED
    BY <1>0, <1>1, <2>1, <2>2, <2>3 DEF ProcsInv
<1>4. commands' \in 0..MaxCommands
  BY <1>0, <1>1, CommandsAssumption DEF DatabaseInv
<1>5. CASE /\ catalog' = OneExec(migration.down).cat
           /\ migration' = [migration EXCEPT !.state = "rolledback"]
           /\ alone' = [q \in Procs |-> FALSE]
  <2>1. GoodCatalog(catalog')
    <3> DEFINE down == migration.down
    <3>1. FineScript(down, {}, FALSE)
      BY <1>0, <1>1 DEF DatabaseInv, FineScript
    <3>2. catalog' = ExecutedAll(provider, catalog, Statements(down)).cat
      BY <1>5 DEF OneExec
    <3> HIDE DEF down
    <3>3. IsScript(Statements(down))
      BY <3>1, StatementsKept DEF FineScript
    <3>4. GoodCatalog(catalog)
      BY <1>0 DEF DatabaseInv
    <3> QED
      BY <3>2, <3>3, <3>4, ScriptExecuted
  <2>2. "state" \in DOMAIN migration' /\ migration'.state = "rolledback"
    BY <1>0, <1>5 DEF DatabaseInv
  <2>3. alone' \in [Procs -> BOOLEAN]
    BY <1>5
  <2>4. DatabaseInv'
    BY <1>4, <2>1, <2>2, <2>3 DEF DatabaseInv
  <2> QED
    BY <1>1, <1>3, <2>4 DEF IInv
<1>6. CASE UNCHANGED <<catalog, migration, alone>>
  <2>1. DatabaseInv'
    BY <1>0, <1>4, <1>6 DEF DatabaseInv
  <2> QED
    BY <1>1, <1>3, <2>1 DEF IInv
<1> QED
  BY <1>5, <1>6 DEF Rollback

\* A command ends, and changes nothing else.
LEMMA Ended ==
  ASSUME IInv, NEW p \in Procs, NEW result \in {"success", "failed", "up_to_date"}, Finish(p, result),
         UNCHANGED <<provider, catalog, alone, migration, commands>>
  PROVE  IInv'
BY Finished DEF IInv, DatabaseInv

\* The step of the action property.
KeepsItsDataStep ==
  \A p \in Procs : pc[p] # "idle" /\ (script'[p] # script[p] \/ outcome'[p] # outcome[p]) =>
    Keeps(catalog, catalog', Target(p))

LEMMA StepKeeps ==
  ASSUME IInv, [Next]_vars
  PROVE  IInv' /\ (catalog' # catalog => KeepsItsDataStep)
<1>1. ASSUME NEW p \in Procs, Begin(p) PROVE IInv' /\ catalog' = catalog
  BY <1>1, Beginning DEF Begin
<1>2. ASSUME NEW p \in Procs, ReadTable(p) PROVE IInv' /\ catalog' = catalog
  BY <1>2, Reading DEF ReadTable
<1>3. ASSUME NEW p \in Procs, CannotRead(p) PROVE IInv' /\ catalog' = catalog
  BY <1>3, Ended DEF CannotRead
<1>4. ASSUME NEW p \in Procs, PushDone(p) \/ Kill(p) PROVE IInv' /\ catalog' = catalog
  BY <1>4, Ended DEF PushDone, Kill
<1>5. ASSUME NEW p \in Procs, Compare(p) PROVE IInv' /\ (catalog' # catalog => KeepsItsDataStep)
  <2>1. PICK diff \in CompareSchemas(provider, seen[p], Target(p)) : NothingToDo(p, diff) \/ Confirm(p, diff) \/ ApplyDev(p, diff)
    BY <1>5 DEF Compare
  <2>2. CASE NothingToDo(p, diff)
    BY <2>2, Ended DEF NothingToDo
  <2>3. CASE Confirm(p, diff)
    BY <1>5, <2>3, Confirmed DEF Compare, Confirm
  <2>4. CASE ApplyDev(p, diff)
    BY <2>4, Migrating DEF OnlyActs, KeepsItsDataStep
  <2> QED
    BY <2>1, <2>2, <2>3, <2>4
<1>6. ASSUME NEW p \in Procs, ExecuteStatement(p) PROVE IInv' /\ KeepsItsDataStep
  BY <1>6, ExecutingOne DEF OnlyActs, KeepsItsDataStep
<1>7. ASSUME NEW p \in Procs, Rollback(p) PROVE IInv' /\ KeepsItsDataStep
  BY <1>7, RollingBack DEF OnlyActs, KeepsItsDataStep
<1>8. CASE UNCHANGED vars
  <2>1. \A q \in Procs : Target(q)' = Target(q)
    BY <1>8 DEF vars, Target
  <2> QED
    BY <1>8, <2>1 DEF vars, IInv, ProcsInv, DatabaseInv
<1> QED
  BY <1>1, <1>2, <1>3, <1>4, <1>5, <1>6, <1>7, <1>8 DEF Next

\* In every reachable state the catalog, what each process has read of it and what it is still to
\* execute are in order (db push, migrate dev --apply, migrate rollback).
THEOREM Invariant == Spec => []IInv
<1>1. IInv /\ [Next]_vars => IInv'
  BY StepKeeps
<1> QED
  BY Initially, <1>1, PTL DEF Spec

\* The variables stay in their types, a process that is not executing has no statement left over,
\* and keys and indexes never outlive their columns.
THEOREM TypeCorrect == Spec => []TypeOK
<1>1. IInv => TypeOK
  BY DEF IInv, ProcsInv, DatabaseInv, GoodCatalog, TypeOK
<1> QED
  BY Invariant, <1>1, PTL

\* Whatever others have done since a process read the catalog, db push and migrate dev --apply drop
\* no table and no column that their own schema has, nor the history table.
THEOREM DataKept == Spec => KeepsItsData
<1>1. IInv /\ [Next]_vars =>
        [catalog' # catalog => \A p \in Procs :
           pc[p] # "idle" /\ (script'[p] # script[p] \/ outcome'[p] # outcome[p]) =>
             \A t \in DOMAIN catalog \cap (DOMAIN Target(p) \cup {"_prisma_migrations"}) :
               /\ t \in DOMAIN catalog'
               /\ t \in DOMAIN Target(p) =>
                    DOMAIN catalog[t].cols \cap DOMAIN Target(p)[t].cols \subseteq DOMAIN catalog'[t].cols]_vars
  BY StepKeeps DEF KeepsItsDataStep, Keeps
<1> QED
  BY Invariant, <1>1, PTL DEF Spec, KeepsItsData

-----------------------------------------------------------------------------
(* Pushes reach their schema.  What is left to do to make a catalog that   *)
(* of a schema.                                                            *)

\* Of one table: the columns and indexes it lacks (add, index) or should not have (remove, extra),
\* and the columns of another type or nullability.  The types of the schema are reported as rep says.
Short(prov, rep, table, u, w, c) ==
  LET both == c \in DOMAIN table.cols /\ c \in DOMAIN u.cols
  IN  \/ w = "add" /\ c \in DOMAIN u.cols /\ c \notin DOMAIN table.cols
      \/ /\ prov # "sqlite"
         /\ \/ w = "remove" /\ c \in DOMAIN table.cols /\ c \notin DOMAIN u.cols
            \/ w = "type" /\ both /\ table.cols[c].type # rep[u.cols[c].type]
            \/ w = "null" /\ both /\ table.cols[c].nullable # u.cols[c].nullable
            \/ w = "index" /\ c \in DOMAIN u.idxs /\ c \notin DOMAIN table.idxs
            \/ w = "extra" /\ c \in DOMAIN table.idxs /\ c \notin DOMAIN u.idxs

TableIn(cat, t) == IF t \in DOMAIN cat THEN cat[t] ELSE EmptyTable

Left(prov, rep, cat, T, w, t, c) ==
  \/ w = "drop" /\ c = t /\ t \in DOMAIN cat /\ t \notin DOMAIN T /\ t # "_prisma_migrations"
  \/ w = "create" /\ c = t /\ t \in DOMAIN T /\ t \notin DOMAIN cat
  \/ t \in DOMAIN T /\ Normalize(prov, t) = t /\ Short(prov, rep, TableIn(cat, t), T[t], w, c)

\* In the database, and in what was read of it.
Undone(prov, cat, T, w, t, c) == Left(prov, ReportedType[prov], cat, T, w, t, c)
AsDeclared == [prov \in {"postgresql", "mysql", "sqlite"} |-> [type \in DOMAIN ReportedType[prov] |-> type]]
Found(prov, read, T, w, t, c) == Left(prov, AsDeclared[prov], read, T, w, t, c)

\* A statement that executes settles this.  One that no database executes would settle everything.
Settles(s, w, t, c) ==
  \/ s.op = "invalid"
  \/ s.op = "createTable" /\ w \in {"create", "add"} /\ t = s.table
  \/ s.op = "dropTable" /\ w = "drop" /\ t = s.table
  \/ s.op = "addColumn" /\ w = "add" /\ t = s.table /\ c = s.column
  \/ s.op = "dropColumn" /\ w = "remove" /\ t = s.table /\ c = s.column
  \/ s.op = "setType" /\ w = "type" /\ t = s.table /\ c = s.column
  \/ s.op = "setNullable" /\ w = "null" /\ t = s.table /\ c = s.column
  \/ s.op = "modifyColumn" /\ w \in {"type", "null"} /\ t = s.table /\ c = s.column
  \/ s.op = "createIndex" /\ w = "index" /\ t = s.table /\ c = s.index
  \/ s.op = "dropIndex" /\ w = "extra" /\ t = s.table /\ c = s.index
  \/ s.op = "renameIndex" /\ t = s.table /\ ((w = "index" /\ c = s.new) \/ (w = "extra" /\ c = s.old))

\* An index of a name that a schema gives is its unique index; others were made by hand, in the
\* catalog first.
KnownIndex(prov, first, t, i, def) ==
  IF i \in TargetIndexes(prov) THEN i[1] = t /\ def = UniqueOn(i[2])
  ELSE t \in DOMAIN first /\ i \in DOMAIN first[t].idxs /\ def = first[t].idxs[i]

TableOK(prov, first, t, table) ==
  prov # "sqlite" =>
    /\ \A c \in DOMAIN table.cols : IsColumn(prov, table.cols[c])
    /\ \A i \in DOMAIN table.idxs : KnownIndex(prov, first, t, i, table.idxs[i])

CatOK(prov, first, cat) ==
  /\ GoodCatalog(cat)
  /\ DOMAIN cat \subseteq TablesOf(prov)
  /\ \A t \in DOMAIN cat : TableOK(prov, first, t, cat[t])

\* What schemas ask of the database.
DeclaredTypes == [postgresql |-> {"INTEGER", "TEXT", "BOOLEAN", "TIMESTAMP"},
                  mysql |-> {"INT", "VARCHAR(255)", "TINYINT(1)", "DATETIME"},
                  sqlite |-> {"INTEGER", "TEXT", "DATETIME"}]
TargetOK(prov, T) ==
  /\ GoodCatalog(T)
  /\ DOMAIN T \subseteq TablesOf(prov)
  /\ "_prisma_migrations" \notin DOMAIN T
  /\ \A t \in DOMAIN T :
       /\ \A c \in DOMAIN T[t].cols : IsDef(T[t].cols[c]) /\ T[t].cols[c].type \in DeclaredTypes[prov]
       /\ \A i \in DOMAIN T[t].idxs : i \in TargetIndexes(prov) /\ i[1] = t /\ T[t].idxs[i] = UniqueOn(i[2])

\* A definition that declares a column of the schema.
Declares(prov, def, col) ==
  IsDef(def) /\ (prov # "sqlite" => def.type = col.type /\ def.nullable = col.nullable)

ColumnOf(T, t, c) == t \in DOMAIN T /\ c \in DOMAIN T[t].cols
IndexOf(T, t, i) == t \in DOMAIN T /\ i \in DOMAIN T[t].idxs

\* MySQL: a table that goes by another name than its own.
Nowhere(prov, t) == prov = "mysql" /\ t \notin TablesOf(prov)

\* A statement on the way to the schema.
Good(prov, first, T, s) ==
  /\ s.op \in Ops
  /\ s.op = "createTable" =>
       /\ s.table \in DOMAIN T /\ DOMAIN s.cols = DOMAIN T[s.table].cols
       /\ \A c \in DOMAIN s.cols : Declares(prov, s.cols[c], T[s.table].cols[c])
  /\ s.op = "dropTable" => s.table \notin DOMAIN T
  /\ s.op \in {"addColumn", "modifyColumn"} =>
       ColumnOf(T, s.table, s.column) /\ Declares(prov, s.def, T[s.table].cols[s.column])
  /\ s.op = "dropColumn" => s.table \in DOMAIN T /\ s.column \notin DOMAIN T[s.table].cols
  /\ s.op = "setType" => ColumnOf(T, s.table, s.column) /\ s.type = T[s.table].cols[s.column].type
  /\ s.op = "setNullable" => ColumnOf(T, s.table, s.column) /\ s.nullable = T[s.table].cols[s.column].nullable
  /\ s.op = "setDefault" => ColumnOf(T, s.table, s.column)
  /\ s.op = "createIndex" => IndexOf(T, s.table, s.index) /\ s.def = T[s.table].idxs[s.index]
  /\ s.op = "dropIndex" =>
       Nowhere(prov, s.table) \/ (s.index \in TargetIndexes(prov) => s.index[1] = s.table)
  /\ s.op = "renameIndex" =>
       \/ prov = "sqlite" \/ Nowhere(prov, s.table)
       \/ /\ IndexOf(T, s.table, s.new) /\ s.old \notin TargetIndexes(prov)
          /\ KnownIndex(prov, first, s.table, s.old, T[s.table].idxs[s.new])

\* But for one that drops an index of the schema: the differ has it created and dropped again.
Undoes(prov, T, s) == prov # "sqlite" /\ s.op = "dropIndex" /\ IndexOf(T, s.table, s.index)

\* A statement leaves less to do, and what it settles is not left.
Nearer(prov, cat, after, T, s) ==
  \A w, t, c : Undone(prov, after, T, w, t, c) => Undone(prov, cat, T, w, t, c) /\ ~Settles(s, w, t, c)
Toward(prov, first, cat, after, T, s) == CatOK(prov, first, after) /\ Nearer(prov, cat, after, T, s)

-----------------------------------------------------------------------------
(* What the statements do to that.                                         *)

\* One table changes.
LEMMA OneTable ==
  ASSUME NEW prov, NEW first, NEW cat, CatOK(prov, first, cat), NEW t \in DOMAIN cat, NEW after,
         after = [cat EXCEPT ![t] = after[t]], GoodCatalog(after), TableOK(prov, first, t, after[t]), NEW T, NEW s,
         t \in DOMAIN T => \A w, c : Short(prov, ReportedType[prov], after[t], T[t], w, c) =>
                                       Short(prov, ReportedType[prov], cat[t], T[t], w, c) /\ ~Settles(s, w, t, c),
         \A w, u, c : Settles(s, w, u, c) => u = t /\ w \notin {"drop", "create"}
  PROVE  Toward(prov, first, cat, after, T, s)
<1>1. DOMAIN after = DOMAIN cat /\ \A u \in DOMAIN cat : u # t => after[u] = cat[u]
  OBVIOUS
<1>2. CatOK(prov, first, after)
  BY <1>1 DEF CatOK
<1>3. ASSUME NEW w, NEW u, NEW c, Undone(prov, after, T, w, u, c)
      PROVE  Undone(prov, cat, T, w, u, c) /\ ~Settles(s, w, u, c)
  <2>1. CASE u = t
    <3>1. TableIn(after, t) = after[t] /\ TableIn(cat, t) = cat[t]
      BY <1>1 DEF TableIn
    <3>2. CASE t \in DOMAIN T /\ Normalize(prov, t) = t /\ Short(prov, ReportedType[prov], after[t], T[t], w, c)
      BY <2>1, <3>1, <3>2 DEF Undone, Left
    <3>3. CASE w \in {"drop", "create"}
      BY <1>1, <1>3, <2>1, <3>3 DEF Undone, Left, Short
    <3> QED
      BY <1>3, <2>1, <3>1, <3>2, <3>3 DEF Undone, Left
  <2>2. CASE u # t
    <3>1. TableIn(after, u) = TableIn(cat, u)
      BY <1>1, <2>2 DEF TableIn
    <3> QED
      BY <1>1, <1>3, <2>2, <3>1 DEF Undone, Left
  <2> QED
    BY <2>1, <2>2
<1> QED
  BY <1>2, <1>3 DEF Toward, Nearer

ThreeProviders == {"postgresql", "mysql", "sqlite"}

\* Every declared type has a name in the catalog, which introspection knows.
LEMMA TypesKnown ==
  ASSUME NEW prov \in ThreeProviders, prov # "sqlite", NEW type \in DeclaredTypes[prov]
  PROVE  ReportedType[prov][type] \in KnownTypes[prov]
<1>1. CASE prov = "postgresql"
  <2>1. KnownTypes[prov] = {"integer", "text", "boolean", "timestamp without time zone"}
    BY <1>1 DEF KnownTypes, MapPostgresType
  <2> QED
    BY <1>1, <2>1 DEF DeclaredTypes, ReportedType
<1>2. CASE prov = "mysql"
  BY <1>2 DEF DeclaredTypes, ReportedType, KnownTypes, MapMySQLType
<1> QED
  BY <1>1, <1>2 DEF ThreeProviders

\* A column as the catalog reports it.
LEMMA StoredColumn ==
  ASSUME NEW prov, NEW def, IsDef(def)
  PROVE  /\ IsDef(Stored(prov, def))
         /\ Stored(prov, def).type = ReportedType[prov][def.type]
         /\ Stored(prov, def).nullable = def.nullable
<1> DEFINE d == [type |-> def.type, nullable |-> def.nullable, default |-> def.default, auto |-> def.auto]
<1>1. Stored(prov, def) = [d EXCEPT !.type = ReportedType[prov][@], !.default = ReportedDefault(prov, d.type, @)]
  BY DEF IsDef, Stored
<1> QED
  BY <1>1 DEF IsDef

\* A column that is declared as the schema has it.
LEMMA DeclaredColumn ==
  ASSUME NEW prov \in ThreeProviders, prov # "sqlite", NEW def, NEW col, Declares(prov, def, col),
         col.type \in DeclaredTypes[prov]
  PROVE  /\ IsColumn(prov, Stored(prov, def))
         /\ Stored(prov, def).type = ReportedType[prov][col.type]
         /\ Stored(prov, def).nullable = col.nullable
BY TypesKnown, StoredColumn DEF Declares, IsColumn

\* One column changes, to what the schema has or in nothing that is compared.
LEMMA OneColumn ==
  ASSUME NEW prov, NEW first, NEW cat, CatOK(prov, first, cat), NEW t \in DOMAIN cat, NEW c \in DOMAIN cat[t].cols,
         NEW def, prov # "sqlite" => IsColumn(prov, def), NEW T, NEW s, ColumnOf(T, t, c),
         prov # "sqlite" =>
           /\ def.type \in {cat[t].cols[c].type, ReportedType[prov][T[t].cols[c].type]}
           /\ def.nullable \in {cat[t].cols[c].nullable, T[t].cols[c].nullable},
         \A w, u, d : Settles(s, w, u, d) =>
           /\ u = t /\ d = c /\ w \in {"type", "null"}
           /\ prov # "sqlite" => /\ w = "type" => def.type = ReportedType[prov][T[t].cols[c].type]
                                 /\ w = "null" => def.nullable = T[t].cols[c].nullable
  PROVE  Toward(prov, first, cat, [cat EXCEPT ![t].cols[c] = def], T, s)
<1> DEFINE after == [cat EXCEPT ![t].cols[c] = def]
<1>1. GoodCatalog(after)
  BY ColumnChanged DEF CatOK
<1>2. IsTable(cat[t]) /\ IsTable(after[t])
  BY <1>1 DEF CatOK, GoodCatalog
<1>3. /\ after[t].idxs = cat[t].idxs /\ DOMAIN after[t].cols = DOMAIN cat[t].cols
      /\ after[t].cols[c] = def /\ \A d \in DOMAIN cat[t].cols : d # c => after[t].cols[d] = cat[t].cols[d]
  BY <1>2 DEF IsTable
<1>4. TableOK(prov, first, t, after[t])
  <2> HIDE DEF after
  <2> QED
    BY <1>3 DEF CatOK, TableOK
<1>5. after = [cat EXCEPT ![t] = after[t]]
  BY DEF CatOK, GoodCatalog
<1> HIDE DEF after
<1>6. t \in DOMAIN T => \A w, d : Short(prov, ReportedType[prov], after[t], T[t], w, d) =>
                                    Short(prov, ReportedType[prov], cat[t], T[t], w, d) /\ ~Settles(s, w, t, d)
  <2> SUFFICES ASSUME t \in DOMAIN T, NEW w, NEW d, Short(prov, ReportedType[prov], after[t], T[t], w, d)
               PROVE  Short(prov, ReportedType[prov], cat[t], T[t], w, d) /\ ~Settles(s, w, t, d)
    OBVIOUS
  <2>1. CASE d = c
    BY <1>3, <2>1 DEF Short, ColumnOf
  <2>2. CASE d # c
    BY <1>3, <2>2 DEF Short
  <2> QED
    BY <2>1, <2>2
<1>7. \A w, u, d : Settles(s, w, u, d) => u = t /\ w \notin {"drop", "create"}
  OBVIOUS
<1> QED
  BY <1>1, <1>4, <1>5, <1>6, <1>7, OneTable DEF after

\* The hypotheses of the lemmas about one statement.
Setting(prov, first, cat, T, s) ==
  /\ prov \in ThreeProviders /\ Ordinary(prov) /\ first \in FirstCatalogs[prov]
  /\ CatOK(prov, first, cat) /\ TargetOK(prov, T)
  /\ Good(prov, first, T, s) /\ WellFormed(s) /\ CanExecute(prov, cat, s)

\* Each statement that executes leads toward the schema: those that alter a column,
LEMMA ColumnAltered ==
  ASSUME NEW prov, NEW first, NEW cat, NEW T, NEW s, Setting(prov, first, cat, T, s),
         s.op \in {"setType", "setNullable", "setDefault", "modifyColumn"}
  PROVE  Toward(prov, first, cat, Executed(prov, cat, s), T, s)
<1>1. /\ CatOK(prov, first, cat) /\ s.table \in DOMAIN cat /\ s.column \in DOMAIN cat[s.table].cols
      /\ ColumnOf(T, s.table, s.column) /\ prov \in ThreeProviders
  BY DEF Setting, Good, CanExecute, CanModify, HasColumn
<1> DEFINE col == cat[s.table].cols[s.column]
           u == T[s.table].cols[s.column]
<1>2. /\ prov # "sqlite" => IsColumn(prov, col)
      /\ u.type \in DeclaredTypes[prov]
  BY <1>1 DEF Setting, CatOK, TableOK, TargetOK, ColumnOf
<1>3. prov # "sqlite" => ReportedType[prov][u.type] \in KnownTypes[prov]
  BY <1>1, <1>2, TypesKnown
<1>4. CASE s.op = "setType"
  <2>1. Executed(prov, cat, s) = [cat EXCEPT ![s.table].cols[s.column] = Retyped(prov, col, s.type)]
    BY <1>4 DEF Executed
  <2>2. s.type = u.type
    BY <1>4 DEF Setting, Good
  <2>3. prov # "sqlite" => /\ IsColumn(prov, Retyped(prov, col, s.type))
                           /\ Retyped(prov, col, s.type).type = ReportedType[prov][u.type]
                           /\ Retyped(prov, col, s.type).nullable = col.nullable
    <3> SUFFICES ASSUME prov # "sqlite"
                 PROVE  /\ IsColumn(prov, Retyped(prov, col, s.type))
                        /\ Retyped(prov, col, s.type).type = ReportedType[prov][u.type]
                        /\ Retyped(prov, col, s.type).nullable = col.nullable
      OBVIOUS
    <3> DEFINE d == [type |-> col.type, nullable |-> col.nullable, default |-> col.default, auto |-> col.auto]
    <3>1. col = d
      BY <1>2 DEF IsColumn, IsDef
    <3> HIDE DEF col
    <3>2. PICK def : Retyped(prov, col, s.type) = [d EXCEPT !.type = ReportedType[prov][s.type], !.default = def]
      BY <3>1 DEF Retyped
    <3> QED
      BY <1>3, <2>2, <3>2 DEF IsColumn, IsDef
  <2>4. \A w, t, d : Settles(s, w, t, d) => w = "type" /\ t = s.table /\ d = s.column
    BY <1>4 DEF Settles
  <2> HIDE DEF col, u
  <2>5. Toward(prov, first, cat, [cat EXCEPT ![s.table].cols[s.column] = Retyped(prov, col, s.type)], T, s)
    <3> DEFINE def == Retyped(prov, col, s.type)
    <3> HIDE DEF def
    <3> QED
      BY <1>1, <2>3, <2>4, OneColumn DEF def, col, u
  <2> QED
    BY <2>1, <2>5
<1>5. CASE s.op = "setNullable"
  <2> DEFINE def == [col EXCEPT !.nullable = s.nullable]
  <2>1. Executed(prov, cat, s) = [cat EXCEPT ![s.table].cols[s.column] = def]
    BY <1>5 DEF Executed
  <2>2. s.nullable = u.nullable
    BY <1>5 DEF Setting, Good
  <2>3. prov # "sqlite" => IsColumn(prov, def) /\ def.type = col.type /\ def.nullable = u.nullable
    BY <1>2, <2>2 DEF IsColumn, IsDef
  <2>4. \A w, t, d : Settles(s, w, t, d) => w = "null" /\ t = s.table /\ d = s.column
    BY <1>5 DEF Settles
  <2>5. Toward(prov, first, cat, [cat EXCEPT ![s.table].cols[s.column] = def], T, s)
    <3> HIDE DEF def
    <3> QED
      BY <1>1, <2>3, <2>4, OneColumn
  <2> QED
    BY <2>1, <2>5
<1>6. CASE s.op = "setDefault"
  <2> DEFINE def == Redefaulted(prov, col, s.default)
  <2>1. Executed(prov, cat, s) = [cat EXCEPT ![s.table].cols[s.column] = def]
    BY <1>6 DEF Executed
  <2>3. prov # "sqlite" => IsColumn(prov, def) /\ def.type = col.type /\ def.nullable = col.nullable
    <3> SUFFICES ASSUME prov # "sqlite"
                 PROVE  IsColumn(prov, def) /\ def.type = col.type /\ def.nullable = col.nullable
      OBVIOUS
    <3> DEFINE d == [type |-> col.type, nullable |-> col.nullable, default |-> col.default, auto |-> col.auto]
    <3>1. col = d
      BY <1>2 DEF IsColumn, IsDef
    <3>2. PICK default : def = [d EXCEPT !.default = default]
      <4> HIDE DEF col
      <4> QED
        BY <3>1 DEF Redefaulted
    <3> HIDE DEF def
    <3> QED
      BY <1>2, <3>2 DEF IsColumn, IsDef
  <2>4. \A w, t, d : ~Settles(s, w, t, d)
    BY <1>6 DEF Settles
  <2>5. Toward(prov, first, cat, [cat EXCEPT ![s.table].cols[s.column] = def], T, s)
    <3> HIDE DEF def
    <3> QED
      BY <1>1, <2>3, <2>4, OneColumn
  <2> QED
    BY <2>1, <2>5
<1>7. CASE s.op = "modifyColumn"
  <2> DEFINE def == Stored(prov, s.def)
  <2>1. Executed(prov, cat, s) = [cat EXCEPT ![s.table].cols[s.column] = def]
    BY <1>7 DEF Executed
  <2>2. Declares(prov, s.def, u)
    BY <1>7 DEF Setting, Good
  <2>3. prov # "sqlite" => IsColumn(prov, def) /\ def.type = ReportedType[prov][u.type] /\ def.nullable = u.nullable
    BY <1>1, <1>2, <2>2, DeclaredColumn
  <2>4. \A w, t, d : Settles(s, w, t, d) => w \in {"type", "null"} /\ t = s.table /\ d = s.column
    BY <1>7 DEF Settles
  <2>6. \A w, t, d : Settles(s, w, t, d) =>
          /\ t = s.table /\ d = s.column /\ w \in {"type", "null"}
          /\ prov # "sqlite" => /\ w = "type" => def.type = ReportedType[prov][u.type]
                                /\ w = "null" => def.nullable = u.nullable
    BY <2>3, <2>4
  <2>5. Toward(prov, first, cat, [cat EXCEPT ![s.table].cols[s.column] = def], T, s)
    <3> HIDE DEF def
    <3> QED
      BY <1>1, <2>3, <2>6, OneColumn
  <2> QED
    BY <2>1, <2>5
<1> QED
  BY <1>4, <1>5, <1>6, <1>7

\* add one,
LEMMA ColumnAdded ==
  ASSUME NEW prov, NEW first, NEW cat, NEW T, NEW s, Setting(prov, first, cat, T, s), s.op = "addColumn"
  PROVE  Toward(prov, first, cat, Executed(prov, cat, s), T, s)
<1> DEFINE t == s.table
           def == Stored(prov, s.def)
           after == [cat EXCEPT ![t].cols = With(@, s.column, def)]
<1>1. /\ CatOK(prov, first, cat) /\ GoodCatalog(cat) /\ t \in DOMAIN cat /\ s.column \notin DOMAIN cat[t].cols
      /\ ColumnOf(T, t, s.column) /\ prov \in ThreeProviders /\ Declares(prov, s.def, T[t].cols[s.column])
  BY DEF Setting, Good, CanExecute, CanAddColumn, HasColumn, CatOK
<1>2. T[t].cols[s.column].type \in DeclaredTypes[prov]
  BY <1>1 DEF Setting, TargetOK, ColumnOf
<1>3. prov # "sqlite" => IsColumn(prov, def) /\ def.type = ReportedType[prov][T[t].cols[s.column].type]
                         /\ def.nullable = T[t].cols[s.column].nullable
  BY <1>1, <1>2, DeclaredColumn
<1>4. Executed(prov, cat, s) = after
  BY DEF Executed
<1> HIDE DEF def
<1>5. GoodCatalog(after)
  BY <1>1, AddingColumn
<1>6. IsTable(cat[t]) /\ IsTable(after[t])
  BY <1>1, <1>5 DEF GoodCatalog
<1>7. /\ after[t].idxs = cat[t].idxs /\ DOMAIN after[t].cols = DOMAIN cat[t].cols \cup {s.column}
      /\ after[t].cols[s.column] = def /\ \A d \in DOMAIN cat[t].cols : after[t].cols[d] = cat[t].cols[d]
  <2>1. after[t].cols = With(cat[t].cols, s.column, def) /\ after[t].idxs = cat[t].idxs
    BY <1>1, <1>6 DEF IsTable
  <2> HIDE DEF after
  <2> QED
    BY <1>1, <2>1 DEF With
<1>8. after = [cat EXCEPT ![t] = after[t]]
  BY DEF CatOK, GoodCatalog
<1> HIDE DEF after
<1>9. TableOK(prov, first, t, after[t])
  BY <1>1, <1>3, <1>7 DEF CatOK, TableOK
<1>10. t \in DOMAIN T => \A w, d : Short(prov, ReportedType[prov], after[t], T[t], w, d) =>
                                    Short(prov, ReportedType[prov], cat[t], T[t], w, d) /\ ~Settles(s, w, t, d)
  <2> SUFFICES ASSUME t \in DOMAIN T, NEW w, NEW d, Short(prov, ReportedType[prov], after[t], T[t], w, d)
               PROVE  Short(prov, ReportedType[prov], cat[t], T[t], w, d) /\ ~Settles(s, w, t, d)
    OBVIOUS
  <2>1. Settles(s, w, t, d) => w = "add" /\ d = s.column
    BY DEF Settles
  <2>2. CASE d = s.column
    BY <1>1, <1>3, <1>7, <2>1, <2>2 DEF Short, ColumnOf
  <2>3. CASE d # s.column
    BY <1>7, <2>1, <2>3 DEF Short
  <2> QED
    BY <2>2, <2>3
<1>11. \A w, u, d : Settles(s, w, u, d) => u = t /\ w \notin {"drop", "create"}
  BY DEF Settles
<1> HIDE DEF t
<1> QED
  BY <1>1, <1>4, <1>5, <1>8, <1>9, <1>10, <1>11, OneTable

\* drop one,
LEMMA ColumnDropped ==
  ASSUME NEW prov, NEW first, NEW cat, NEW T, NEW s, Setting(prov, first, cat, T, s), s.op = "dropColumn"
  PROVE  Toward(prov, first, cat, Executed(prov, cat, s), T, s)
<1> DEFINE t == s.table
           after == [cat EXCEPT ![t] = DroppedColumn(@, s.column)]
<1>1. /\ CatOK(prov, first, cat) /\ GoodCatalog(cat) /\ t \in DOMAIN cat
      /\ t \in DOMAIN T /\ s.column \notin DOMAIN T[t].cols /\ TargetOK(prov, T) /\ GoodCatalog(T)
  BY DEF Setting, Good, CanExecute, CanDropColumn, CatOK, TargetOK
<1>2. Executed(prov, cat, s) = after
  BY DEF Executed
<1>3. GoodCatalog(after)
  BY <1>1, DroppingColumn
<1>4. /\ after[t].cols = Without(cat[t].cols, {s.column})
      /\ after[t].idxs = Without(cat[t].idxs, {i \in DOMAIN cat[t].idxs : s.column \in ToSet(cat[t].idxs[i].cols)})
  BY <1>1 DEF DroppedColumn
<1>5. after = [cat EXCEPT ![t] = after[t]]
  BY DEF CatOK, GoodCatalog
<1> HIDE DEF after
<1>6. /\ DOMAIN after[t].cols = DOMAIN cat[t].cols \ {s.column}
      /\ \A d \in DOMAIN after[t].cols : after[t].cols[d] = cat[t].cols[d]
  BY <1>4 DEF Without
<1>7. /\ DOMAIN after[t].idxs \subseteq DOMAIN cat[t].idxs
      /\ \A i \in DOMAIN after[t].idxs : after[t].idxs[i] = cat[t].idxs[i]
      /\ \A i \in DOMAIN cat[t].idxs \ DOMAIN after[t].idxs : s.column \in ToSet(cat[t].idxs[i].cols)
  BY <1>4 DEF Without
<1>8. TableOK(prov, first, t, after[t])
  BY <1>1, <1>6, <1>7 DEF CatOK, TableOK
\* An index that goes with the column is none of the schema.
<1>9. prov # "sqlite" => \A i \in DOMAIN T[t].idxs : i \in DOMAIN cat[t].idxs => i \in DOMAIN after[t].idxs
  <2> SUFFICES ASSUME prov # "sqlite", NEW i \in DOMAIN T[t].idxs, i \in DOMAIN cat[t].idxs, i \notin DOMAIN after[t].idxs
               PROVE  FALSE
    OBVIOUS
  <2>1. i \in TargetIndexes(prov) /\ T[t].idxs[i] = UniqueOn(i[2])
    BY <1>1 DEF TargetOK
  <2>2. cat[t].idxs[i] = UniqueOn(i[2])
    BY <1>1, <2>1 DEF CatOK, TableOK, KnownIndex
  <2>3. s.column \in ToSet(cat[t].idxs[i].cols) /\ ToSet(T[t].idxs[i].cols) \subseteq DOMAIN T[t].cols
    BY <1>1, <1>7 DEF GoodCatalog, KeysAreColumns
  <2> QED
    BY <1>1, <2>1, <2>2, <2>3
<1>10. t \in DOMAIN T => \A w, d : Short(prov, ReportedType[prov], after[t], T[t], w, d) =>
                                    Short(prov, ReportedType[prov], cat[t], T[t], w, d) /\ ~Settles(s, w, t, d)
  <2> SUFFICES ASSUME NEW w, NEW d, Short(prov, ReportedType[prov], after[t], T[t], w, d)
               PROVE  Short(prov, ReportedType[prov], cat[t], T[t], w, d) /\ ~Settles(s, w, t, d)
    OBVIOUS
  <2>1. Settles(s, w, t, d) => w = "remove" /\ d = s.column
    BY DEF Settles
  <2>2. Short(prov, ReportedType[prov], cat[t], T[t], w, d)
    BY <1>1, <1>6, <1>7, <1>9 DEF Short
  <2>3. ~(w = "remove" /\ d = s.column)
    BY <1>6 DEF Short
  <2> QED
    BY <2>1, <2>2, <2>3
<1>11. \A w, u, d : Settles(s, w, u, d) => u = t /\ w \notin {"drop", "create"}
  BY DEF Settles
<1> HIDE DEF t
<1> QED
  BY <1>1, <1>2, <1>3, <1>5, <1>8, <1>10, <1>11, OneTable

\* create an index,
LEMMA IndexCreated ==
  ASSUME NEW prov, NEW first, NEW cat, NEW T, NEW s, Setting(prov, first, cat, T, s), s.op = "createIndex"
  PROVE  Toward(prov, first, cat, Executed(prov, cat, s), T, s)
<1> DEFINE t == s.table
           after == [cat EXCEPT ![t].idxs = With(@, s.index, s.def)]
<1>1. /\ CatOK(prov, first, cat) /\ GoodCatalog(cat) /\ t \in DOMAIN cat /\ ToSet(s.def.cols) \subseteq DOMAIN cat[t].cols
      /\ IndexOf(T, t, s.index) /\ s.def = T[t].idxs[s.index] /\ TargetOK(prov, T)
  BY DEF Setting, Good, CanExecute, CanCreateIndex, CatOK
<1>2. Executed(prov, cat, s) = after
  BY DEF Executed
<1>3. GoodCatalog(after)
  BY <1>1, CreatingIndex
<1>4. IsTable(cat[t]) /\ IsTable(after[t])
  BY <1>1, <1>3 DEF GoodCatalog
<1>5. after[t].idxs = With(cat[t].idxs, s.index, s.def) /\ after[t].cols = cat[t].cols
  BY <1>1, <1>4 DEF IsTable
<1>6. after = [cat EXCEPT ![t] = after[t]]
  BY DEF CatOK, GoodCatalog
<1> HIDE DEF after
<1>7. /\ DOMAIN after[t].idxs = DOMAIN cat[t].idxs \cup {s.index}
      /\ \A i \in DOMAIN after[t].idxs : after[t].idxs[i] = IF i = s.index THEN s.def ELSE cat[t].idxs[i]
  BY <1>5 DEF With
<1>8. TableOK(prov, first, t, after[t])
  <2>1. KnownIndex(prov, first, t, s.index, s.def)
    BY <1>1 DEF TargetOK, IndexOf, KnownIndex
  <2> QED
    BY <1>1, <1>5, <1>7, <2>1 DEF CatOK, TableOK
<1>10. t \in DOMAIN T => \A w, d : Short(prov, ReportedType[prov], after[t], T[t], w, d) =>
                                    Short(prov, ReportedType[prov], cat[t], T[t], w, d) /\ ~Settles(s, w, t, d)
  <2> SUFFICES ASSUME NEW w, NEW d, Short(prov, ReportedType[prov], after[t], T[t], w, d)
               PROVE  Short(prov, ReportedType[prov], cat[t], T[t], w, d) /\ ~Settles(s, w, t, d)
    OBVIOUS
  <2>1. Settles(s, w, t, d) => w = "index" /\ d = s.index
    BY DEF Settles
  <2>2. Short(prov, ReportedType[prov], cat[t], T[t], w, d)
    BY <1>1, <1>5, <1>7 DEF Short, IndexOf
  <2>3. ~(w = "index" /\ d = s.index)
    BY <1>7 DEF Short
  <2> QED
    BY <2>1, <2>2, <2>3
<1>11. \A w, u, d : Settles(s, w, u, d) => u = t /\ w \notin {"drop", "create"}
  BY DEF Settles
<1> HIDE DEF t
<1> QED
  BY <1>1, <1>2, <1>3, <1>6, <1>8, <1>10, <1>11, OneTable

\* create a table,
LEMMA NewTableOK ==
  ASSUME NEW prov, NEW first, NEW cat, NEW T, NEW s, Setting(prov, first, cat, T, s), s.op = "createTable"
  PROVE  Toward(prov, first, cat, Executed(prov, cat, s), T, s)
<1> DEFINE t == s.table
           new == NewTable(prov, s)
           after == With(cat, t, new)
<1>1. /\ CatOK(prov, first, cat) /\ GoodCatalog(cat) /\ t \notin DOMAIN cat /\ prov \in ThreeProviders
      /\ t \in DOMAIN T /\ DOMAIN s.cols = DOMAIN T[t].cols /\ TargetOK(prov, T)
      /\ \A c \in DOMAIN s.cols : Declares(prov, s.cols[c], T[t].cols[c])
  BY DEF Setting, Good, CanExecute, CanCreateTable, CatOK
<1>2. Executed(prov, cat, s) = after
  BY DEF Executed
<1>3. GoodCatalog(after)
  BY <1>1, CreatingTable DEF Setting, CanExecute
<1>4. /\ DOMAIN after = DOMAIN cat \cup {t} /\ after[t] = new
      /\ \A u \in DOMAIN cat : after[u] = cat[u]
  <2> HIDE DEF new
  <2> QED
    BY <1>1 DEF With
<1> HIDE DEF after
<1>5. DOMAIN new.cols = DOMAIN T[t].cols
  BY <1>1 DEF NewTable
<1>6. prov # "sqlite" => \A c \in DOMAIN new.cols :
        /\ IsColumn(prov, new.cols[c]) /\ new.cols[c].type = ReportedType[prov][T[t].cols[c].type]
        /\ new.cols[c].nullable = T[t].cols[c].nullable
  <2> SUFFICES ASSUME prov # "sqlite", NEW c \in DOMAIN new.cols
               PROVE  /\ IsColumn(prov, new.cols[c]) /\ new.cols[c].type = ReportedType[prov][T[t].cols[c].type]
                      /\ new.cols[c].nullable = T[t].cols[c].nullable
    OBVIOUS
  <2>1. new.cols[c] = Stored(prov, s.cols[c])
    BY DEF NewTable
  <2>2. T[t].cols[c].type \in DeclaredTypes[prov]
    BY <1>1, <1>5 DEF TargetOK
  <2>3. Declares(prov, s.cols[c], T[t].cols[c])
    BY <1>1, <1>5
  <2> HIDE DEF new
  <2> QED
    BY <1>1, <2>1, <2>2, <2>3, DeclaredColumn
<1>7. prov # "sqlite" => new.idxs = <<>>
  BY DEF NewTable, AutoIndex
<1> HIDE DEF new
<1>8. DOMAIN <<>> = {}
  OBVIOUS
<1>9. CatOK(prov, first, after)
  BY <1>1, <1>3, <1>4, <1>6, <1>7 DEF CatOK, TableOK, TargetOK
<1>10. ASSUME NEW w, NEW u, NEW c, Undone(prov, after, T, w, u, c)
       PROVE  Undone(prov, cat, T, w, u, c) /\ ~Settles(s, w, u, c)
  <2>1. Settles(s, w, u, c) => w \in {"create", "add"} /\ u = t
    BY DEF Settles
  <2>2. CASE u = t
    <3>1. Short(prov, ReportedType[prov], new, T[t], w, c) => w = "index" /\ prov # "sqlite" /\ c \in DOMAIN T[t].idxs
      BY <1>5, <1>6, <1>7 DEF Short
    <3>2. TableIn(after, t) = new /\ TableIn(cat, t) = EmptyTable
      BY <1>1, <1>4 DEF TableIn
    <3>3. w = "index" /\ Normalize(prov, t) = t /\ prov # "sqlite" /\ c \in DOMAIN T[t].idxs
      BY <1>1, <1>4, <1>10, <2>2, <3>1, <3>2 DEF Undone, Left
    <3>4. Short(prov, ReportedType[prov], EmptyTable, T[t], w, c)
      BY <3>3 DEF Short, EmptyTable
    <3> QED
      BY <1>1, <2>1, <2>2, <3>2, <3>3, <3>4 DEF Undone, Left
  <2>3. CASE u # t
    <3>1. TableIn(after, u) = TableIn(cat, u)
      BY <1>4, <2>3 DEF TableIn
    <3> QED
      BY <1>4, <1>10, <2>1, <2>3, <3>1 DEF Undone, Left
  <2> QED
    BY <2>2, <2>3
<1> QED
  BY <1>2, <1>9, <1>10 DEF Toward, Nearer

\* What has not more columns and indexes than a table of the catalog.
Within(small, table) ==
  /\ DOMAIN small.cols \subseteq DOMAIN table.cols /\ \A c \in DOMAIN small.cols : small.cols[c] = table.cols[c]
  /\ DOMAIN small.idxs \subseteq DOMAIN table.idxs /\ \A i \in DOMAIN small.idxs : small.idxs[i] = table.idxs[i]

\* Taking out tables, columns and indexes keeps a catalog in order.
LEMMA LessIsOK ==
  ASSUME NEW prov, NEW first, NEW cat, CatOK(prov, first, cat), NEW after, GoodCatalog(after),
         DOMAIN after \subseteq DOMAIN cat, \A t \in DOMAIN after : Within(after[t], cat[t])
  PROVE  CatOK(prov, first, after)
BY DEF CatOK, TableOK, Within

\* What is left when a table is gone,
LEMMA TableGone ==
  ASSUME NEW prov, NEW first, NEW cat, CatOK(prov, first, cat), NEW s, s.op = "dropTable"
  PROVE  /\ CatOK(prov, first, Executed(prov, cat, s))
         /\ DOMAIN Executed(prov, cat, s) = DOMAIN cat \ {s.table}
         /\ \A u \in DOMAIN cat \ {s.table} : /\ Executed(prov, cat, s)[u].cols = cat[u].cols
                                              /\ Executed(prov, cat, s)[u].idxs = cat[u].idxs
<1> DEFINE after == Executed(prov, cat, s)
<1>1. after = DroppedTable(cat, s)
  BY DEF Executed
<1>2. GoodCatalog(after)
  BY <1>1, DroppingTable DEF CatOK
<1>3. DOMAIN after = DOMAIN cat \ {s.table}
  BY <1>1 DEF DroppedTable
<1>4. ASSUME NEW u \in DOMAIN cat \ {s.table}
      PROVE  after[u].cols = cat[u].cols /\ after[u].idxs = cat[u].idxs
  <2>1. IsTable(cat[u])
    BY DEF CatOK, GoodCatalog
  <2>2. PICK fks : after[u] = [cat[u] EXCEPT !.fks = fks]
    BY <1>1 DEF DroppedTable
  <2> HIDE DEF after
  <2> QED
    BY <2>1, <2>2 DEF IsTable
<1> HIDE DEF after
<1>5. \A u \in DOMAIN after : Within(after[u], cat[u])
  BY <1>3, <1>4 DEF Within
<1>6. CatOK(prov, first, after)
  BY <1>2, <1>3, <1>5, LessIsOK
<1> QED
  BY <1>3, <1>4, <1>6 DEF after

\* drop one,
LEMMA TableDropped ==
  ASSUME NEW prov, NEW first, NEW cat, NEW T, NEW s, Setting(prov, first, cat, T, s), s.op = "dropTable"
  PROVE  Toward(prov, first, cat, Executed(prov, cat, s), T, s)
<1> DEFINE after == Executed(prov, cat, s)
<1>1. CatOK(prov, first, cat) /\ s.table \notin DOMAIN T
  BY DEF Setting, Good
<1>2. /\ CatOK(prov, first, after) /\ DOMAIN after = DOMAIN cat \ {s.table}
      /\ \A u \in DOMAIN cat \ {s.table} : after[u].cols = cat[u].cols /\ after[u].idxs = cat[u].idxs
  BY <1>1, TableGone
<1> HIDE DEF after
<1>3. ASSUME NEW w, NEW u, NEW c, Undone(prov, after, T, w, u, c)
      PROVE  Undone(prov, cat, T, w, u, c) /\ ~Settles(s, w, u, c)
  <2>1. Settles(s, w, u, c) => w = "drop" /\ u = s.table
    BY DEF Settles
  <2>2. CASE u = s.table
    BY <1>1, <1>2, <1>3, <2>2 DEF Undone, Left
  <2>3. CASE u # s.table
    <3>1. TableIn(after, u).cols = TableIn(cat, u).cols /\ TableIn(after, u).idxs = TableIn(cat, u).idxs
      BY <1>2, <2>3 DEF TableIn
    <3>2. u \in DOMAIN T /\ Short(prov, ReportedType[prov], TableIn(after, u), T[u], w, c) =>
            Short(prov, ReportedType[prov], TableIn(cat, u), T[u], w, c)
      BY <3>1 DEF Short
    <3> QED
      BY <1>2, <1>3, <2>1, <2>3, <3>2 DEF Undone, Left
  <2> QED
    BY <2>2, <2>3
<1> QED
  BY <1>2, <1>3 DEF Toward, Nearer, after

\* when an index is gone,
LEMMA IndexGone ==
  ASSUME NEW prov, NEW first, NEW cat, CatOK(prov, first, cat), NEW s, s.op = "dropIndex"
  PROVE  LET after == Executed(prov, cat, s)
         IN  /\ CatOK(prov, first, after) /\ DOMAIN after = DOMAIN cat
             /\ \A t \in DOMAIN cat :
                  /\ after[t].cols = cat[t].cols
                  /\ after[t].idxs = IF prov = "mysql" /\ t # s.table THEN cat[t].idxs ELSE Without(cat[t].idxs, {s.index})
<1> DEFINE after == Executed(prov, cat, s)
<1>1. after = [t \in DOMAIN cat |-> IF prov = "mysql" /\ t # s.table THEN cat[t]
                                    ELSE [cat[t] EXCEPT !.idxs = Without(@, {s.index})]]
  BY DEF Executed
<1>2. GoodCatalog(after)
  BY DroppingIndex DEF CatOK
<1>3. ASSUME NEW t \in DOMAIN cat
      PROVE  /\ after[t].cols = cat[t].cols
             /\ after[t].idxs = IF prov = "mysql" /\ t # s.table THEN cat[t].idxs ELSE Without(cat[t].idxs, {s.index})
  <2>1. IsTable(cat[t])
    BY DEF CatOK, GoodCatalog
  <2>2. CASE prov = "mysql" /\ t # s.table
    BY <1>1, <2>2
  <2>3. CASE ~(prov = "mysql" /\ t # s.table)
    BY <1>1, <2>1, <2>3 DEF IsTable
  <2> QED
    BY <2>2, <2>3
<1>4. DOMAIN after = DOMAIN cat
  BY <1>1
<1> HIDE DEF after
<1>5. ASSUME NEW t \in DOMAIN cat PROVE Within(after[t], cat[t])
  <2>1. after[t].cols = cat[t].cols
    BY <1>3
  <2>2. CASE after[t].idxs = cat[t].idxs
    BY <2>1, <2>2 DEF Within
  <2>3. CASE after[t].idxs = Without(cat[t].idxs, {s.index})
    <3>1. DOMAIN after[t].idxs \subseteq DOMAIN cat[t].idxs
      BY <2>3 DEF Without
    <3>2. \A i \in DOMAIN after[t].idxs : after[t].idxs[i] = cat[t].idxs[i]
      BY <2>3 DEF Without
    <3> QED
      BY <2>1, <3>1, <3>2 DEF Within
  <2> QED
    BY <1>3, <2>2, <2>3
<1>6. CatOK(prov, first, after)
  BY <1>2, <1>4, <1>5, LessIsOK
<1> QED
  BY <1>3, <1>4, <1>6 DEF after

\* drop an index,
LEMMA IndexDropped ==
  ASSUME NEW prov, NEW first, NEW cat, NEW T, NEW s, Setting(prov, first, cat, T, s), s.op = "dropIndex"
  PROVE  /\ CatOK(prov, first, Executed(prov, cat, s))
         /\ ~Undoes(prov, T, s) => Toward(prov, first, cat, Executed(prov, cat, s), T, s)
<1> DEFINE after == Executed(prov, cat, s)
           t == s.table
<1>1. CatOK(prov, first, cat) /\ TargetOK(prov, T) /\ (prov = "mysql" => t \in DOMAIN cat)
  BY DEF Setting, Good, CanExecute, CanDropIndex
<1>2. /\ CatOK(prov, first, after) /\ DOMAIN after = DOMAIN cat
      /\ \A u \in DOMAIN cat :
           /\ after[u].cols = cat[u].cols
           /\ after[u].idxs = IF prov = "mysql" /\ u # t THEN cat[u].idxs ELSE Without(cat[u].idxs, {s.index})
  BY <1>1, IndexGone
<1>3. s.index \in TargetIndexes(prov) => s.index[1] = t
  BY <1>1 DEF Setting, Good, Nowhere, CatOK
<1> HIDE DEF after
<1>4. ASSUME ~Undoes(prov, T, s), NEW w, NEW u, NEW c, Undone(prov, after, T, w, u, c)
      PROVE  Undone(prov, cat, T, w, u, c) /\ ~Settles(s, w, u, c)
  <2>1. Settles(s, w, u, c) => w = "extra" /\ u = t /\ c = s.index
    BY DEF Settles
  <2>2. ASSUME u \in DOMAIN cat
        PROVE  /\ TableIn(after, u).cols = TableIn(cat, u).cols
               /\ DOMAIN TableIn(after, u).idxs \subseteq DOMAIN TableIn(cat, u).idxs
               /\ DOMAIN TableIn(cat, u).idxs \subseteq DOMAIN TableIn(after, u).idxs \cup {s.index}
               /\ u = t => s.index \notin DOMAIN TableIn(after, u).idxs
    BY <1>2, <2>2 DEF TableIn, Without
  <2>3. ASSUME u \notin DOMAIN cat
        PROVE  TableIn(after, u) = TableIn(cat, u) /\ DOMAIN EmptyTable.idxs = {} /\ TableIn(after, u) = EmptyTable
    BY <1>2, <2>3 DEF TableIn, EmptyTable
  \* The index that is dropped is none of the schema.
  <2>4. prov # "sqlite" /\ u \in DOMAIN T => s.index \notin DOMAIN T[u].idxs
    BY <1>1, <1>3, <1>4 DEF TargetOK, Undoes, IndexOf
  <2>5. u \in DOMAIN T /\ Short(prov, ReportedType[prov], TableIn(after, u), T[u], w, c) =>
          Short(prov, ReportedType[prov], TableIn(cat, u), T[u], w, c) /\ ~(w = "extra" /\ u = t /\ c = s.index)
    BY <2>2, <2>3, <2>4 DEF Short
  <2>6. Undone(prov, cat, T, w, u, c)
    BY <1>2, <1>4, <2>5 DEF Undone, Left
  <2>7. ~(w = "extra" /\ u = t /\ c = s.index)
    BY <1>4, <2>5 DEF Undone, Left
  <2> QED
    BY <2>1, <2>6, <2>7
<1> QED
  BY <1>2, <1>4 DEF Toward, Nearer, after

\* and when an index has another name.
LEMMA IndexHasName ==
  ASSUME NEW prov, NEW first, NEW cat, CatOK(prov, first, cat), NEW s, s.op = "renameIndex",
         WellFormed(s), CanExecute(prov, cat, s),
         prov # "sqlite" => \A t \in DOMAIN cat : s.old \in DOMAIN cat[t].idxs /\ (prov = "mysql" => t = s.table) =>
           KnownIndex(prov, first, t, s.new, cat[t].idxs[s.old])
  PROVE  LET after == Executed(prov, cat, s)
         IN  /\ CatOK(prov, first, after) /\ DOMAIN after = DOMAIN cat
             /\ \A t \in DOMAIN cat :
                  /\ after[t].cols = cat[t].cols
                  /\ after[t].idxs = IF s.old \in DOMAIN cat[t].idxs /\ (prov = "mysql" => t = s.table)
                                     THEN With(Without(cat[t].idxs, {s.old}), s.new, cat[t].idxs[s.old]) ELSE cat[t].idxs
<1> DEFINE after == Executed(prov, cat, s)
           hit(t) == s.old \in DOMAIN cat[t].idxs /\ (prov = "mysql" => t = s.table)
<1>1. after = [t \in DOMAIN cat |-> IF hit(t) THEN RenamedIndex(cat[t], s.old, s.new) ELSE cat[t]]
  BY DEF Executed
<1>2. GoodCatalog(after)
  BY Executing DEF CatOK
<1>3. ASSUME NEW t \in DOMAIN cat
      PROVE  /\ after[t].cols = cat[t].cols
             /\ after[t].idxs = IF hit(t) THEN With(Without(cat[t].idxs, {s.old}), s.new, cat[t].idxs[s.old]) ELSE cat[t].idxs
  <2>1. IsTable(cat[t])
    BY DEF CatOK, GoodCatalog
  <2>2. after[t] = IF hit(t) THEN RenamedIndex(cat[t], s.old, s.new) ELSE cat[t]
    BY <1>1
  <2>3. /\ RenamedIndex(cat[t], s.old, s.new).cols = cat[t].cols
        /\ RenamedIndex(cat[t], s.old, s.new).idxs = With(Without(cat[t].idxs, {s.old}), s.new, cat[t].idxs[s.old])
    BY <2>1 DEF IsTable, RenamedIndex
  <2> HIDE DEF after, hit
  <2> QED
    BY <2>2, <2>3
<1>4. DOMAIN after = DOMAIN cat
  BY <1>1
<1> HIDE DEF after
<1>5. ASSUME prov # "sqlite", NEW t \in DOMAIN cat
      PROVE  TableOK(prov, first, t, after[t])
  <2>1. TableOK(prov, first, t, cat[t])
    BY DEF CatOK
  <2>2. CASE hit(t)
    <3>1. KnownIndex(prov, first, t, s.new, cat[t].idxs[s.old])
      BY <1>5, <2>2
    <3>2. /\ DOMAIN after[t].idxs = (DOMAIN cat[t].idxs \ {s.old}) \cup {s.new}
          /\ \A i \in DOMAIN after[t].idxs : after[t].idxs[i] = IF i = s.new THEN cat[t].idxs[s.old] ELSE cat[t].idxs[i]
      <4> DEFINE less == Without(cat[t].idxs, {s.old})
      <4>1. DOMAIN less = DOMAIN cat[t].idxs \ {s.old} /\ \A i \in DOMAIN less : less[i] = cat[t].idxs[i]
        BY DEF Without
      <4>2. after[t].idxs = With(less, s.new, cat[t].idxs[s.old])
        BY <1>3, <2>2
      <4> HIDE DEF less
      <4> QED
        BY <4>1, <4>2 DEF With
    <3> QED
      BY <1>3, <2>1, <3>1, <3>2 DEF TableOK
  <2>3. CASE ~hit(t)
    BY <1>3, <2>1, <2>3 DEF TableOK
  <2> QED
    BY <2>2, <2>3
<1>6. CatOK(prov, first, after)
  <2>1. \A t \in DOMAIN cat : TableOK(prov, first, t, after[t])
    BY <1>5 DEF TableOK
  <2> QED
    BY <1>2, <1>4, <2>1 DEF CatOK
<1> QED
  BY <1>3, <1>4, <1>6 DEF after

\* or rename one.
LEMMA IndexRenamed ==
  ASSUME NEW prov, NEW first, NEW cat, NEW T, NEW s, Setting(prov, first, cat, T, s), s.op = "renameIndex"
  PROVE  Toward(prov, first, cat, Executed(prov, cat, s), T, s)
<1> DEFINE after == Executed(prov, cat, s)
           t == s.table
<1>1. /\ CatOK(prov, first, cat) /\ TargetOK(prov, T) /\ Ordinary(prov) /\ first \in FirstCatalogs[prov]
      /\ CanRenameIndexTo(prov, cat, s) /\ WellFormed(s) /\ CanExecute(prov, cat, s)
  BY DEF Setting, CanExecute
\* The index that is renamed is in the table of the statement, and nowhere else.
<1>2. prov # "sqlite" =>
        /\ IndexOf(T, t, s.new) /\ s.old \notin TargetIndexes(prov)
        /\ KnownIndex(prov, first, t, s.old, T[t].idxs[s.new])
  BY <1>1 DEF Setting, Good, Nowhere, CanRenameIndexTo, CatOK
<1>3. prov # "sqlite" => \A u \in DOMAIN cat : s.old \in DOMAIN cat[u].idxs /\ (prov = "mysql" => u = t) =>
        u = t /\ cat[u].idxs[s.old] = T[t].idxs[s.new]
  <2> SUFFICES ASSUME prov # "sqlite", NEW u \in DOMAIN cat, s.old \in DOMAIN cat[u].idxs, prov = "mysql" => u = t
               PROVE  u = t /\ cat[u].idxs[s.old] = T[t].idxs[s.new]
    OBVIOUS
  <2>1. u \in DOMAIN first /\ s.old \in DOMAIN first[u].idxs /\ cat[u].idxs[s.old] = first[u].idxs[s.old]
    BY <1>1, <1>2 DEF CatOK, TableOK, KnownIndex
  <2>2. t \in DOMAIN first /\ s.old \in DOMAIN first[t].idxs /\ T[t].idxs[s.new] = first[t].idxs[s.old]
    BY <1>2 DEF KnownIndex
  <2>3. u = t
    BY <1>1, <2>1, <2>2 DEF Ordinary, Setting, ThreeProviders
  <2> QED
    BY <2>1, <2>2, <2>3
<1>4. prov # "sqlite" => KnownIndex(prov, first, t, s.new, T[t].idxs[s.new])
  BY <1>1, <1>2 DEF TargetOK, IndexOf, KnownIndex
<1>5. prov # "sqlite" => \A u \in DOMAIN cat : s.old \in DOMAIN cat[u].idxs /\ (prov = "mysql" => u = s.table) =>
        KnownIndex(prov, first, u, s.new, cat[u].idxs[s.old])
  BY <1>3, <1>4
<1>6. /\ CatOK(prov, first, after) /\ DOMAIN after = DOMAIN cat
      /\ \A u \in DOMAIN cat :
           /\ after[u].cols = cat[u].cols
           /\ after[u].idxs = IF s.old \in DOMAIN cat[u].idxs /\ (prov = "mysql" => u = t)
                              THEN With(Without(cat[u].idxs, {s.old}), s.new, cat[u].idxs[s.old]) ELSE cat[u].idxs
  BY <1>1, <1>5, IndexHasName
<1> HIDE DEF after
<1>7. prov # "sqlite" => t \in DOMAIN cat /\ s.old \in DOMAIN cat[t].idxs
  <2>1. CASE prov = "mysql"
    BY <1>1, <2>1 DEF CanRenameIndexTo
  <2>2. CASE prov # "mysql" /\ prov # "sqlite"
    <3>1. PICK u \in DOMAIN cat : s.old \in DOMAIN cat[u].idxs
      BY <1>1, <2>2 DEF CanRenameIndexTo, Holder
    <3> QED
      BY <1>3, <2>2, <3>1
  <2> QED
    BY <2>1, <2>2
<1>8. prov # "sqlite" => /\ DOMAIN after[t].idxs = (DOMAIN cat[t].idxs \ {s.old}) \cup {s.new}
                         /\ \A u \in DOMAIN cat : u # t => after[u].idxs = cat[u].idxs
  <2> SUFFICES ASSUME prov # "sqlite"
               PROVE  /\ DOMAIN after[t].idxs = (DOMAIN cat[t].idxs \ {s.old}) \cup {s.new}
                      /\ \A u \in DOMAIN cat : u # t => after[u].idxs = cat[u].idxs
    OBVIOUS
  <2> DEFINE less == Without(cat[t].idxs, {s.old})
  <2>1. DOMAIN less = DOMAIN cat[t].idxs \ {s.old}
    BY DEF Without
  <2>2. after[t].idxs = With(less, s.new, cat[t].idxs[s.old])
    BY <1>6, <1>7
  <2> HIDE DEF less
  <2>3. DOMAIN after[t].idxs = (DOMAIN cat[t].idxs \ {s.old}) \cup {s.new}
    BY <2>1, <2>2 DEF With
  <2> QED
    BY <1>3, <1>6, <2>3
<1>9. ASSUME NEW w, NEW u, NEW c, Undone(prov, after, T, w, u, c)
      PROVE  Undone(prov, cat, T, w, u, c)
  <2>1. CASE u \in DOMAIN cat
    <3>1. TableIn(after, u) = after[u] /\ TableIn(cat, u) = cat[u] /\ after[u].cols = cat[u].cols
      BY <1>6, <2>1 DEF TableIn
    <3>2. prov # "sqlite" /\ u # t => after[u].idxs = cat[u].idxs
      BY <1>8, <2>1
    <3>3. u \in DOMAIN T /\ Short(prov, ReportedType[prov], after[u], T[u], w, c) =>
            Short(prov, ReportedType[prov], cat[u], T[u], w, c)
      <4>1. CASE prov = "sqlite"
        BY <3>1, <4>1 DEF Short
      <4>2. CASE prov # "sqlite" /\ u # t
        BY <3>1, <3>2, <4>2 DEF Short
      <4>3. CASE prov # "sqlite" /\ u = t
        <5>1. s.old \notin DOMAIN T[t].idxs /\ s.new \in DOMAIN T[t].idxs
          BY <1>1, <1>2, <4>3 DEF TargetOK, IndexOf
        <5> QED
          BY <1>7, <1>8, <3>1, <4>3, <5>1 DEF Short
      <4> QED
        BY <4>1, <4>2, <4>3
    <3> QED
      BY <1>6, <1>9, <3>1, <3>3 DEF Undone, Left
  <2>2. CASE u \notin DOMAIN cat
    <3>1. TableIn(after, u) = TableIn(cat, u)
      BY <1>6, <2>2 DEF TableIn
    <3> QED
      BY <1>6, <1>9, <3>1 DEF Undone, Left
  <2> QED
    BY <2>1, <2>2
<1>10. ASSUME NEW w, NEW u, NEW c, Undone(prov, after, T, w, u, c)
       PROVE  ~Settles(s, w, u, c)
  <2> SUFFICES ASSUME Settles(s, w, u, c)
               PROVE  FALSE
    OBVIOUS
  <2>1. u = t /\ ((w = "index" /\ c = s.new) \/ (w = "extra" /\ c = s.old))
    BY DEF Settles
  <2>2. prov # "sqlite" /\ u \in DOMAIN T /\ Short(prov, ReportedType[prov], TableIn(after, u), T[u], w, c)
    BY <1>10, <2>1 DEF Undone, Left, Short
  <2>3. TableIn(after, u) = after[t]
    BY <1>6, <1>7, <2>1, <2>2 DEF TableIn
  <2>4. s.old # s.new
    BY <1>1, <1>2, <2>2 DEF TargetOK, IndexOf
  <2> QED
    BY <1>7, <1>8, <2>1, <2>2, <2>3, <2>4 DEF Short
<1> QED
  BY <1>6, <1>9, <1>10 DEF Toward, Nearer, after

\* What one statement on the way to the schema does.
LEMMA OneStep ==
  ASSUME NEW prov, NEW first, NEW cat, NEW T, NEW s, Setting(prov, first, cat, T, s)
  PROVE  /\ CatOK(prov, first, Executed(prov, cat, s))
         /\ ~Undoes(prov, T, s) => Nearer(prov, cat, Executed(prov, cat, s), T, s)
<1>1. CASE s.op = "dropIndex"
  BY <1>1, IndexDropped DEF Toward
<1>2. CASE s.op \in {"setType", "setNullable", "setDefault", "modifyColumn"}
  BY <1>2, ColumnAltered DEF Toward
<1>3. CASE s.op = "addColumn"
  BY <1>3, ColumnAdded DEF Toward
<1>4. CASE s.op = "dropColumn"
  BY <1>4, ColumnDropped DEF Toward
<1>5. CASE s.op = "createIndex"
  BY <1>5, IndexCreated DEF Toward
<1>6. CASE s.op = "createTable"
  BY <1>6, NewTableOK DEF Toward
<1>7. CASE s.op = "dropTable"
  BY <1>7, TableDropped DEF Toward
<1>8. CASE s.op = "renameIndex"
  BY <1>8, IndexRenamed DEF Toward
<1>9. CASE s.op = "comment"
  <2>1. Executed(prov, cat, s) = cat
    BY <1>9 DEF Executed
  <2>2. \A w, t, c : ~Settles(s, w, t, c)
    BY <1>9 DEF Settles
  <2> QED
    BY <2>1, <2>2 DEF Nearer, Setting
<1>10. CASE s.op = "invalid"
  BY <1>10 DEF Setting, CanExecute
<1> QED
  BY <1>1, <1>2, <1>3, <1>4, <1>5, <1>6, <1>7, <1>8, <1>9, <1>10 DEF Setting, Good, Ops

-----------------------------------------------------------------------------
(* What the statements of a rollback do.                                   *)

\* Whatever can be declared is reported as a type that introspection knows.
LEMMA ReportedKnown ==
  ASSUME NEW prov \in ThreeProviders, prov # "sqlite", NEW type \in DOMAIN ReportedType[prov]
  PROVE  ReportedType[prov][type] \in KnownTypes[prov]
<1>1. CASE prov = "postgresql"
  <2>1. KnownTypes[prov] = {"integer", "text", "boolean", "timestamp without time zone"}
    BY <1>1 DEF KnownTypes, MapPostgresType
  <2> QED
    BY <1>1, <2>1 DEF ReportedType
<1>2. CASE prov = "mysql"
  BY <1>2 DEF ReportedType, KnownTypes, MapMySQLType
<1> QED
  BY <1>1, <1>2 DEF ThreeProviders

\* One column of a catalog in order changes.
LEMMA ColumnIsOK ==
  ASSUME NEW prov, NEW first, NEW cat, CatOK(prov, first, cat), NEW t \in DOMAIN cat, NEW c \in DOMAIN cat[t].cols,
         NEW def, prov # "sqlite" => IsColumn(prov, def)
  PROVE  CatOK(prov, first, [cat EXCEPT ![t].cols[c] = def])
<1> DEFINE after == [cat EXCEPT ![t].cols[c] = def]
<1>1. GoodCatalog(after)
  BY ColumnChanged DEF CatOK
<1>2. IsTable(cat[t]) /\ IsTable(after[t])
  BY <1>1 DEF CatOK, GoodCatalog
<1>3. /\ after[t].idxs = cat[t].idxs /\ DOMAIN after[t].cols = DOMAIN cat[t].cols
      /\ after[t].cols[c] = def /\ \A d \in DOMAIN cat[t].cols : d # c => after[t].cols[d] = cat[t].cols[d]
  BY <1>2 DEF IsTable
<1>4. DOMAIN after = DOMAIN cat /\ \A u \in DOMAIN cat : u # t => after[u] = cat[u]
  OBVIOUS
<1> HIDE DEF after
<1>5. \A u \in DOMAIN after : TableOK(prov, first, u, after[u])
  BY <1>3, <1>4 DEF CatOK, TableOK
<1> QED
  BY <1>1, <1>4, <1>5 DEF CatOK, after

GoodDown(prov, first, s) ==
  /\ s.op \in Ops \ {"createTable", "addColumn", "createIndex", "setDefault"}
  /\ s.op = "setType" => s.type \in DOMAIN ReportedType[prov]
  /\ s.op = "modifyColumn" => IsDef(s.def) /\ s.def.type \in DOMAIN ReportedType[prov]
  /\ s.op = "renameIndex" =>
       \/ prov = "sqlite" \/ Nowhere(prov, s.table)
       \/ /\ s.old \in TargetIndexes(prov) /\ s.old[1] = s.table /\ s.new \notin TargetIndexes(prov)
          /\ KnownIndex(prov, first, s.table, s.new, UniqueOn(s.old[2]))

\* A statement of a rollback keeps a catalog in order.
LEMMA OneStepBack ==
  ASSUME NEW prov \in ThreeProviders, NEW first, NEW cat, CatOK(prov, first, cat), NEW s, GoodDown(prov, first, s),
         WellFormed(s), CanExecute(prov, cat, s)
  PROVE  CatOK(prov, first, Executed(prov, cat, s))
<1> DEFINE after == Executed(prov, cat, s)
<1>1. GoodCatalog(after)
  BY Executing DEF CatOK
<1>2. CASE s.op = "comment"
  BY <1>2 DEF Executed
<1>3. CASE s.op = "invalid"
  BY <1>3 DEF CanExecute
<1>4. CASE s.op = "dropTable"
  BY <1>4, TableGone
<1>5. CASE s.op = "dropIndex"
  BY <1>5, IndexGone
<1>6. CASE s.op = "dropColumn"
  <2> DEFINE t == s.table
  <2>1. after = [cat EXCEPT ![t] = DroppedColumn(@, s.column)] /\ t \in DOMAIN cat
    BY <1>6 DEF Executed, CanExecute, CanDropColumn
  <2>2. Within(DroppedColumn(cat[t], s.column), cat[t])
    BY DEF Within, DroppedColumn, Without
  <2>3. \A u \in DOMAIN after : Within(after[u], cat[u])
    <3> HIDE DEF after, t
    <3> QED
      BY <2>1, <2>2 DEF Within
  <2>4. DOMAIN after = DOMAIN cat
    BY <2>1
  <2> HIDE DEF after
  <2>5. CatOK(prov, first, after)
    BY <1>1, <2>3, <2>4, LessIsOK
  <2> QED
    BY <2>5 DEF after
<1>7. CASE s.op \in {"setType", "setNullable", "modifyColumn"}
  <2> DEFINE t == s.table
             col == cat[t].cols[s.column]
             d == [type |-> col.type, nullable |-> col.nullable, default |-> col.default, auto |-> col.auto]
  <2>1. t \in DOMAIN cat /\ s.column \in DOMAIN cat[t].cols
    BY <1>7 DEF CanExecute, CanModify, HasColumn
  <2>2. prov # "sqlite" => IsColumn(prov, col) /\ col = d
    BY <2>1 DEF CatOK, TableOK, IsColumn, IsDef
  <2>3. PICK def : after = [cat EXCEPT ![t].cols[s.column] = def] /\ (prov # "sqlite" => IsColumn(prov, def))
    <3>1. CASE s.op = "setType"
      <4>1. after = [cat EXCEPT ![t].cols[s.column] = Retyped(prov, col, s.type)]
        BY <3>1 DEF Executed
      <4>2. ASSUME prov # "sqlite"
            PROVE  IsColumn(prov, Retyped(prov, col, s.type))
        <5>1. ReportedType[prov][s.type] \in KnownTypes[prov]
          BY <3>1, <4>2, ReportedKnown DEF GoodDown
        <5>2. PICK default : Retyped(prov, col, s.type) = [d EXCEPT !.type = ReportedType[prov][s.type], !.default = default]
          <6> HIDE DEF col, d
          <6> QED
            BY <2>2, <4>2 DEF Retyped
        <5> QED
          BY <5>1, <5>2 DEF IsColumn, IsDef
      <4> QED
        BY <4>1, <4>2
    <3>2. CASE s.op = "setNullable"
      <4>1. after = [cat EXCEPT ![t].cols[s.column] = [col EXCEPT !.nullable = s.nullable]]
        BY <3>2 DEF Executed
      <4>2. prov # "sqlite" => IsColumn(prov, [col EXCEPT !.nullable = s.nullable])
        BY <2>2 DEF IsColumn, IsDef
      <4> HIDE DEF after, t, col
      <4> QED
        BY <4>1, <4>2
    <3>3. CASE s.op = "modifyColumn"
      <4>1. after = [cat EXCEPT ![t].cols[s.column] = Stored(prov, s.def)]
        BY <3>3 DEF Executed
      <4>2. prov # "sqlite" => IsColumn(prov, Stored(prov, s.def))
        BY <3>3, StoredColumn, ReportedKnown DEF GoodDown, IsColumn
      <4> HIDE DEF after, t
      <4> QED
        BY <4>1, <4>2
    <3> QED
      BY <1>7, <3>1, <3>2, <3>3
  <2>4. CatOK(prov, first, [cat EXCEPT ![t].cols[s.column] = def])
    <3> HIDE DEF t, after
    <3> QED
      BY <2>1, <2>3, ColumnIsOK
  <2> QED
    BY <2>3, <2>4
<1>8. CASE s.op = "renameIndex"
  <2>1. ASSUME prov # "sqlite", NEW t \in DOMAIN cat, s.old \in DOMAIN cat[t].idxs, prov = "mysql" => t = s.table
        PROVE  KnownIndex(prov, first, t, s.new, cat[t].idxs[s.old])
    <3>1. ~Nowhere(prov, s.table)
      BY <2>1 DEF Nowhere, CatOK
    <3>2. /\ s.old \in TargetIndexes(prov) /\ s.old[1] = s.table
          /\ KnownIndex(prov, first, s.table, s.new, UniqueOn(s.old[2]))
      BY <1>8, <2>1, <3>1 DEF GoodDown
    <3>3. KnownIndex(prov, first, t, s.old, cat[t].idxs[s.old])
      BY <2>1 DEF CatOK, TableOK
    <3> QED
      BY <3>2, <3>3 DEF KnownIndex
  <2> QED
    BY <1>8, <2>1, IndexHasName
<1> QED
  BY <1>2, <1>3, <1>4, <1>5, <1>6, <1>7, <1>8 DEF GoodDown, Ops

-----------------------------------------------------------------------------
(* Whole scripts.                                                          *)

\* ExecutedAll statement by statement.
Run(run, prov, cat, file, n) ==
  /\ run[0] = [ok |-> TRUE, cat |-> cat]
  /\ \A k \in 1..n : run[k] = Step(prov, cat, run[k - 1], file[k])
  /\ ExecutedAll(prov, cat, file) = run[n]

\* A script that is executed as a whole runs statement by statement.
LEMMA Ran ==
  ASSUME NEW prov, NEW cat, NEW file, NEW n \in Nat, DOMAIN file = 1..n
  PROVE  \E run : Run(run, prov, cat, file, n)
<1> PICK rest : Executes(rest, prov, cat, file, n) /\ ExecutedAll(prov, cat, file) = rest[1..n]
  BY AllExecuted
<1> DEFINE run == [k \in 0..n |-> rest[1..k]]
<1>1. run[0] = [ok |-> TRUE, cat |-> cat]
  <2>1. 1..0 = {} /\ {} \in SUBSET (1..n) /\ 0 \in 0..n
    OBVIOUS
  <2> QED
    BY <2>1 DEF Executes
<1>2. ASSUME NEW k \in 1..n
      PROVE  run[k] = Step(prov, cat, run[k - 1], file[k])
  <2>1. /\ 1..k \in SUBSET (1..n) /\ k \in 1..k /\ k - 1 \in 0..n /\ k \in 0..n /\ k \in Nat
        /\ (1..k) \ {k} = 1..(k - 1)
    OBVIOUS
  <2>2. 1..k # {}
    BY <2>1
  <2>3. Max(1..k) = k
    <3>1. Max(1..k) \in 1..k /\ k <= Max(1..k)
      BY <2>1, <2>2, Greatest
    <3>2. PICK m \in 1..k : m = Max(1..k)
      BY <3>1
    <3> QED
      BY <3>1, <3>2
  <2> QED
    BY <2>1, <2>2, <2>3 DEF Executes
<1>3. run[n] = rest[1..n]
  OBVIOUS
<1> HIDE DEF run
<1> QED
  BY <1>1, <1>2, <1>3 DEF Run

\* Statements that no database executes while that index is there.
Guards(prov, cat, T, s) ==
  \/ s.op = "invalid"
  \/ /\ prov # "sqlite" /\ Normalize(prov, s.table) = s.table
     /\ \/ s.op = "createIndex" /\ ~Undone(prov, cat, T, "index", s.table, s.index)
        \/ s.op = "renameIndex" /\ ~Undone(prov, cat, T, "index", s.table, s.new)

\* Before an index of the schema is dropped comes a statement that fails.
Blocked(prov, cat, T, file) ==
  \A i \in DOMAIN file : Undoes(prov, T, file[i]) => \E j \in 1..(i - 1) : Guards(prov, cat, T, file[j])

\* Everything that is left to do is settled by a statement of the script.
Leads(prov, cat, T, file) ==
  \A w, t, c : Undone(prov, cat, T, w, t, c) => \E i \in DOMAIN file : Settles(file[i], w, t, c)

GoodFile(prov, first, T, file) == IsScript(file) /\ \A i \in DOMAIN file : Good(prov, first, T, file[i])

\* A statement that guards never executes.
LEMMA GuardFails ==
  ASSUME NEW prov, NEW first, NEW cat, NEW T, NEW s, Setting(prov, first, cat, T, s), Guards(prov, cat, T, s)
  PROVE  FALSE
<1>1. CASE s.op = "invalid"
  BY <1>1 DEF Setting, CanExecute
<1>2. ASSUME prov # "sqlite", Normalize(prov, s.table) = s.table, NEW i, IndexOf(T, s.table, i),
             ~Undone(prov, cat, T, "index", s.table, i)
      PROVE  s.table \in DOMAIN cat /\ i \in IndexNames(prov, cat, s.table)
  <2>1. i \in DOMAIN TableIn(cat, s.table).idxs
    BY <1>2 DEF Undone, Left, Short, IndexOf
  <2>2. s.table \in DOMAIN cat /\ i \in DOMAIN cat[s.table].idxs
    BY <2>1 DEF TableIn, EmptyTable
  <2> QED
    BY <2>2 DEF IndexNames
<1>3. CASE prov # "sqlite" /\ Normalize(prov, s.table) = s.table /\ s.op = "createIndex"
             /\ ~Undone(prov, cat, T, "index", s.table, s.index)
  BY <1>2, <1>3 DEF Setting, Good, CanExecute, CanCreateIndex
<1>4. CASE prov # "sqlite" /\ Normalize(prov, s.table) = s.table /\ s.op = "renameIndex"
             /\ ~Undone(prov, cat, T, "index", s.table, s.new)
  <2>1. CanRenameIndexTo(prov, cat, s)
    BY <1>4 DEF Setting, CanExecute
  <2>2. IndexOf(T, s.table, s.new)
    BY <1>4, <2>1 DEF Setting, Good, CanRenameIndexTo, Nowhere, CatOK
  <2> QED
    BY <1>2, <1>4, <2>1, <2>2 DEF CanRenameIndexTo
<1> QED
  BY <1>1, <1>3, <1>4 DEF Guards

\* A transaction that succeeds has settled whatever its statements settle.
AllSettled(prov, cat, after, T, file) ==
  \A w, t, c : Undone(prov, after, T, w, t, c) =>
    Undone(prov, cat, T, w, t, c) /\ \A i \in DOMAIN file : ~Settles(file[i], w, t, c)

\* A whole script in one transaction: everything it settles is done.
LEMMA FileExecuted ==
  ASSUME NEW prov \in ThreeProviders, Ordinary(prov), NEW first \in FirstCatalogs[prov],
         NEW cat, CatOK(prov, first, cat), NEW T, TargetOK(prov, T), NEW file, GoodFile(prov, first, T, file),
         ExecutedAll(prov, cat, file).ok
  PROVE  LET after == ExecutedAll(prov, cat, file).cat
         IN  CatOK(prov, first, after) /\ (Blocked(prov, cat, T, file) => AllSettled(prov, cat, after, T, file))
<1> DEFINE n == Len(file)
<1>0. n \in Nat /\ DOMAIN file = 1..n
  BY DEF GoodFile, IsScript
<1> HIDE DEF n
<1> PICK run : Run(run, prov, cat, file, n)
  BY <1>0, Ran
<1> DEFINE blocked == Blocked(prov, cat, T, file)
           Passed(k) == \A w, t, c : Undone(prov, run[k].cat, T, w, t, c) =>
                          Undone(prov, cat, T, w, t, c) /\ \A i \in 1..k : ~Settles(file[i], w, t, c)
           P(k) == run[k].ok => /\ CatOK(prov, first, run[k].cat)
                                /\ blocked => Passed(k) /\ \A i \in 1..k : ~Guards(prov, cat, T, file[i])
           S == {k \in 0..n : P(k)}
<1>1. 0 \in S
  <2>1. run[0].cat = cat /\ 0 \in 0..n /\ 1..0 = {}
    BY <1>0 DEF Run
  <2> QED
    BY <2>1
<1>2. ASSUME NEW k \in 0..n, k \in S, k < n PROVE k + 1 \in S
  <2>0. k \in Nat /\ k + 1 \in 1..n /\ k + 1 \in 0..n /\ (k + 1) - 1 = k /\ 1..(k + 1) = (1..k) \cup {k + 1}
    BY <1>0, <1>2
  <2> DEFINE r == run[k]
             s == file[k + 1]
  <2>1. run[k + 1] = Step(prov, cat, r, s)
    BY <2>0 DEF Run
  <2>2. P(k)
    BY <1>2
  <2>3. ASSUME run[k + 1].ok
        PROVE  /\ CatOK(prov, first, run[k + 1].cat)
               /\ blocked => Passed(k + 1) /\ \A i \in 1..(k + 1) : ~Guards(prov, cat, T, file[i])
    <3>1. r.ok /\ CanExecute(prov, r.cat, s) /\ run[k + 1].cat = Executed(prov, r.cat, s)
      <4> HIDE DEF r, s
      <4> QED
        BY <2>1, <2>3 DEF Step
    <3>2. CatOK(prov, first, r.cat)
      BY <2>2, <3>1
    <3>3. Setting(prov, first, r.cat, T, s)
      BY <1>0, <2>0, <3>1, <3>2 DEF Setting, GoodFile, IsScript
    <3>4. /\ CatOK(prov, first, run[k + 1].cat)
          /\ ~Undoes(prov, T, s) => Nearer(prov, r.cat, run[k + 1].cat, T, s)
      <4> HIDE DEF r, s
      <4> QED
        BY <3>1, <3>3, OneStep
    <3>5. ASSUME blocked
          PROVE  Passed(k + 1) /\ \A i \in 1..(k + 1) : ~Guards(prov, cat, T, file[i])
      <4>1. Passed(k) /\ \A i \in 1..k : ~Guards(prov, cat, T, file[i])
        BY <2>2, <3>1, <3>5
      <4>2. ~Guards(prov, cat, T, s)
        <5>1. Guards(prov, cat, T, s) => Guards(prov, r.cat, T, s)
          <6> HIDE DEF s
          <6> QED
            BY <4>1 DEF Guards
        <5> HIDE DEF r, s
        <5> QED
          BY <3>3, <5>1, GuardFails
      <4>3. ~Undoes(prov, T, s)
        BY <1>0, <2>0, <3>5, <4>1 DEF Blocked
      <4>4. Nearer(prov, r.cat, run[k + 1].cat, T, s)
        BY <3>4, <4>3
      <4>5. Passed(k + 1)
        <5> SUFFICES ASSUME NEW w, NEW t, NEW c, Undone(prov, run[k + 1].cat, T, w, t, c)
                     PROVE  Undone(prov, cat, T, w, t, c) /\ \A i \in 1..(k + 1) : ~Settles(file[i], w, t, c)
          OBVIOUS
        <5>1. Undone(prov, r.cat, T, w, t, c) /\ ~Settles(s, w, t, c)
          <6> HIDE DEF r, s
          <6> QED
            BY <4>4 DEF Nearer
        <5> QED
          BY <2>0, <4>1, <5>1
      <4> QED
        BY <2>0, <4>1, <4>2, <4>5
    <3> QED
      BY <3>4, <3>5
  <2> QED
    BY <2>0, <2>3
<1>3. \A k \in 0..n : k \in S
  <2> HIDE DEF S
  <2> QED
    BY <1>0, <1>1, <1>2, UpTo
<1>4. n \in S
  <2> HIDE DEF S
  <2> QED
    BY <1>0, <1>3
<1>5. ExecutedAll(prov, cat, file) = run[n]
  BY DEF Run
<1>6. P(n)
  BY <1>4
<1> QED
  BY <1>0, <1>5, <1>6 DEF AllSettled

\* A whole rollback keeps the catalog in order.
LEMMA FileUndone ==
  ASSUME NEW prov \in ThreeProviders, NEW first, NEW cat, CatOK(prov, first, cat),
         NEW file, IsScript(file), \A i \in DOMAIN file : GoodDown(prov, first, file[i]),
         ExecutedAll(prov, cat, file).ok
  PROVE  CatOK(prov, first, ExecutedAll(prov, cat, file).cat)
<1> DEFINE n == Len(file)
<1>0. n \in Nat /\ DOMAIN file = 1..n
  BY DEF IsScript
<1> HIDE DEF n
<1> PICK run : Run(run, prov, cat, file, n)
  BY <1>0, Ran
<1> DEFINE P(k) == run[k].ok => CatOK(prov, first, run[k].cat)
           S == {k \in 0..n : P(k)}
<1>1. 0 \in S
  BY <1>0 DEF Run
<1>2. ASSUME NEW k \in 0..n, k \in S, k < n PROVE k + 1 \in S
  <2>0. k \in Nat /\ k + 1 \in 1..n /\ k + 1 \in 0..n /\ (k + 1) - 1 = k
    BY <1>0, <1>2
  <2> DEFINE r == run[k]
             s == file[k + 1]
  <2>1. run[k + 1] = Step(prov, cat, r, s)
    BY <2>0 DEF Run
  <2>2. ASSUME run[k + 1].ok
        PROVE  CatOK(prov, first, run[k + 1].cat)
    <3>1. r.ok /\ CanExecute(prov, r.cat, s) /\ run[k + 1].cat = Executed(prov, r.cat, s)
      <4> HIDE DEF r, s
      <4> QED
        BY <2>1, <2>2 DEF Step
    <3>2. CatOK(prov, first, r.cat) /\ GoodDown(prov, first, s) /\ WellFormed(s)
      BY <1>0, <1>2, <2>0, <3>1 DEF IsScript
    <3> HIDE DEF r, s
    <3> QED
      BY <3>1, <3>2, OneStepBack
  <2> QED
    BY <2>0, <2>2
<1>3. \A k \in 0..n : k \in S
  <2> HIDE DEF S
  <2> QED
    BY <1>0, <1>1, <1>2, UpTo
<1>4. n \in S
  <2> HIDE DEF S
  <2> QED
    BY <1>0, <1>3
<1>5. ExecutedAll(prov, cat, file) = run[n]
  BY DEF Run
<1> QED
  BY <1>4, <1>5

-----------------------------------------------------------------------------
(* The members of sequences, and what comes before what.                   *)

\* Before every member that is in B comes one that is in G.
Guarded(file, B, G) == \A i \in DOMAIN file : file[i] \in B => \E j \in 1..(i - 1) : file[j] \in G

Holds(file, S, members, B, G) == file \in Seq(S) /\ ToSet(file) = members /\ Guarded(file, B, G)

\* A guard in the first part serves the second one, too.
LEMMA Joined ==
  ASSUME NEW S, NEW a \in Seq(S), NEW b \in Seq(S), NEW B, NEW G, Guarded(a, B, G),
         Guarded(b, B, G) \/ ToSet(a) \cap G # {}
  PROVE  Holds(a \o b, S, ToSet(a) \cup ToSet(b), B, G)
<1> DEFINE m == Len(a)
           n == Len(b)
           c == a \o b
<1>1. /\ m \in Nat /\ n \in Nat /\ DOMAIN a = 1..m /\ DOMAIN b = 1..n
      /\ c \in Seq(S) /\ DOMAIN c = 1..(m + n)
      /\ \A i \in 1..m : c[i] = a[i]
      /\ \A i \in 1..n : c[m + i] = b[i]
  BY ConcatProperties
<1> HIDE DEF m, n, c
<1>2. \A i \in 1..(m + n) : i \in 1..m \/ \E j \in 1..n : i = m + j
  <2> SUFFICES ASSUME NEW i \in 1..(m + n), i \notin 1..m
               PROVE  \E j \in 1..n : i = m + j
    OBVIOUS
  <2>1. i - m \in 1..n /\ i = m + (i - m)
    BY <1>1
  <2> QED
    BY <2>1
<1>3. \A i \in 1..m : i \in 1..(m + n)
  BY <1>1
<1>4. \A i \in 1..n : m + i \in 1..(m + n)
  BY <1>1
<1>5. ToSet(c) = ToSet(a) \cup ToSet(b)
  <2>1. ASSUME NEW x \in ToSet(c)
        PROVE  x \in ToSet(a) \cup ToSet(b)
    <3>1. PICK i \in 1..(m + n) : x = c[i]
      BY <1>1 DEF ToSet
    <3> QED
      BY <1>1, <1>2, <3>1 DEF ToSet
  <2>2. ASSUME NEW x \in ToSet(a)
        PROVE  x \in ToSet(c)
    <3>1. PICK i \in 1..m : x = a[i]
      BY <1>1 DEF ToSet
    <3> QED
      BY <1>1, <1>3, <3>1 DEF ToSet
  <2>3. ASSUME NEW x \in ToSet(b)
        PROVE  x \in ToSet(c)
    <3>1. PICK i \in 1..n : x = b[i]
      BY <1>1 DEF ToSet
    <3> QED
      BY <1>1, <1>4, <3>1 DEF ToSet
  <2> QED
    BY <2>1, <2>2, <2>3
<1>6. ASSUME NEW i \in 1..(m + n), c[i] \in B
      PROVE  \E j \in 1..(i - 1) : c[j] \in G
  <2>1. CASE i \in 1..m
    <3>1. PICK j \in 1..(i - 1) : a[j] \in G
      BY <1>1, <1>6, <2>1 DEF Guarded
    <3>2. j \in 1..m
      BY <1>1, <2>1
    <3> QED
      BY <1>1, <3>1, <3>2
  <2>2. ASSUME NEW k \in 1..n, i = m + k
        PROVE  \E j \in 1..(i - 1) : c[j] \in G
    <3>1. CASE ToSet(a) \cap G # {}
      <4>1. PICK j \in 1..m : a[j] \in G
        BY <1>1, <3>1 DEF ToSet
      <4>2. j \in 1..(i - 1)
        BY <1>1, <2>2
      <4> QED
        BY <1>1, <4>1, <4>2
    <3>2. CASE Guarded(b, B, G)
      <4>1. PICK j \in 1..(k - 1) : b[j] \in G
        BY <1>1, <1>6, <2>2, <3>2 DEF Guarded
      <4>2. m + j \in 1..(i - 1) /\ j \in 1..n
        BY <1>1, <2>2
      <4> QED
        BY <1>1, <4>1, <4>2
    <3> QED
      BY <3>1, <3>2
  <2> QED
    BY <1>2, <2>1, <2>2
<1>7. Guarded(c, B, G)
  BY <1>1, <1>6 DEF Guarded
<1> QED
  BY <1>1, <1>5, <1>7 DEF Holds, c

\* Nothing, and a single member that needs no guard.
LEMMA FewStatements ==
  ASSUME NEW S, NEW B, NEW G
  PROVE  /\ Holds(<<>>, S, {}, B, G)
         /\ \A x \in S \ B : Holds(<<x>>, S, {x}, B, G)
<1>1. <<>> \in Seq(S) /\ DOMAIN <<>> = {}
  OBVIOUS
<1>2. ASSUME NEW x \in S \ B
      PROVE  Holds(<<x>>, S, {x}, B, G)
  <2>1. <<x>> \in Seq(S) /\ DOMAIN <<x>> = {1} /\ <<x>>[1] = x
    OBVIOUS
  <2> QED
    BY <2>1 DEF Holds, ToSet, Guarded
<1> QED
  BY <1>1, <1>2 DEF Holds, ToSet, Guarded

\* Sequences one after the other.
LEMMA AllJoined ==
  ASSUME NEW S, NEW n \in Nat, NEW seqs \in [1..n -> Seq(S)], NEW B, NEW G,
         \A k \in 1..n : Guarded(seqs[k], B, G) \/ \E h \in 1..(k - 1) : ToSet(seqs[h]) \cap G # {}
  PROVE  Holds(FlattenSeq(seqs), S, UNION {ToSet(seqs[k]) : k \in 1..n}, B, G)
<1> DEFINE upto(k) == UNION {ToSet(seqs[j]) : j \in 1..k}
<1>1. Len(seqs) = n /\ seqs \in Seq(Seq(S))
  BY IsASeq
<1>2. CASE n = 0
  <2>1. FlattenSeq(seqs) = <<>>
    BY <1>1, <1>2 DEF FlattenSeq
  <2>2. upto(n) = {}
    BY <1>2
  <2>3. Holds(<<>>, S, {}, B, G)
    BY FewStatements
  <2> HIDE DEF upto
  <2> QED
    BY <1>2, <2>1, <2>2, <2>3 DEF upto
<1>3. CASE n # 0
  <2> DEFINE flat == CHOOSE f : Flattens(f, seqs, n)
             H == {k \in 0..n : k # 0 => Holds(flat[k], S, upto(k), B, G)}
  <2>1. Flattens(flat, seqs, n)
    BY FlattenExists
  <2>2. FlattenSeq(seqs) = flat[n]
    BY <1>1, <1>3 DEF FlattenSeq, Flattens
  <2> HIDE DEF flat
  <2>3. 0 \in H
    OBVIOUS
  <2>4. ASSUME NEW k \in 0..n, k \in H, k < n PROVE k + 1 \in H
    <3>1. /\ k + 1 \in 1..n /\ k + 1 \in 0..n /\ (k + 1) - 1 = k /\ (k + 1 = 1 <=> k = 0)
          /\ 1..(k + 1) = (1..k) \cup {k + 1}
      BY <2>4
    <3>2. flat[k + 1] = IF k = 0 THEN seqs[k + 1] ELSE flat[k] \o seqs[k + 1]
      BY <2>1, <3>1 DEF Flattens
    <3>3. seqs[k + 1] \in Seq(S)
      BY <3>1
    <3>4. upto(k + 1) = upto(k) \cup ToSet(seqs[k + 1])
      BY <3>1
    <3>5. CASE k = 0
      <4>1. Guarded(seqs[k + 1], B, G)
        BY <3>1, <3>5
      <4>2. upto(k) = {}
        BY <3>5
      <4> QED
        BY <3>1, <3>2, <3>3, <3>4, <3>5, <4>1, <4>2 DEF Holds
    <3>6. CASE k # 0
      <4>1. Holds(flat[k], S, upto(k), B, G)
        BY <2>4, <3>6
      <4>2. Guarded(seqs[k + 1], B, G) \/ ToSet(flat[k]) \cap G # {}
        <5>1. CASE Guarded(seqs[k + 1], B, G)
          BY <5>1
        <5>2. ASSUME NEW h \in 1..k, ToSet(seqs[h]) \cap G # {}
              PROVE  ToSet(flat[k]) \cap G # {}
          BY <4>1, <5>2 DEF Holds
        <5> QED
          BY <3>1, <5>1, <5>2
      <4> HIDE DEF upto
      <4>3. Holds(flat[k] \o seqs[k + 1], S, ToSet(flat[k]) \cup ToSet(seqs[k + 1]), B, G)
        BY <3>3, <4>1, <4>2, Joined DEF Holds
      <4> QED
        BY <3>1, <3>2, <3>4, <3>6, <4>1, <4>3 DEF Holds
    <3> QED
      BY <3>5, <3>6
  <2>5. n \in H
    <3> HIDE DEF H
    <3>1. \A k \in 0..n : k \in H
      BY <2>3, <2>4, UpTo
    <3> QED
      BY <3>1
  <2> QED
    BY <2>2, <2>5, <1>3
<1> QED
  BY <1>2, <1>3

\* An order of a finite set has all of it.
LEMMA OrderHasAll ==
  ASSUME NEW S, IsFiniteSet(S), NEW o \in Orders(S) \cup {SetToSeq(S)}
  PROVE  o \in Seq(S) /\ ToSet(o) = S
<1> DEFINE n == Cardinality(S)
           D == 1..n
<1>1. n \in Nat /\ ExistsBijection(D, S)
  BY FS_CardinalityType
<1>2. PICK b : b \in Bijection(D, S)
  BY <1>1 DEF ExistsBijection
<1>3. b \in [D -> S] /\ IsInjective(b)
  BY <1>2 DEF Bijection, Injection, IsInjective
<1>4. SetToSeq(S) \in [D -> S] /\ IsInjective(SetToSeq(S))
  BY <1>3 DEF SetToSeq
<1>5. o \in [D -> S] /\ \A i, j \in D : i # j => o[i] # o[j]
  <2>1. CASE o = SetToSeq(S)
    BY <1>4, <2>1 DEF IsInjective
  <2>2. CASE o \in SetToSeqs(S)
    BY <2>2 DEF SetToSeqs
  <2> QED
    BY <2>1, <2>2 DEF Orders
<1>6. o \in Seq(S) /\ DOMAIN o = D
  BY <1>1, <1>5, IsASeq
<1>7. o \in Bijection(D, ToSet(o))
  BY <1>5, <1>6 DEF Bijection, Injection, Surjection, ToSet, IsInjective
<1>8. Cardinality(ToSet(o)) = n
  BY <1>1, <1>7, FS_CountingElements DEF ExistsBijection
<1>9. ToSet(o) \in SUBSET S
  BY <1>5, <1>6 DEF ToSet
<1> QED
  BY <1>6, <1>8, <1>9, FS_Subset

\* The members at the places in some.
LEMMA Picked ==
  ASSUME NEW S, NEW s \in Seq(S), NEW some, NEW B, NEW G,
         \A i \in DOMAIN s : i \in some /\ s[i] \in B => \E j \in 1..(i - 1) : j \in some /\ s[j] \in G
  PROVE  Holds(FlattenSeq([i \in DOMAIN s |-> IF i \in some THEN <<s[i]>> ELSE <<>>]),
               S, {s[i] : i \in DOMAIN s \cap some}, B, G)
<1> DEFINE f == [i \in DOMAIN s |-> IF i \in some THEN <<s[i]>> ELSE <<>>]
           n == Len(s)
<1>1. n \in Nat /\ DOMAIN s = 1..n
  OBVIOUS
<1>2. ASSUME NEW i \in 1..n
      PROVE  /\ f[i] \in Seq(S) /\ ToSet(f[i]) = IF i \in some THEN {s[i]} ELSE {}
             /\ Guarded(f[i], B, G) \/ \E h \in 1..(i - 1) : ToSet(f[h]) \cap G # {}
  <2>0. s[i] \in S
    BY <1>1
  <2>1. CASE i \notin some
    <3>1. f[i] = <<>> /\ Holds(<<>>, S, {}, B, G)
      BY <1>1, <2>1, FewStatements
    <3> HIDE DEF f
    <3> QED
      BY <2>1, <3>1 DEF Holds
  <2>2. CASE i \in some /\ s[i] \notin B
    <3>1. f[i] = <<s[i]>> /\ Holds(<<s[i]>>, S, {s[i]}, B, G)
      BY <1>1, <2>0, <2>2, FewStatements
    <3> HIDE DEF f
    <3> QED
      BY <2>2, <3>1 DEF Holds
  <2>3. CASE i \in some /\ s[i] \in B
    <3>1. f[i] = <<s[i]>> /\ Holds(<<s[i]>>, S, {s[i]}, {}, G)
      BY <1>1, <2>0, <2>3, FewStatements
    <3>2. PICK j \in 1..(i - 1) : j \in some /\ s[j] \in G
      BY <1>1, <2>3
    <3>3. j \in 1..n
      BY <1>1
    <3>4. f[j] = <<s[j]>> /\ s[j] \in S
      BY <1>1, <3>2, <3>3
    <3>6. Holds(<<s[j]>>, S, {s[j]}, {}, G)
      BY <3>4, FewStatements
    <3> HIDE DEF f
    <3>5. ToSet(f[j]) \cap G # {}
      BY <3>2, <3>4, <3>6 DEF Holds
    <3> QED
      BY <2>3, <3>1, <3>5 DEF Holds
  <2> QED
    BY <2>1, <2>2, <2>3
<1>3. f \in [1..n -> Seq(S)]
  BY <1>1, <1>2
<1> HIDE DEF f
<1>4. Holds(FlattenSeq(f), S, UNION {ToSet(f[k]) : k \in 1..n}, B, G)
  BY <1>1, <1>2, <1>3, AllJoined
<1>5. UNION {ToSet(f[k]) : k \in 1..n} = {s[i] : i \in DOMAIN s \cap some}
  <2>1. \A x : x \in UNION {ToSet(f[k]) : k \in 1..n} <=> \E k \in 1..n : x \in ToSet(f[k])
    OBVIOUS
  <2>2. \A x : x \in {s[i] : i \in DOMAIN s \cap some} <=> \E k \in 1..n : k \in some /\ x = s[k]
    BY <1>1
  <2>3. \A k \in 1..n : ToSet(f[k]) = IF k \in some THEN {s[k]} ELSE {}
    BY <1>2
  <2>4. \A x : x \in UNION {ToSet(f[k]) : k \in 1..n} <=> x \in {s[i] : i \in DOMAIN s \cap some}
    <3> TAKE x
    <3>1. (\E k \in 1..n : x \in ToSet(f[k])) <=> (\E k \in 1..n : k \in some /\ x = s[k])
      BY <2>3
    <3> QED
      BY <2>1, <2>2, <3>1
  <2> QED
    BY <2>4
<1> QED
  BY <1>4, <1>5 DEF f

-----------------------------------------------------------------------------
(* What the schemas ask of the database.                                   *)

\* A list and a relation make no column.
LEMMA ColumnsAreScalar ==
  ASSUME NEW model, model.fields \in Seq(ToSet(model.fields)), NEW f \in ToSet(Columns(model))
  PROVE  f.type \in Scalars
<1> DEFINE s == model.fields
           some == {i \in DOMAIN s : s[i].type \in Scalars /\ Arity(s[i]) # "list"}
<1>1. Columns(model) = FlattenSeq([i \in DOMAIN s |-> IF i \in some THEN <<s[i]>> ELSE <<>>])
  BY DEF Columns, Only, Each
<1>2. \A i \in some : s[i].type \in Scalars
  OBVIOUS
<1> HIDE DEF some, s
<1>3. Holds(Columns(model), ToSet(s), {s[i] : i \in DOMAIN s \cap some}, {}, {})
  BY <1>1, Picked DEF s
<1> QED
  BY <1>2, <1>3 DEF Holds

\* The types that the converter gives are those the databases are asked for.
LEMMA TypeDeclared ==
  ASSUME NEW prov \in ThreeProviders, NEW type \in Scalars
  PROVE  MapPrismaTypeToDB[prov][type] \in DeclaredTypes[prov]
BY DEF ThreeProviders, Scalars, MapPrismaTypeToDB, DeclaredTypes

\* What any schema asks of the database is in order.
LEMMA TargetsOK ==
  ASSUME NEW prov \in Providers, Ordinary(prov), NEW s \in DOMAIN Schemas[prov] \cup {"none"}
  PROVE  TargetOK(prov, Targets[prov][s])
<1> DEFINE T == Targets[prov][s]
<1>0. prov \in ThreeProviders
  BY ProvidersAssumption DEF ThreeProviders
<1>1. GoodCatalog(T)
  BY TargetsAreCatalogs
<1>2. CASE s \notin DOMAIN Schemas[prov]
  <2>1. T = ConvertSchema(prov, {})
    BY <1>2 DEF Targets, With
  <2>2. DOMAIN T = {}
    BY <2>1 DEF ConvertSchema
  <2> QED
    BY <1>1, <2>2 DEF TargetOK
<1>3. CASE s \in DOMAIN Schemas[prov]
  <2>1. DOMAIN T \subseteq TablesOf(prov) /\ "_prisma_migrations" \notin DOMAIN T
    <3>1. DOMAIN T \in {DOMAIN Targets[prov][u] : u \in DOMAIN Schemas[prov]}
      BY <1>3
    <3>2. "_prisma_migrations" \notin DOMAIN T
      BY <1>3 DEF Ordinary
    <3>3. \A names \in {DOMAIN Targets[prov][u] : u \in DOMAIN Schemas[prov]} :
            \A x \in names : x \in TablesOf(prov)
      BY DEF TablesOf
    <3> HIDE DEF T
    <3> QED
      BY <3>1, <3>2, <3>3
  <2>2. ASSUME NEW t \in DOMAIN T
        PROVE  /\ \A c \in DOMAIN T[t].cols : IsDef(T[t].cols[c]) /\ T[t].cols[c].type \in DeclaredTypes[prov]
               /\ \A i \in DOMAIN T[t].idxs : i \in TargetIndexes(prov) /\ i[1] = t /\ T[t].idxs[i] = UniqueOn(i[2])
    <3>0. s # "none" => T = ConvertSchema(prov, Schemas[prov][s])
      BY <1>3 DEF Targets, With
    <3>1. s # "none"
      BY <2>2 DEF Targets, With, ConvertSchema
    <3> DEFINE model == CHOOSE m \in Schemas[prov][s] : m.name = t
               fields == Columns(model)
               named(c) == CHOOSE f \in ToSet(fields) : f.name = c
               names == {f.name : f \in ToSet(fields)}
               unique == {f.name : f \in {g \in ToSet(fields) : "unique" \in g.attrs}}
    <3>2. model \in Schemas[prov][s] /\ model.name = t /\ T[t] = ConvertModel(prov, model)
      BY <2>2, <3>0, <3>1 DEF ConvertSchema
    <3> HIDE DEF model
    <3>3. model.fields \in Seq(ToSet(model.fields))
      BY <1>3, <3>2, SchemasAssumption
    <3>4. /\ T[t].cols = [c \in names |-> ConvertField(prov, named(c))]
          /\ T[t].idxs = [n \in {<<t, c, "unique">> : c \in unique} |-> UniqueOn(n[2])]
      BY <3>2 DEF ConvertModel, UniqueOn
    <3>5. ASSUME NEW c \in DOMAIN T[t].cols
          PROVE  IsDef(T[t].cols[c]) /\ T[t].cols[c].type \in DeclaredTypes[prov]
      <4>1. T[t].cols[c] = ConvertField(prov, named(c)) /\ named(c) \in ToSet(fields)
        BY <3>4
      <4>2. named(c).type \in Scalars
        <5> HIDE DEF named
        <5> QED
          BY <3>3, <4>1, ColumnsAreScalar
      <4> HIDE DEF named
      <4> QED
        BY <1>0, <4>1, <4>2, TypeDeclared DEF ConvertField, IsDef
    <3>6. ASSUME NEW i \in DOMAIN T[t].idxs
          PROVE  i \in TargetIndexes(prov) /\ i[1] = t /\ T[t].idxs[i] = UniqueOn(i[2])
      <4>1. i \in TargetIndexes(prov)
        BY <1>3 DEF TargetIndexes
      <4> QED
        BY <3>4, <4>1
    <3> QED
      BY <3>5, <3>6
  <2> QED
    BY <1>1, <2>1, <2>2 DEF TargetOK
<1> QED
  BY <1>2, <1>3

-----------------------------------------------------------------------------
(* What introspection reads of it.                                         *)

\* The names of the indexes that the schemas give.
LEMMA GivenNames ==
  ASSUME NEW prov \in Providers, NEW i \in TargetIndexes(prov)
  PROVE  i = <<i[1], i[2], "unique">>
<1>1. PICK s \in DOMAIN Schemas[prov] : \E t \in DOMAIN Targets[prov][s] : i \in DOMAIN Targets[prov][s][t].idxs
  <2>1. PICK names \in {UNION {DOMAIN Targets[prov][s][t].idxs : t \in DOMAIN Targets[prov][s]} : s \in DOMAIN Schemas[prov]} :
          i \in names
    BY DEF TargetIndexes
  <2>2. PICK s \in DOMAIN Schemas[prov] : names = UNION {DOMAIN Targets[prov][s][t].idxs : t \in DOMAIN Targets[prov][s]}
    BY <2>1
  <2>3. \E t \in DOMAIN Targets[prov][s] : i \in DOMAIN Targets[prov][s][t].idxs
    BY <2>1, <2>2
  <2> QED
    BY <2>3
<1> DEFINE T == Targets[prov][s]
<1>2. PICK t \in DOMAIN T : i \in DOMAIN T[t].idxs
  BY <1>1
<1>3. s # "none" /\ T = ConvertSchema(prov, Schemas[prov][s])
  BY <1>2 DEF Targets, With, ConvertSchema
<1> DEFINE model == CHOOSE m \in Schemas[prov][s] : m.name = t
<1>4. T[t] = ConvertModel(prov, model)
  BY <1>2, <1>3 DEF ConvertSchema
<1> HIDE DEF T, model
<1> DEFINE unique == {f.name : f \in {g \in ToSet(Columns(model)) : "unique" \in g.attrs}}
<1>5. T[t].idxs = [n \in {<<model.name, c, "unique">> : c \in unique} |-> [cols |-> <<n[2]>>, unique |-> TRUE]]
  BY <1>4 DEF ConvertModel
<1> HIDE DEF unique
<1>6. PICK c \in unique : i = <<model.name, c, "unique">>
  BY <1>2, <1>5
<1> QED
  BY <1>6

\* The types of the columns that introspection reports.
ReadTypes == [postgresql |-> {"INTEGER", "TEXT", "BOOLEAN", "TIMESTAMP"},
              mysql |-> {"INT", "varchar(255)", "BOOLEAN", "DATETIME"}]
MapType == [postgresql |-> MapPostgresType, mysql |-> MapMySQLType]

SeenOK(prov, first, t, table) ==
  prov # "sqlite" =>
    /\ \A c \in DOMAIN table.cols : IsDef(table.cols[c]) /\ table.cols[c].type \in ReadTypes[prov]
    /\ \A i \in DOMAIN table.idxs : KnownIndex(prov, first, t, i, table.idxs[i])

\* A type that is read as the one declared is the one reported for it.
LEMMA TypesRead ==
  ASSUME NEW prov \in {"postgresql", "mysql"}, NEW type \in KnownTypes[prov]
  PROVE  /\ MapType[prov][type] \in ReadTypes[prov]
         /\ \A d \in DeclaredTypes[prov] : AsDeclared[prov][d] = d /\ (MapType[prov][type] = d => type = ReportedType[prov][d])
<1>1. CASE prov = "postgresql"
  <2>1. type \in {"integer", "text", "boolean", "timestamp without time zone"}
    BY <1>1 DEF KnownTypes, MapPostgresType
  <2>2. MapType[prov] = MapPostgresType /\ ReadTypes[prov] = {"INTEGER", "TEXT", "BOOLEAN", "TIMESTAMP"}
    BY <1>1 DEF MapType, ReadTypes
  <2>3. MapType[prov][type] = CASE type = "integer" -> "INTEGER" [] type = "text" -> "TEXT" [] type = "boolean" -> "BOOLEAN"
                                [] type = "timestamp without time zone" -> "TIMESTAMP"
    BY <2>1, <2>2 DEF MapPostgresType
  <2>4. DeclaredTypes[prov] = {"INTEGER", "TEXT", "BOOLEAN", "TIMESTAMP"}
    BY <1>1 DEF DeclaredTypes
  <2>5. ASSUME NEW d \in DeclaredTypes[prov]
        PROVE  /\ AsDeclared[prov][d] = d
               /\ ReportedType[prov][d] = CASE d = "INTEGER" -> "integer" [] d = "TEXT" -> "text" [] d = "BOOLEAN" -> "boolean"
                                            [] d = "TIMESTAMP" -> "timestamp without time zone"
    BY <1>1, <2>4 DEF AsDeclared, ReportedType
  <2> QED
    BY <2>1, <2>2, <2>3, <2>4, <2>5
<1>2. CASE prov = "mysql"
  <2>1. type \in {"int", "varchar(255)", "tinyint(1)", "datetime"}
    BY <1>2 DEF KnownTypes, MapMySQLType
  <2>2. MapType[prov] = MapMySQLType /\ ReadTypes[prov] = {"INT", "varchar(255)", "BOOLEAN", "DATETIME"}
    BY <1>2 DEF MapType, ReadTypes
  <2>3. MapType[prov][type] = CASE type = "int" -> "INT" [] type = "varchar(255)" -> "varchar(255)" [] type = "tinyint(1)" -> "BOOLEAN"
                                [] type = "datetime" -> "DATETIME"
    BY <2>1, <2>2 DEF MapMySQLType
  <2>4. DeclaredTypes[prov] = {"INT", "VARCHAR(255)", "TINYINT(1)", "DATETIME"}
    BY <1>2 DEF DeclaredTypes
  <2>5. ASSUME NEW d \in DeclaredTypes[prov]
        PROVE  AsDeclared[prov][d] = d /\ (d = "INT" => ReportedType[prov][d] = "int")
                                       /\ (d = "DATETIME" => ReportedType[prov][d] = "datetime")
    BY <1>2, <2>4 DEF AsDeclared, ReportedType
  <2> QED
    BY <2>1, <2>2, <2>3, <2>4, <2>5
<1> QED
  BY <1>1, <1>2

\* Each introspector reads a column as it is, but for the name of its type.
LEMMA ColumnsRead ==
  ASSUME NEW prov \in {"postgresql", "mysql"}, NEW cols, \A c \in DOMAIN cols : IsColumn(prov, cols[c]),
         NEW read, read = [c \in DOMAIN cols |-> [cols[c] EXCEPT !.type = MapType[prov][@]]], NEW c \in DOMAIN cols
  PROVE  IsDef(read[c]) /\ read[c].type = MapType[prov][cols[c].type] /\ read[c].nullable = cols[c].nullable
<1> DEFINE d == [type |-> cols[c].type, nullable |-> cols[c].nullable, default |-> cols[c].default, auto |-> cols[c].auto]
<1>1. cols[c] = d
  BY DEF IsColumn, IsDef
<1>2. read[c] = [d EXCEPT !.type = MapType[prov][@]]
  BY <1>1
<1> QED
  BY <1>2 DEF IsDef

SameAs(f, g) == DOMAIN f = DOMAIN g /\ \A x \in DOMAIN g : f[x] = g[x]

\* The index of the primary key is none of these.
LEMMA IndexesRead ==
  ASSUME NEW prov \in Providers, Ordinary(prov), NEW first \in FirstCatalogs[prov], NEW t, NEW table,
         \A i \in DOMAIN table.idxs : KnownIndex(prov, first, t, i, table.idxs[i]),
         NEW read \in {PostgresIndexes(table), MySQLIndexes(table)}
  PROVE  SameAs(read, table.idxs)
<1>1. <<"PRIMARY">> \notin DOMAIN table.idxs
  <2> SUFFICES ASSUME <<"PRIMARY">> \in DOMAIN table.idxs
               PROVE  FALSE
    OBVIOUS
  <2> DEFINE i == <<"PRIMARY">>
  <2>0. KnownIndex(prov, first, t, i, table.idxs[i])
    OBVIOUS
  <2>1. CASE i \in TargetIndexes(prov)
    <3>1. i = <<i[1], i[2], "unique">>
      BY <2>1, GivenNames
    <3>2. Len(i) = 1 /\ Len(<<i[1], i[2], "unique">>) = 3
      OBVIOUS
    <3> QED
      BY <3>1, <3>2
  <2>2. CASE i \notin TargetIndexes(prov)
    <3>1. t \in DOMAIN first /\ i \in DOMAIN first[t].idxs
      BY <2>0, <2>2 DEF KnownIndex
    <3> QED
      BY <3>1 DEF Ordinary
  <2> QED
    BY <2>1, <2>2
<1> DEFINE key == <<"PRIMARY">>
           index == [cols |-> table.pk, unique |-> TRUE]
<1>2. Listed(table) = With(table.idxs, key, index)
  BY DEF Listed
<1> HIDE DEF key, index
<1>3. DOMAIN Listed(table) = DOMAIN table.idxs \cup {key} /\ \A i \in DOMAIN table.idxs : i # key => Listed(table)[i] = table.idxs[i]
  BY <1>2 DEF With
<1>4. read = [i \in DOMAIN Listed(table) \ {key} |-> Listed(table)[i]]
  BY DEF PostgresIndexes, MySQLIndexes, key
<1> QED
  BY <1>1, <1>3, <1>4 DEF key, SameAs

\* Whatever is left to do in a table is found in what is read of it.
LEMMA TableRead ==
  ASSUME NEW prov \in Providers, Ordinary(prov), NEW first \in FirstCatalogs[prov], NEW t, NEW table,
         TableOK(prov, first, t, table)
  PROVE  LET read == IntrospectTable(prov, table)
         IN  /\ SeenOK(prov, first, t, read)
             /\ \A T : TargetOK(prov, T) /\ t \in DOMAIN T =>
                  \A w, c : Short(prov, ReportedType[prov], table, T[t], w, c) => Short(prov, AsDeclared[prov], read, T[t], w, c)
<1> DEFINE read == IntrospectTable(prov, table)
<1>1. CASE prov = "sqlite"
  <2>1. read = SQLiteTable(table)
    BY <1>1 DEF IntrospectTable
  <2>2. DOMAIN read.cols = DOMAIN table.cols
    <3>1. read.cols = SQLiteColumns(table)
      BY <2>1 DEF SQLiteTable
    <3>2. DOMAIN SQLiteColumns(table) = DOMAIN table.cols
      BY DEF SQLiteColumns
    <3> QED
      BY <3>1, <3>2
  <2> HIDE DEF read
  <2>3. \A u, w, c : Short(prov, ReportedType[prov], table, u, w, c) => Short(prov, AsDeclared[prov], read, u, w, c)
    BY <1>1, <2>2 DEF Short
  <2> QED
    BY <1>1, <2>3 DEF SeenOK, read
<1>2. CASE prov \in {"postgresql", "mysql"}
  <2>0. \A c \in DOMAIN table.cols : IsColumn(prov, table.cols[c])
    BY <1>2 DEF TableOK
  <2>1. /\ read.cols = [c \in DOMAIN table.cols |-> [table.cols[c] EXCEPT !.type = MapType[prov][@]]]
        /\ read.idxs \in {PostgresIndexes(table), MySQLIndexes(table)}
    <3>1. CASE prov = "postgresql"
      BY <3>1 DEF IntrospectTable, PostgresTable, PostgresColumns, MapType
    <3>2. CASE prov = "mysql"
      BY <3>2 DEF IntrospectTable, MySQLTable, MySQLColumns, MapType
    <3> QED
      BY <1>2, <3>1, <3>2
  <2> HIDE DEF read
  <2>2. DOMAIN read.idxs = DOMAIN table.idxs /\ \A i \in DOMAIN read.idxs : read.idxs[i] = table.idxs[i]
    <3>1. \A i \in DOMAIN table.idxs : KnownIndex(prov, first, t, i, table.idxs[i])
      BY <1>2 DEF TableOK
    <3>2. \A idxs \in {PostgresIndexes(table), MySQLIndexes(table)} : SameAs(idxs, table.idxs)
      BY <3>1, IndexesRead
    <3>3. SameAs(read.idxs, table.idxs)
      BY <2>1, <3>2
    <3> QED
      BY <3>3 DEF SameAs
  <2>3. DOMAIN read.cols = DOMAIN table.cols
    BY <2>1
  <2>4. \A c \in DOMAIN table.cols : /\ IsDef(read.cols[c]) /\ read.cols[c].type = MapType[prov][table.cols[c].type]
                                     /\ read.cols[c].nullable = table.cols[c].nullable
    BY <1>2, <2>0, <2>1, ColumnsRead
  <2>5. \A c \in DOMAIN table.cols : read.cols[c].type \in ReadTypes[prov]
    BY <1>2, <2>0, <2>4, TypesRead DEF IsColumn
  <2>6. SeenOK(prov, first, t, read)
    BY <1>2, <2>2, <2>3, <2>4, <2>5 DEF SeenOK, TableOK
  <2>7. ASSUME NEW T, TargetOK(prov, T), t \in DOMAIN T, NEW w, NEW c, Short(prov, ReportedType[prov], table, T[t], w, c)
        PROVE  Short(prov, AsDeclared[prov], read, T[t], w, c)
    <3>1. CASE w = "type"
      <4>1. c \in DOMAIN table.cols /\ c \in DOMAIN T[t].cols /\ table.cols[c].type # ReportedType[prov][T[t].cols[c].type]
        BY <2>7, <3>1 DEF Short
      <4>2. T[t].cols[c].type \in DeclaredTypes[prov] /\ table.cols[c].type \in KnownTypes[prov]
        BY <2>0, <2>7, <4>1 DEF TargetOK, IsColumn
      <4>3. read.cols[c].type # AsDeclared[prov][T[t].cols[c].type]
        BY <1>2, <2>4, <4>1, <4>2, TypesRead
      <4> QED
        BY <1>2, <2>3, <3>1, <4>1, <4>3 DEF Short
    <3>2. CASE w # "type"
      BY <2>2, <2>3, <2>4, <2>7, <3>2 DEF Short
    <3> QED
      BY <3>1, <3>2
  <2> QED
    BY <2>6, <2>7 DEF read
<1> QED
  BY <1>1, <1>2, ProvidersAssumption

-----------------------------------------------------------------------------
(* What the differ finds in two schemas whose names are apart.             *)

\* What needs no guard, and what an order of a set holds.
LEMMA Unaffected ==
  ASSUME NEW S, NEW s \in Seq(S), NEW B, NEW G, ToSet(s) \cap B = {}
  PROVE  Holds(s, S, ToSet(s), B, G)
<1>1. \A i \in DOMAIN s : s[i] \notin B
  BY DEF ToSet
<1> QED
  BY <1>1 DEF Holds, Guarded

LEMMA OrderIn ==
  ASSUME NEW S, NEW X, X \subseteq S, IsFiniteSet(X), NEW o \in Orders(X), NEW B, NEW G, X \cap B = {}
  PROVE  Holds(o, S, X, B, G)
<1>1. o \in Seq(X) /\ ToSet(o) = X
  BY OrderHasAll
<1>2. o \in Seq(S)
  BY <1>1, SeqMonotonic
<1> QED
  BY <1>1, <1>2, Unaffected

\* Two parts, each with its own guards,
LEMMA BothHold ==
  ASSUME NEW S, NEW B, NEW G, NEW a, NEW X, Holds(a, S, X, B, G), NEW b, NEW Y, Holds(b, S, Y, B, G)
  PROVE  Holds(a \o b, S, X \cup Y, B, G)
<1>1. a \in Seq(S) /\ b \in Seq(S) /\ ToSet(a) = X /\ ToSet(b) = Y /\ Guarded(a, B, G) /\ Guarded(b, B, G)
  BY DEF Holds
<1> QED
  BY <1>1, Joined

\* or the second with those of the first.
LEMMA AfterIt ==
  ASSUME NEW S, NEW B, NEW G, NEW a, NEW X, Holds(a, S, X, B, G), X \cap G # {}, NEW b, NEW Y, Holds(b, S, Y, {}, {})
  PROVE  Holds(a \o b, S, X \cup Y, B, G)
<1>1. a \in Seq(S) /\ b \in Seq(S) /\ ToSet(a) = X /\ ToSet(b) = Y /\ Guarded(a, B, G)
  BY DEF Holds
<1> QED
  BY <1>1, Joined

\* The changes of the columns and of the indexes of a table.
ColumnChanges(prov, prev, next, name) ==
  IF Normalize(prov, name) # name THEN {}
  ELSE AddColumns(next, DOMAIN next \ DOMAIN prev) \cup DropColumns(DOMAIN prev \ DOMAIN next) \cup AlterColumns(prev, next)

Renamed(prov, prev, next) ==
  {r \in IndexPairs(prev, next) :
     /\ Flavour[prov].canRenameIndex
     /\ IndexShouldBeRenamed(prev[r[1]], next[r[2]], r[1], r[2])}
RenameOf(i, j) == [type |-> "RenameIndex", old |-> i, new |-> j]
CreateOf(i) == [type |-> "CreateIndex", index |-> i]
DropOf(i) == [type |-> "DropIndex", index |-> i]
IndexRenames(prov, prev, next) == {RenameOf(x[1], x[2]) : x \in Renamed(prov, prev, next)}
IndexCreations(prov, prev, next) == {CreateOf(i) : i \in {n \in DOMAIN next : \A r \in Renamed(prov, prev, next) : r[2] # n}}
IndexDrops(prov, prev, next) == {DropOf(i) : i \in {n \in DOMAIN prev : \A r \in Renamed(prov, prev, next) : r[1] # n}}
IndexChanges(prov, prev, next) ==
  IndexRenames(prov, prev, next) \cup IndexCreations(prov, prev, next) \cup IndexDrops(prov, prev, next)

OtherChanges == {[type |-> "DropForeignKey"], [type |-> "ChangePrimaryKey"]}

\* An index of the target is created, or another renamed to it, before it is dropped.
Keeping(prev, i) == {CreateOf(i)} \cup {RenameOf(j, i) : j \in DOMAIN prev}

\* The changes of columns that the differ finds, in any order, are these;
LEMMA ColumnsDiffer ==
  ASSUME NEW prov, NEW prev, IsTable(prev), NEW next, IsTable(next), NEW name,
         NEW changes \in CompareColumns(prov, prev, next, name), NEW B, \A x \in B : x.type = "DropIndex", NEW G
  PROVE  LET all == ColumnChanges(prov, prev.cols, next.cols, name)
         IN  Holds(changes, all, all, B, G)
<1> DEFINE all == ColumnChanges(prov, prev.cols, next.cols, name)
<1>1. CASE Normalize(prov, name) # name
  <2>1. changes = <<>> /\ all = {}
    BY <1>1 DEF CompareColumns, ColumnChanges
  <2>2. Holds(<<>>, {}, {}, B, G)
    BY FewStatements
  <2> HIDE DEF all
  <2>3. Holds(changes, all, all, B, G)
    BY <2>1, <2>2
  <2> QED
    BY <2>3 DEF all
<1>2. CASE Normalize(prov, name) = name
  <2> DEFINE X == AddColumns(next.cols, DOMAIN next.cols \ DOMAIN prev.cols)
             Y == DropColumns(DOMAIN prev.cols \ DOMAIN next.cols)
             Z == AlterColumns(prev.cols, next.cols)
  <2>0. IsFiniteSet(DOMAIN prev.cols) /\ IsFiniteSet(DOMAIN next.cols)
    BY DEF IsTable
  <2>1. all = X \cup Y \cup Z
    BY <1>2 DEF ColumnChanges
  <2>2. IsFiniteSet(X) /\ X \cap B = {}
    <3> DEFINE names == DOMAIN next.cols \ DOMAIN prev.cols
               f == [c \in names |-> [type |-> "AddColumn", column |-> c, meta |-> next.cols[c]]]
    <3>1. names \in SUBSET (DOMAIN next.cols)
      OBVIOUS
    <3>2. IsFiniteSet(names) /\ DOMAIN f = names
      BY <2>0, <3>1, FS_Subset
    <3>3. X = {f[c] : c \in names} /\ \A c \in names : f[c].type = "AddColumn"
      BY DEF AddColumns
    <3> HIDE DEF names, f, X
    <3> QED
      BY <3>2, <3>3, FiniteImage
  <2>3. IsFiniteSet(Y) /\ Y \cap B = {}
    <3> DEFINE names == DOMAIN prev.cols \ DOMAIN next.cols
               f == [c \in names |-> [type |-> "DropColumn", column |-> c]]
    <3>1. names \in SUBSET (DOMAIN prev.cols)
      OBVIOUS
    <3>2. IsFiniteSet(names) /\ DOMAIN f = names
      BY <2>0, <3>1, FS_Subset
    <3>3. Y = {f[c] : c \in names} /\ \A c \in names : f[c].type = "DropColumn"
      BY DEF DropColumns
    <3> HIDE DEF names, f, Y
    <3> QED
      BY <3>2, <3>3, FiniteImage
  <2>4. IsFiniteSet(Z) /\ Z \cap B = {}
    <3> DEFINE names == Altered(prev.cols, next.cols)
               f == [c \in names |-> [type |-> "AlterColumn", column |-> c, meta |-> next.cols[c],
                                      oldType |-> prev.cols[c].type, oldNullable |-> prev.cols[c].nullable]]
    <3>1. names \in SUBSET (DOMAIN prev.cols)
      BY DEF Altered
    <3>2. IsFiniteSet(names) /\ DOMAIN f = names
      BY <2>0, <3>1, FS_Subset
    <3>3. Z = {f[c] : c \in names} /\ \A c \in names : f[c].type = "AlterColumn"
      BY DEF AlterColumns
    <3> HIDE DEF names, f, Z
    <3> QED
      BY <3>2, <3>3, FiniteImage
  <2>5. PICK a \in Orders(X), d \in Orders(Y), u \in Orders(Z) : changes = a \o d \o u
    <3>1. CompareColumns(prov, prev, next, name) = {a \o d \o u : a \in Orders(X), d \in Orders(Y), u \in Orders(Z)}
      BY <1>2 DEF CompareColumns
    <3> HIDE DEF X, Y, Z
    <3> QED
      BY <3>1
  <2> HIDE DEF X, Y, Z, all
  <2>6. Holds(a, all, X, B, G) /\ Holds(d, all, Y, B, G) /\ Holds(u, all, Z, B, G)
    BY <2>1, <2>2, <2>3, <2>4, OrderIn
  <2>7. Holds(a \o d, all, X \cup Y, B, G)
    BY <2>6, BothHold
  <2>8. Holds((a \o d) \o u, all, (X \cup Y) \cup Z, B, G)
    BY <2>6, <2>7, BothHold
  <2>9. Holds(changes, all, all, B, G)
    BY <2>1, <2>5, <2>8
  <2> QED
    BY <2>9 DEF all
<1> QED
  BY <1>1, <1>2

\* of indexes, the creation of an index comes before it is dropped again;
LEMMA IndexesDiffer ==
  ASSUME NEW prov, NEW prev, IsFiniteSet(DOMAIN prev), NEW next, IsFiniteSet(DOMAIN next),
         NEW changes \in CompareIndexes(prov, prev, next), NEW B, NEW G,
         B = {} \/ \E i \in DOMAIN next : B = {DropOf(i)} /\ G = Keeping(prev, i)
  PROVE  LET all == IndexChanges(prov, prev, next)
         IN  Holds(changes, all, all, B, G)
<1> DEFINE all == IndexChanges(prov, prev, next)
           renamed == Renamed(prov, prev, next)
           created == {n \in DOMAIN next : \A r \in renamed : r[2] # n}
           dropped == {n \in DOMAIN prev : \A r \in renamed : r[1] # n}
           X == {RenameOf(x[1], x[2]) : x \in renamed}
           Y == {CreateOf(x) : x \in created}
           Z == {DropOf(x) : x \in dropped}
<1>1. all = X \cup Y \cup Z
  BY DEF IndexChanges, IndexRenames, IndexCreations, IndexDrops
<1>2. PICK r \in Orders(X), c \in Orders(Y), d \in Orders(Z) : changes = r \o c \o d
  <2>1. CompareIndexes(prov, prev, next) = {r \o c \o d : r \in Orders(X), c \in Orders(Y), d \in Orders(Z)}
    BY DEF CompareIndexes, Renamed, RenameOf, CreateOf, DropOf
  <2> HIDE DEF X, Y, Z
  <2> QED
    BY <2>1
<1>3. renamed \in SUBSET ((DOMAIN prev) \X (DOMAIN next)) /\ IsFiniteSet(renamed)
  <2>1. IsFiniteSet((DOMAIN prev) \X (DOMAIN next))
    BY FS_Product
  <2>2. renamed \in SUBSET ((DOMAIN prev) \X (DOMAIN next))
    BY DEF Renamed, IndexPairs
  <2> HIDE DEF renamed
  <2> QED
    BY <2>1, <2>2, FS_Subset
<1> HIDE DEF renamed
<1>4. created \in SUBSET (DOMAIN next) /\ dropped \in SUBSET (DOMAIN prev)
  OBVIOUS
<1>5. IsFiniteSet(created) /\ IsFiniteSet(dropped)
  <2> HIDE DEF created, dropped
  <2> QED
    BY <1>4, FS_Subset
<1>6. B = {} \/ X \cap G # {} \/ Y \cap G # {}
  <2> SUFFICES ASSUME NEW i \in DOMAIN next, G = Keeping(prev, i)
               PROVE  X \cap G # {} \/ Y \cap G # {}
    OBVIOUS
  <2>1. CASE i \in created
    <3>1. CreateOf(i) \in Y /\ CreateOf(i) \in G
      BY <2>1 DEF Keeping
    <3> QED
      BY <3>1
  <2>2. CASE i \notin created
    <3>1. PICK x \in renamed : x[2] = i
      BY <2>2
    <3>2. x[1] \in DOMAIN prev
      BY <1>3
    <3>3. RenameOf(x[1], x[2]) \in X /\ RenameOf(x[1], x[2]) \in G
      BY <3>1, <3>2 DEF Keeping
    <3> QED
      BY <3>3
  <2> QED
    BY <2>1, <2>2
<1> HIDE DEF created, dropped
<1>7. IsFiniteSet(X) /\ X \cap B = {}
  <2> DEFINE f == [x \in renamed |-> RenameOf(x[1], x[2])]
  <2>1. X = {f[x] : x \in renamed} /\ DOMAIN f = renamed /\ \A x \in renamed : f[x].type = "RenameIndex"
    BY DEF RenameOf
  <2>2. \A x \in B : x.type = "DropIndex"
    BY DEF DropOf
  <2> HIDE DEF f, X
  <2> QED
    BY <1>3, <2>1, <2>2, FiniteImage
<1>8. IsFiniteSet(Y) /\ Y \cap B = {}
  <2> DEFINE f == [x \in created |-> CreateOf(x)]
  <2>1. Y = {f[x] : x \in created} /\ DOMAIN f = created /\ \A x \in created : f[x].type = "CreateIndex"
    BY DEF CreateOf
  <2>2. \A x \in B : x.type = "DropIndex"
    BY DEF DropOf
  <2> HIDE DEF f, Y
  <2> QED
    BY <1>5, <2>1, <2>2, FiniteImage
<1>9. IsFiniteSet(Z)
  <2> DEFINE f == [x \in dropped |-> DropOf(x)]
  <2>1. Z = {f[x] : x \in dropped} /\ DOMAIN f = dropped
    OBVIOUS
  <2> HIDE DEF f, Z
  <2> QED
    BY <1>5, <2>1, FiniteImage
<1> HIDE DEF X, Y, Z, all
<1>10. Holds(r, all, X, B, G) /\ Holds(c, all, Y, B, G)
  BY <1>1, <1>7, <1>8, OrderIn
<1>11. Holds(r \o c, all, X \cup Y, B, G)
  BY <1>10, BothHold
<1>12. Holds((r \o c) \o d, all, (X \cup Y) \cup Z, B, G)
  <2>1. CASE B = {}
    <3>1. Z \cap B = {}
      BY <2>1
    <3>2. Holds(d, all, Z, B, G)
      BY <1>1, <1>9, <3>1, OrderIn
    <3> QED
      BY <1>11, <3>2, BothHold
  <2>2. CASE X \cap G # {} \/ Y \cap G # {}
    <3>1. Holds(d, all, Z, {}, {})
      BY <1>1, <1>9, OrderIn
    <3>2. (X \cup Y) \cap G # {}
      BY <2>2
    <3> QED
      BY <1>11, <3>1, <3>2, AfterIt
  <2> QED
    BY <1>6, <2>1, <2>2
<1>13. Holds(changes, all, all, B, G)
  BY <1>1, <1>2, <1>12
<1> QED
  BY <1>13 DEF all

\* What the changes of one table have in common, whatever the order.
Compared(prov, prev, next, name, changes) ==
  LET all == ColumnChanges(prov, prev.cols, next.cols, name) \cup IndexChanges(prov, prev.idxs, next.idxs)
  IN  /\ changes \in Seq(all \cup OtherChanges)
      /\ all \subseteq ToSet(changes)
      /\ \A i \in DOMAIN next.idxs : Guarded(changes, {DropOf(i)}, Keeping(prev.idxs, i))

\* the changes of foreign keys and primary keys say nothing of columns and indexes.
LEMMA OthersDiffer ==
  ASSUME NEW prov, NEW prev, IsTable(prev), NEW next
  PROVE  /\ CompareForeignKeys(prov, prev.fks, next.fks) \in Seq(OtherChanges)
         /\ ComparePrimaryKeys(prev.pk, next.pk) \in Seq(OtherChanges)
<1> DEFINE renamed == {r \in ForeignKeyPairs(prev.fks, next.fks) : Flavour[prov].canRenameForeignKey}
           dropped == {k \in prev.fks : \A r \in renamed : r[1] # k}
           one == [type |-> "DropForeignKey"]
           changes == [i \in 1..Cardinality(dropped) |-> one]
<1>1. dropped \in SUBSET prev.fks
  OBVIOUS
<1>2. changes = CompareForeignKeys(prov, prev.fks, next.fks)
  BY DEF CompareForeignKeys
<1>3. one \in OtherChanges
  BY DEF OtherChanges
<1> HIDE DEF dropped, one
<1>4. Cardinality(dropped) \in Nat
  BY <1>1, FS_Subset, FS_CardinalityType DEF IsTable
<1>5. changes \in Seq(OtherChanges)
  <2>1. changes \in [1..Cardinality(dropped) -> OtherChanges]
    BY <1>3
  <2> QED
    BY <1>4, <2>1, IsASeq
<1>6. ComparePrimaryKeys(prev.pk, next.pk) \in Seq(OtherChanges)
  <2> DEFINE key == [type |-> "ChangePrimaryKey"]
  <2>1. key \in OtherChanges
    BY DEF OtherChanges
  <2>2. ComparePrimaryKeys(prev.pk, next.pk) \in {<<>>, <<key>>}
    BY DEF ComparePrimaryKeys
  <2> HIDE DEF key
  <2>3. <<key>> \in Seq(OtherChanges) /\ <<>> \in Seq(OtherChanges)
    BY <2>1
  <2> QED
    BY <2>2, <2>3
<1> QED
  BY <1>2, <1>5, <1>6

\* So the changes of a table that is compared.
LEMMA TablesDiffer ==
  ASSUME NEW prov, NEW prev, IsTable(prev), NEW next, IsTable(next), NEW name,
         NEW changes \in CompareTables(prov, prev, next, name)
  PROVE  Compared(prov, prev, next, name, changes)
<1> DEFINE S == ColumnChanges(prov, prev.cols, next.cols, name)
           I == IndexChanges(prov, prev.idxs, next.idxs)
           U == S \cup I \cup OtherChanges
           f == CompareForeignKeys(prov, prev.fks, next.fks)
           k == ComparePrimaryKeys(prev.pk, next.pk)
<1>1. PICK c \in CompareColumns(prov, prev, next, name), i \in CompareIndexes(prov, prev.idxs, next.idxs) :
        changes = c \o i \o f \o k
  BY DEF CompareTables
<1>2. f \in Seq(OtherChanges) /\ k \in Seq(OtherChanges)
  BY OthersDiffer
<1>3. \A ch \in OtherChanges : ch.type # "DropIndex"
  BY DEF OtherChanges
<1> HIDE DEF f, k, S, I
<1>4. ASSUME NEW B, NEW G, B = {} \/ \E j \in DOMAIN next.idxs : B = {DropOf(j)} /\ G = Keeping(prev.idxs, j)
      PROVE  Holds(changes, U, ((S \cup I) \cup ToSet(f)) \cup ToSet(k), B, G)
  <2>1. \A x \in B : x.type = "DropIndex"
    BY <1>4 DEF DropOf
  <2>2. Holds(c, S, S, B, G)
    BY <2>1, ColumnsDiffer DEF S
  <2>3. Holds(i, I, I, B, G)
    BY <1>4, IndexesDiffer DEF I, IsTable
  <2>4. c \in Seq(U) /\ i \in Seq(U) /\ f \in Seq(U) /\ k \in Seq(U)
    <3> HIDE DEF U
    <3>1. S \subseteq U /\ I \subseteq U /\ OtherChanges \subseteq U
      BY DEF U
    <3>2. c \in Seq(S) /\ i \in Seq(I)
      BY <2>2, <2>3 DEF Holds
    <3> QED
      BY <1>2, <3>1, <3>2, SeqMonotonic
  <2>5. ToSet(f) \cap B = {} /\ ToSet(k) \cap B = {}
    <3>1. \A x \in ToSet(f) : x \in OtherChanges
      BY <1>2 DEF ToSet
    <3>2. \A x \in ToSet(k) : x \in OtherChanges
      BY <1>2 DEF ToSet
    <3> QED
      BY <1>3, <2>1, <3>1, <3>2
  <2> HIDE DEF U
  <2>6. Holds(c, U, S, B, G) /\ Holds(i, U, I, B, G)
    BY <2>2, <2>3, <2>4 DEF Holds
  <2>7. Holds(f, U, ToSet(f), B, G) /\ Holds(k, U, ToSet(k), B, G)
    BY <2>4, <2>5, Unaffected
  <2>8. Holds(c \o i, U, S \cup I, B, G)
    BY <2>6, BothHold
  <2>9. Holds((c \o i) \o f, U, (S \cup I) \cup ToSet(f), B, G)
    BY <2>7, <2>8, BothHold
  <2>10. Holds(((c \o i) \o f) \o k, U, ((S \cup I) \cup ToSet(f)) \cup ToSet(k), B, G)
    BY <2>7, <2>9, BothHold
  <2> QED
    BY <1>1, <2>10
<1>5. Holds(changes, U, ((S \cup I) \cup ToSet(f)) \cup ToSet(k), {}, {})
  BY <1>4
<1>6. changes \in Seq(U) /\ S \cup I \subseteq ToSet(changes)
  <2> HIDE DEF U
  <2> QED
    BY <1>5 DEF Holds
<1>7. ASSUME NEW j \in DOMAIN next.idxs
      PROVE  Guarded(changes, {DropOf(j)}, Keeping(prev.idxs, j))
  <2> DEFINE B == {DropOf(j)}
             G == Keeping(prev.idxs, j)
  <2>1. Holds(changes, U, ((S \cup I) \cup ToSet(f)) \cup ToSet(k), B, G)
    <3> HIDE DEF U
    <3>1. \E h \in DOMAIN next.idxs : B = {DropOf(h)} /\ G = Keeping(prev.idxs, h)
      OBVIOUS
    <3> HIDE DEF B, G
    <3> QED
      BY <1>4, <3>1
  <2> HIDE DEF U, B, G
  <2>2. Guarded(changes, B, G)
    BY <2>1 DEF Holds
  <2> QED
    BY <2>2 DEF B, G
<1> QED
  BY <1>6, <1>7 DEF Compared, S, I

\* A table goes by a name of its own.
LEMMA NamesApart ==
  ASSUME NEW prov, Ordinary(prov), NEW tables, DOMAIN tables \subseteq TablesOf(prov)
  PROVE  /\ \A t, u \in TablesOf(prov) : Normalize(prov, t) = Normalize(prov, u) => t = u
         /\ \A n \in TableNames(prov, tables) :
              \E t \in DOMAIN tables \ {"_prisma_migrations"} : n = Normalize(prov, t)
         /\ \A t \in DOMAIN tables \ {"_prisma_migrations"} :
              Normalize(prov, t) \in TableNames(prov, tables) /\ Table(prov, tables, Normalize(prov, t)) = t
<1>1. \A t, u \in TablesOf(prov) : Normalize(prov, t) = Normalize(prov, u) => t = u
  BY DEF Ordinary
<1>2. Normalize(prov, "_prisma_migrations") = "_prisma_migrations" /\ "_prisma_migrations" \in TablesOf(prov)
  BY HistoryAssumption DEF Normalize, TablesOf
<1>3. \A n \in TableNames(prov, tables) : \E t \in DOMAIN tables : n = Normalize(prov, t) /\ n # "_prisma_migrations"
  BY DEF TableNames, TableShouldBeIgnored
<1>4. ASSUME NEW t \in DOMAIN tables \ {"_prisma_migrations"}
      PROVE  Normalize(prov, t) \in TableNames(prov, tables) /\ Table(prov, tables, Normalize(prov, t)) = t
  <2>1. Normalize(prov, t) # "_prisma_migrations"
    BY <1>1, <1>2
  <2>2. Normalize(prov, t) \in TableNames(prov, tables)
    BY <2>1 DEF TableNames, TableShouldBeIgnored
  <2>3. Table(prov, tables, Normalize(prov, t)) \in DOMAIN tables /\ Normalize(prov, Table(prov, tables, Normalize(prov, t))) = Normalize(prov, t)
    BY DEF Table
  <2> QED
    BY <1>1, <2>2, <2>3
<1> QED
  BY <1>1, <1>2, <1>3, <1>4

\* What the differ makes of what was read of a database, whatever the orders it meets the tables in.
Differs(prov, read, T, diff) ==
  /\ ToSet(diff.create) = DOMAIN T \ DOMAIN read
  /\ ToSet(diff.drop) = DOMAIN read \ (DOMAIN T \cup {"_prisma_migrations"})
  /\ \A k \in DOMAIN diff.alter : \E t \in DOMAIN T \cap DOMAIN read :
       /\ diff.alter[k].table = Normalize(prov, t)
       /\ Compared(prov, read[t], T[t], t, diff.alter[k].changes)
  /\ \A t \in DOMAIN T \cap DOMAIN read :
       \/ Compared(prov, read[t], T[t], t, <<>>)
       \/ \E k \in DOMAIN diff.alter : diff.alter[k].table = Normalize(prov, t)

\* What the differ finds is what the two schemas differ in.
LEMMA SchemasDiffer ==
  ASSUME NEW prov, Ordinary(prov), NEW read, GoodTables(read), DOMAIN read \subseteq TablesOf(prov),
         NEW T, GoodCatalog(T), DOMAIN T \subseteq TablesOf(prov), "_prisma_migrations" \notin DOMAIN T,
         NEW diff \in CompareSchemas(prov, read, T)
  PROVE  Differs(prov, read, T, diff)
<1> DEFINE hist == "_prisma_migrations"
           old == TableNames(prov, read)
           new == TableNames(prov, T)
           created == {Table(prov, T, n) : n \in new \ old}
           dropped == {Table(prov, read, n) : n \in old \ new}
           changes == [n \in old \cap new |->
                         LET u == Table(prov, T, n)
                         IN  CompareTables(prov, read[Table(prov, read, n)], T[u], u)]
           altered == {n \in old \cap new : <<>> \notin changes[n]}
           sorted == SetToSeq(altered)
           choices == {g \in [altered -> UNION {changes[n] : n \in altered}] : \A n \in altered : g[n] \in changes[n]}
<1>1. CompareSchemas(prov, read, T) =
        {[create |-> c, drop |-> d,
          alter |-> [i \in DOMAIN sorted |-> [table |-> sorted[i], changes |-> f[sorted[i]]]]] :
            c \in Orders(created), d \in Orders(dropped), f \in choices}
  BY DEF CompareSchemas
<1>2. /\ \A t, u \in TablesOf(prov) : Normalize(prov, t) = Normalize(prov, u) => t = u
      /\ \A n \in old : \E t \in DOMAIN read \ {hist} : n = Normalize(prov, t)
      /\ \A n \in new : \E t \in DOMAIN T : n = Normalize(prov, t)
      /\ \A t \in DOMAIN read \ {hist} : Normalize(prov, t) \in old /\ Table(prov, read, Normalize(prov, t)) = t
      /\ \A t \in DOMAIN T : Normalize(prov, t) \in new /\ Table(prov, T, Normalize(prov, t)) = t
  BY NamesApart
<1>3. IsFiniteSet(old)
  BY NamesOfTables DEF GoodTables
<1> HIDE DEF old, new
<1>4. created = DOMAIN T \ DOMAIN read
  <2>1. ASSUME NEW t \in DOMAIN T \ DOMAIN read PROVE t \in created
    <3>1. Normalize(prov, t) \notin old
      BY <1>2
    <3> QED
      BY <1>2, <3>1
  <2>2. ASSUME NEW n \in new \ old PROVE Table(prov, T, n) \in DOMAIN T \ DOMAIN read
    BY <1>2
  <2> QED
    BY <2>1, <2>2
<1>5. dropped = DOMAIN read \ (DOMAIN T \cup {hist})
  <2>1. ASSUME NEW t \in DOMAIN read \ (DOMAIN T \cup {hist}) PROVE t \in dropped
    <3>1. Normalize(prov, t) \notin new
      BY <1>2
    <3> QED
      BY <1>2, <3>1
  <2>2. ASSUME NEW n \in old \ new PROVE Table(prov, read, n) \in DOMAIN read \ (DOMAIN T \cup {hist})
    BY <1>2
  <2> QED
    BY <2>1, <2>2
<1>6. IsFiniteSet(created) /\ IsFiniteSet(dropped) /\ IsFiniteSet(altered)
  <2>1. created \in SUBSET DOMAIN T /\ dropped \in SUBSET DOMAIN read /\ altered \in SUBSET old
    BY <1>4, <1>5
  <2> HIDE DEF created, dropped, altered
  <2> QED
    BY <1>3, <2>1, FS_Subset DEF GoodTables, GoodCatalog
<1>7. sorted \in Seq(altered) /\ ToSet(sorted) = altered
  BY <1>6, OrderHasAll
<1>8. ASSUME NEW t \in DOMAIN T \cap DOMAIN read
      PROVE  Normalize(prov, t) \in old \cap new /\ changes[Normalize(prov, t)] = CompareTables(prov, read[t], T[t], t)
  BY <1>2
<1>9. \A n \in old \cap new : \E t \in DOMAIN T \cap DOMAIN read : n = Normalize(prov, t)
  BY <1>2
<1>10. ASSUME NEW t \in DOMAIN T \cap DOMAIN read, NEW c \in changes[Normalize(prov, t)]
       PROVE  Compared(prov, read[t], T[t], t, c)
  <2> HIDE DEF changes
  <2>1. c \in CompareTables(prov, read[t], T[t], t)
    BY <1>8
  <2>2. IsTable(read[t]) /\ IsTable(T[t])
    BY DEF GoodTables, GoodCatalog
  <2> QED
    BY <2>1, <2>2, TablesDiffer
<1>11. altered \subseteq old \cap new /\ \A n \in (old \cap new) \ altered : <<>> \in changes[n]
  <2> HIDE DEF changes
  <2> QED
    OBVIOUS
<1> HIDE DEF created, dropped, altered, changes, sorted
<1>12. \A f \in choices : \A n \in altered : f[n] \in changes[n]
  OBVIOUS
<1> HIDE DEF choices
<1>13. PICK c \in Orders(created), d \in Orders(dropped), f \in choices :
        diff = [create |-> c, drop |-> d,
                alter |-> [i \in DOMAIN sorted |-> [table |-> sorted[i], changes |-> f[sorted[i]]]]]
  BY <1>1
<1>14. ToSet(diff.create) = created /\ ToSet(diff.drop) = dropped
  BY <1>6, <1>13, OrderHasAll
<1>15. /\ DOMAIN diff.alter = DOMAIN sorted
       /\ \A k \in DOMAIN sorted : diff.alter[k].table = sorted[k] /\ diff.alter[k].changes = f[sorted[k]]
  BY <1>13
<1>16. ASSUME NEW k \in DOMAIN diff.alter
       PROVE  \E t \in DOMAIN T \cap DOMAIN read :
                /\ diff.alter[k].table = Normalize(prov, t)
                /\ Compared(prov, read[t], T[t], t, diff.alter[k].changes)
  <2>1. sorted[k] \in altered
    BY <1>7, <1>15
  <2>2. PICK t \in DOMAIN T \cap DOMAIN read : sorted[k] = Normalize(prov, t)
    BY <1>9, <1>11, <2>1
  <2> QED
    BY <1>10, <1>12, <1>15, <2>1, <2>2
<1>17. ASSUME NEW t \in DOMAIN T \cap DOMAIN read
       PROVE  \/ Compared(prov, read[t], T[t], t, <<>>)
              \/ \E k \in DOMAIN diff.alter : diff.alter[k].table = Normalize(prov, t)
  <2>1. CASE Normalize(prov, t) \in altered
    <3>1. PICK k \in DOMAIN sorted : sorted[k] = Normalize(prov, t)
      BY <1>7, <2>1 DEF ToSet
    <3> QED
      BY <1>15, <3>1
  <2>2. CASE Normalize(prov, t) \notin altered
    BY <1>8, <1>10, <1>11, <2>2
  <2> QED
    BY <2>1, <2>2
<1> QED
  BY <1>4, <1>5, <1>14, <1>16, <1>17 DEF Differs

-----------------------------------------------------------------------------
(* The changes of one table.                                               *)

\* A change of table t takes it, as read, toward the target.
FineChange(prov, read, T, t, ch) ==
  /\ ch.type \in ChangeTypes
  /\ ch.type \in {"AddColumn", "AlterColumn", "DropColumn"} => Normalize(prov, t) = t
  /\ ch.type \in {"AddColumn", "AlterColumn"} =>
       ch.column \in DOMAIN T[t].cols /\ ch.meta = T[t].cols[ch.column]
  /\ ch.type = "AlterColumn" =>
       /\ ch.column \in DOMAIN read.cols
       /\ ch.oldType = read.cols[ch.column].type /\ ch.oldNullable = read.cols[ch.column].nullable
  /\ ch.type = "DropColumn" => ch.column \notin DOMAIN T[t].cols
  /\ ch.type = "CreateIndex" => ch.index \in DOMAIN T[t].idxs /\ ch = CreateOf(ch.index)
  /\ ch.type = "DropIndex" => ch.index \in DOMAIN read.idxs /\ ch = DropOf(ch.index)
  /\ ch.type = "RenameIndex" =>
       /\ ch.old \in DOMAIN read.idxs /\ ch.old \notin TargetIndexes(prov)
       /\ ch.new \in DOMAIN T[t].idxs /\ read.idxs[ch.old] = T[t].idxs[ch.new]

\* Every change of a table is one that its target justifies.
LEMMA FineChanges ==
  ASSUME NEW prov \in Providers, NEW first, NEW T, TargetOK(prov, T), NEW t \in DOMAIN T,
         NEW read, SeenOK(prov, first, t, read),
         NEW ch \in ColumnChanges(prov, read.cols, T[t].cols, t) \cup IndexChanges(prov, read.idxs, T[t].idxs)
                    \cup OtherChanges
  PROVE  FineChange(prov, read, T, t, ch)
<1> DEFINE prev == read.cols
           next == T[t].cols
<1>1. CASE ch \in ColumnChanges(prov, prev, next, t)
  <2>1. /\ Normalize(prov, t) = t
        /\ \/ ch \in AddColumns(next, DOMAIN next \ DOMAIN prev)
           \/ ch \in DropColumns(DOMAIN prev \ DOMAIN next)
           \/ ch \in AlterColumns(prev, next)
    BY <1>1 DEF ColumnChanges
  <2>2. CASE ch \in AddColumns(next, DOMAIN next \ DOMAIN prev)
    <3>1. PICK c \in DOMAIN next : ch = [type |-> "AddColumn", column |-> c, meta |-> next[c]]
      BY <2>2 DEF AddColumns
    <3> QED
      BY <2>1, <3>1 DEF FineChange, ChangeTypes
  <2>3. CASE ch \in DropColumns(DOMAIN prev \ DOMAIN next)
    <3>1. PICK c \in DOMAIN prev \ DOMAIN next : ch = [type |-> "DropColumn", column |-> c]
      BY <2>3 DEF DropColumns
    <3> QED
      BY <2>1, <3>1 DEF FineChange, ChangeTypes
  <2>4. CASE ch \in AlterColumns(prev, next)
    <3>1. PICK c \in DOMAIN prev \cap DOMAIN next :
            ch = [type |-> "AlterColumn", column |-> c, meta |-> next[c],
                  oldType |-> prev[c].type, oldNullable |-> prev[c].nullable]
      BY <2>4 DEF AlterColumns, Altered
    <3> QED
      BY <2>1, <3>1 DEF FineChange, ChangeTypes
  <2> QED
    BY <2>1, <2>2, <2>3, <2>4
<1>2. CASE ch \in IndexRenames(prov, read.idxs, T[t].idxs)
  <2>1. PICK x \in Renamed(prov, read.idxs, T[t].idxs) : ch = RenameOf(x[1], x[2])
    BY <1>2 DEF IndexRenames
  <2>2. /\ x[1] \in DOMAIN read.idxs /\ x[2] \in DOMAIN T[t].idxs /\ Flavour[prov].canRenameIndex
        /\ read.idxs[x[1]] = T[t].idxs[x[2]] /\ x[1] # x[2]
    BY DEF Renamed, IndexPairs, IndexShouldBeRenamed, IndexesMatch
  <2>3. prov # "sqlite"
    BY <2>2 DEF Flavour, SQLiteFlavour
  <2>4. /\ x[2] \in TargetIndexes(prov) /\ x[2][1] = t /\ T[t].idxs[x[2]] = UniqueOn(x[2][2])
        /\ KnownIndex(prov, first, t, x[1], read.idxs[x[1]])
    BY <2>2, <2>3 DEF TargetOK, SeenOK
  <2>5. x[1] \notin TargetIndexes(prov)
    <3> SUFFICES ASSUME x[1] \in TargetIndexes(prov) PROVE FALSE
      OBVIOUS
    <3>1. x[1][1] = t /\ UniqueOn(x[1][2]) = UniqueOn(x[2][2])
      BY <2>2, <2>4 DEF KnownIndex
    <3>2. <<x[1][2]>>[1] = <<x[2][2]>>[1]
      BY <3>1 DEF UniqueOn
    <3>3. x[1][2] = x[2][2]
      BY <3>2
    <3>4. x[1] = <<x[1][1], x[1][2], "unique">> /\ x[2] = <<x[2][1], x[2][2], "unique">>
      BY <2>4, GivenNames
    <3> QED
      BY <2>2, <2>4, <3>1, <3>3, <3>4
  <2> QED
    BY <2>1, <2>2, <2>5 DEF FineChange, ChangeTypes, RenameOf
<1>3. CASE ch \in IndexCreations(prov, read.idxs, T[t].idxs)
  <2>1. PICK i \in DOMAIN T[t].idxs : ch = CreateOf(i)
    BY <1>3 DEF IndexCreations
  <2> QED
    BY <2>1 DEF FineChange, ChangeTypes, CreateOf
<1>4. CASE ch \in IndexDrops(prov, read.idxs, T[t].idxs)
  <2>1. PICK i \in DOMAIN read.idxs : ch = DropOf(i)
    BY <1>4 DEF IndexDrops
  <2> QED
    BY <2>1 DEF FineChange, ChangeTypes, DropOf
<1>5. CASE ch \in OtherChanges
  BY <1>5 DEF OtherChanges, FineChange, ChangeTypes
<1> QED
  BY <1>1, <1>2, <1>3, <1>4, <1>5 DEF IndexChanges

\* A change that is made for this.
Answers(ch, w, c) ==
  \/ w = "add" /\ ch.type = "AddColumn" /\ ch.column = c
  \/ w = "remove" /\ ch.type = "DropColumn" /\ ch.column = c
  \/ w = "type" /\ ch.type = "AlterColumn" /\ ch.column = c /\ ch.meta.type # ch.oldType
  \/ w = "null" /\ ch.type = "AlterColumn" /\ ch.column = c /\ ch.meta.nullable # ch.oldNullable
  \/ w = "index" /\ ch.type = "CreateIndex" /\ ch.index = c
  \/ w = "extra" /\ ch.type = "DropIndex" /\ ch.index = c
  \/ ch.type = "RenameIndex" /\ ((w = "index" /\ ch.new = c) \/ (w = "extra" /\ ch.old = c))

\* A declared type is read back as it was declared.
LEMMA DeclaredIsRead ==
  ASSUME NEW prov \in {"postgresql", "mysql"}, NEW d \in DeclaredTypes[prov]
  PROVE  AsDeclared[prov][d] = d
<1>1. KnownTypes[prov] # {}
  <2>1. CASE prov = "postgresql"
    <3>1. "integer" \in KnownTypes[prov]
      BY <2>1 DEF KnownTypes, MapPostgresType
    <3> QED
      BY <3>1
  <2>2. CASE prov = "mysql"
    <3>1. "int" \in KnownTypes[prov]
      BY <2>2 DEF KnownTypes, MapMySQLType
    <3> QED
      BY <3>1
  <2> QED
    BY <2>1, <2>2
<1> QED
  BY <1>1, TypesRead

\* Whatever is found to be left has a change that answers it.
LEMMA Answered ==
  ASSUME NEW prov \in ThreeProviders, NEW T, TargetOK(prov, T), NEW t \in DOMAIN T, Normalize(prov, t) = t,
         NEW read, NEW w, NEW c, Short(prov, AsDeclared[prov], read, T[t], w, c)
  PROVE  \E ch \in ColumnChanges(prov, read.cols, T[t].cols, t) \cup IndexChanges(prov, read.idxs, T[t].idxs) :
           Answers(ch, w, c)
<1> DEFINE prev == read.cols
           next == T[t].cols
           was == read.idxs
           wanted == T[t].idxs
<1>1. CASE w = "add"
  <2>1. c \in DOMAIN next \ DOMAIN prev
    BY <1>1 DEF Short
  <2>2. [type |-> "AddColumn", column |-> c, meta |-> next[c]] \in ColumnChanges(prov, prev, next, t)
    BY <2>1 DEF ColumnChanges, AddColumns
  <2> QED
    BY <1>1, <2>2 DEF Answers
<1>2. CASE w = "remove"
  <2>1. c \in DOMAIN prev \ DOMAIN next
    BY <1>2 DEF Short
  <2>2. [type |-> "DropColumn", column |-> c] \in ColumnChanges(prov, prev, next, t)
    BY <2>1 DEF ColumnChanges, DropColumns
  <2> QED
    BY <1>2, <2>2 DEF Answers
<1>3. CASE w \in {"type", "null"}
  <2> DEFINE ch == [type |-> "AlterColumn", column |-> c, meta |-> next[c],
                    oldType |-> prev[c].type, oldNullable |-> prev[c].nullable]
  <2>1. /\ prov # "sqlite" /\ c \in DOMAIN prev \cap DOMAIN next
        /\ w = "type" => prev[c].type # AsDeclared[prov][next[c].type]
        /\ w = "null" => prev[c].nullable # next[c].nullable
    BY <1>3 DEF Short
  <2>2. AsDeclared[prov][next[c].type] = next[c].type
    <3>1. next[c].type \in DeclaredTypes[prov]
      BY <2>1 DEF TargetOK
    <3>2. prov \in {"postgresql", "mysql"}
      BY <2>1 DEF ThreeProviders
    <3> QED
      BY <3>1, <3>2, DeclaredIsRead
  <2>3. AllColumnChanges(prev[c], next[c]) # {}
    <3>1. CASE w = "type"
      BY <2>1, <2>2, <3>1 DEF AllColumnChanges
    <3>2. CASE w = "null"
      <4>1. "nullable" \in AllColumnChanges(prev[c], next[c])
        BY <2>1, <3>2 DEF AllColumnChanges
      <4> QED
        BY <4>1
    <3> QED
      BY <1>3, <3>1, <3>2
  <2>4. ch \in ColumnChanges(prov, prev, next, t)
    BY <2>1, <2>3 DEF ColumnChanges, AlterColumns, Altered
  <2>5. Answers(ch, w, c)
    BY <1>3, <2>1, <2>2 DEF Answers
  <2> QED
    BY <2>4, <2>5
<1>4. CASE w = "index"
  <2>1. c \in DOMAIN wanted
    BY <1>4 DEF Short
  <2>2. CASE \E r \in Renamed(prov, was, wanted) : r[2] = c
    <3>1. PICK r \in Renamed(prov, was, wanted) : r[2] = c
      BY <2>2
    <3>2. RenameOf(r[1], r[2]) \in IndexChanges(prov, was, wanted)
      BY DEF IndexChanges, IndexRenames
    <3> QED
      BY <1>4, <3>1, <3>2 DEF Answers, RenameOf
  <2>3. CASE \A r \in Renamed(prov, was, wanted) : r[2] # c
    <3>1. CreateOf(c) \in IndexChanges(prov, was, wanted)
      BY <2>1, <2>3 DEF IndexChanges, IndexCreations
    <3> QED
      BY <1>4, <3>1 DEF Answers, CreateOf
  <2> QED
    BY <2>2, <2>3
<1>5. CASE w = "extra"
  <2>1. c \in DOMAIN was
    BY <1>5 DEF Short
  <2>2. CASE \E r \in Renamed(prov, was, wanted) : r[1] = c
    <3>1. PICK r \in Renamed(prov, was, wanted) : r[1] = c
      BY <2>2
    <3>2. RenameOf(r[1], r[2]) \in IndexChanges(prov, was, wanted)
      BY DEF IndexChanges, IndexRenames
    <3> QED
      BY <1>5, <3>1, <3>2 DEF Answers, RenameOf
  <2>3. CASE \A r \in Renamed(prov, was, wanted) : r[1] # c
    <3>1. DropOf(c) \in IndexChanges(prov, was, wanted)
      BY <2>1, <2>3 DEF IndexChanges, IndexDrops
    <3> QED
      BY <1>5, <3>1 DEF Answers, DropOf
  <2> QED
    BY <2>2, <2>3
<1> QED
  BY <1>1, <1>2, <1>3, <1>4, <1>5 DEF Short

-----------------------------------------------------------------------------
(* The statements of one change.                                           *)

\* The members of short sequences.
LEMMA Single ==
  ASSUME NEW x
  PROVE  ToSet(<<x>>) = {x} /\ ToSet(<<>>) = {}
BY DEF ToSet

LEMMA Both ==
  ASSUME NEW S, NEW a \in Seq(S), NEW b \in Seq(S)
  PROVE  ToSet(a \o b) = ToSet(a) \cup ToSet(b)
<1>1. Guarded(a, {}, {}) /\ Guarded(b, {}, {})
  BY DEF Guarded
<1>2. Holds(a \o b, S, ToSet(a) \cup ToSet(b), {}, {})
  BY <1>1, Joined
<1> QED
  BY <1>2 DEF Holds

LEMMA Three ==
  ASSUME NEW S, NEW a \in Seq(S), NEW b \in Seq(S), NEW c \in Seq(S)
  PROVE  ToSet(a \o b \o c) = ToSet(a) \cup ToSet(b) \cup ToSet(c)
<1>1. a \o b \in Seq(S)
  OBVIOUS
<1>2. ToSet(a \o b) = ToSet(a) \cup ToSet(b)
  BY Both
<1> DEFINE ab == a \o b
<1> HIDE DEF ab
<1>3. ToSet(ab \o c) = ToSet(ab) \cup ToSet(c)
  BY <1>1, Both DEF ab
<1> QED
  BY <1>2, <1>3 DEF ab

AlterOf(prov, n, ch, T) == IF prov = "postgresql" THEN PostgresAlter(n, ch, T) ELSE MySQLAlter(n, ch)

\* What PostgreSQL is asked for an altered column.
LEMMA AlteredColumn ==
  ASSUME NEW n, NEW ch
  PROVE  ToSet(PostgresAlterColumn(n, ch)) =
           (IF ch.meta.type # ch.oldType THEN {SetType(n, ch.column, ch.meta.type)} ELSE {})
           \cup (IF ch.meta.nullable # ch.oldNullable THEN {SetNullable(n, ch.column, ch.meta.nullable)} ELSE {})
           \cup {IF ch.meta.default = "none" THEN Comment
                 ELSE [op |-> "setDefault", table |-> n, column |-> ch.column,
                       default |-> QuoteDefaultValue(ch.meta.default, ch.meta.type)]}
<1> DEFINE x == SetType(n, ch.column, ch.meta.type)
           y == SetNullable(n, ch.column, ch.meta.nullable)
           z == IF ch.meta.default = "none" THEN Comment
                ELSE [op |-> "setDefault", table |-> n, column |-> ch.column,
                      default |-> QuoteDefaultValue(ch.meta.default, ch.meta.type)]
           a == IF ch.meta.type # ch.oldType THEN <<x>> ELSE <<>>
           b == IF ch.meta.nullable # ch.oldNullable THEN <<y>> ELSE <<>>
           c == <<z>>
<1>1. PostgresAlterColumn(n, ch) = a \o b \o c
  BY DEF PostgresAlterColumn
<1> HIDE DEF x, y, z
<1>2. a \in Seq({x, y, z}) /\ b \in Seq({x, y, z}) /\ c \in Seq({x, y, z})
  <2> DEFINE S == {x, y, z}
  <2>1. x \in S /\ y \in S /\ z \in S
    OBVIOUS
  <2> HIDE DEF S
  <2>2. <<x>> \in Seq(S) /\ <<y>> \in Seq(S) /\ <<z>> \in Seq(S) /\ <<>> \in Seq(S)
    BY <2>1
  <2>3. a \in Seq(S) /\ b \in Seq(S) /\ c \in Seq(S)
    BY <2>2
  <2> QED
    BY <2>3 DEF S
<1>3. /\ ToSet(a) = IF ch.meta.type # ch.oldType THEN {x} ELSE {}
      /\ ToSet(b) = IF ch.meta.nullable # ch.oldNullable THEN {y} ELSE {}
      /\ ToSet(c) = {z}
  BY Single
<1> HIDE DEF a, b, c
<1>4. ToSet(a \o b \o c) = ToSet(a) \cup ToSet(b) \cup ToSet(c)
  BY <1>2, Three
<1> QED
  BY <1>1, <1>3, <1>4 DEF x, y, z

\* The definitions that the generators write declare the column of the schema.
LEMMA Written ==
  ASSUME NEW prov \in ThreeProviders, NEW col, IsDef(col), col.type \in DeclaredTypes[prov]
  PROVE  /\ prov = "postgresql" => Declares(prov, PostgresColumn(col), col)
         /\ prov = "mysql" => Declares(prov, MySQLColumn(col), col)
         /\ prov = "sqlite" => \A inKey : Declares(prov, SQLiteColumn(col, inKey), col)
<1> DEFINE d == [type |-> col.type, nullable |-> col.nullable, default |-> col.default, auto |-> col.auto]
<1>1. col = d
  BY DEF IsDef
<1>2. prov = "postgresql" => Declares(prov, PostgresColumn(col), col)
  <2>1. PostgresColumn(col) = [d EXCEPT !.default = QuoteDefaultValue(@, col.type), !.auto = FALSE]
    BY <1>1 DEF PostgresColumn
  <2> QED
    BY <2>1 DEF Declares, IsDef
<1>3. prov = "mysql" => Declares(prov, MySQLColumn(col), col)
  <2> SUFFICES ASSUME prov = "mysql" PROVE Declares(prov, MySQLColumn(col), col)
    OBVIOUS
  <2>1. MySQLColumn(col) = [d EXCEPT !.type = MapToMySQLType(@), !.default = IF col.auto THEN "none" ELSE @]
    BY <1>1 DEF MySQLColumn
  <2>2. MapToMySQLType(col.type) = col.type
    BY DEF DeclaredTypes, MapToMySQLType
  <2> QED
    BY <2>1, <2>2 DEF Declares, IsDef
<1>4. prov = "sqlite" => \A inKey : Declares(prov, SQLiteColumn(col, inKey), col)
  <2> SUFFICES ASSUME prov = "sqlite", NEW inKey PROVE Declares(prov, SQLiteColumn(col, inKey), col)
    OBVIOUS
  <2>1. SQLiteColumn(col, inKey) = [d EXCEPT !.type = MapToSQLiteType(@), !.nullable = @ \/ inKey,
              !.default = IF col.auto THEN "none" ELSE @, !.auto = @ /\ inKey]
    BY <1>1 DEF SQLiteColumn
  <2> QED
    BY <2>1 DEF Declares, IsDef
<1> QED
  BY <1>2, <1>3, <1>4

\* What all statements of a push have in common: an index of the schema is dropped only if it was read.
FineStatement(prov, first, read, T, s) ==
  /\ Good(prov, first, T, s)
  /\ Undoes(prov, T, s) =>
       /\ s = DropIndex(s.table, s.index) /\ Normalize(prov, s.table) = s.table
       /\ s.table \in DOMAIN read /\ s.index \in DOMAIN read[s.table].idxs

\* MySQL: a table goes by its own name, or by one that no table has.
LEMMA OwnName ==
  ASSUME NEW prov \in ThreeProviders, Ordinary(prov), NEW t \in TablesOf(prov)
  PROVE  /\ Normalize(prov, t) = t \/ Nowhere(prov, Normalize(prov, t))
         /\ prov # "mysql" => Normalize(prov, t) = t
         /\ Normalize(prov, t) \in TablesOf(prov) => Normalize(prov, t) = t
<1>1. prov # "mysql" => Normalize(prov, t) = t
  BY DEF Normalize, Flavour, PostgresFlavour, SQLiteFlavour, ThreeProviders
<1>2. Normalize(prov, t) \in TablesOf(prov) => Normalize(prov, t) = t
  BY DEF Ordinary
<1> QED
  BY <1>1, <1>2 DEF Nowhere

\* The statements that a change is turned into are on the way to the schema,
LEMMA AlterIsFine ==
  ASSUME NEW prov \in {"postgresql", "mysql"}, Ordinary(prov), NEW first, NEW T, TargetOK(prov, T), NEW read,
         NEW t \in DOMAIN T \cap DOMAIN read, SeenOK(prov, first, t, read[t]),
         NEW ch, FineChange(prov, read[t], T, t, ch), NEW s \in ToSet(AlterOf(prov, Normalize(prov, t), ch, T))
  PROVE  /\ FineStatement(prov, first, read, T, s)
         /\ s.op = "dropIndex" => ch.type = "DropIndex" /\ s = DropIndex(Normalize(prov, t), ch.index)
<1> DEFINE n == Normalize(prov, t)
<1>1. /\ t \in TablesOf(prov) /\ DOMAIN T \subseteq TablesOf(prov)
      /\ n = t \/ (Nowhere(prov, n) /\ n \notin DOMAIN T)
      /\ prov = "postgresql" => n = t
  <2>1. t \in TablesOf(prov) /\ DOMAIN T \subseteq TablesOf(prov)
    BY DEF TargetOK
  <2>2. n = t \/ Nowhere(prov, n)
    BY <2>1, OwnName DEF ThreeProviders
  <2>3. prov = "postgresql" => n = t
    BY <2>1, OwnName DEF ThreeProviders
  <2>4. Nowhere(prov, n) => n \notin DOMAIN T
    BY <2>1 DEF Nowhere
  <2> QED
    BY <2>1, <2>2, <2>3, <2>4
<1>2. \A x : x.op \in Ops \ {"dropIndex"} => ~Undoes(prov, T, x)
  BY DEF Undoes
<1>3. ch.type \in ChangeTypes
  BY DEF FineChange
<1>4. CASE ch.type = "AddColumn"
  <2>1. /\ n = t /\ ch.column \in DOMAIN T[t].cols /\ ch.meta = T[t].cols[ch.column]
        /\ IsDef(ch.meta) /\ ch.meta.type \in DeclaredTypes[prov]
    BY <1>4 DEF FineChange, TargetOK
  <2>2. PICK def : Declares(prov, def, ch.meta) /\ s = AddColumn(n, ch.column, def, FALSE)
    <3>1. CASE prov = "postgresql"
      <4>1. AlterOf(prov, n, ch, T) = <<PostgresAddColumn(n, ch)>>
        BY <1>4, <3>1 DEF AlterOf, PostgresAlter
      <4> QED
        BY <2>1, <3>1, <4>1, Single, Written DEF PostgresAddColumn, ThreeProviders
    <3>2. CASE prov = "mysql"
      <4>1. AlterOf(prov, n, ch, T) = <<AddColumn(n, ch.column, MySQLMetadata(ch), FALSE)>>
        BY <1>4, <3>2 DEF AlterOf, MySQLAlter
      <4> QED
        BY <2>1, <3>2, <4>1, Single, Written DEF MySQLMetadata, ThreeProviders
    <3> QED
      BY <3>1, <3>2
  <2>3. s.op = "addColumn" /\ s.table = t /\ s.column = ch.column /\ s.def = def
    BY <2>1, <2>2 DEF AddColumn
  <2> QED
    BY <1>2, <2>1, <2>2, <2>3 DEF FineStatement, Good, Ops, ColumnOf
<1>5. CASE ch.type = "DropColumn"
  <2>1. n = t /\ ch.column \notin DOMAIN T[t].cols
    BY <1>5 DEF FineChange
  <2>2. AlterOf(prov, n, ch, T) = <<DropColumn(n, ch.column)>>
    BY <1>5 DEF AlterOf, PostgresAlter, MySQLAlter
  <2>3. s.op = "dropColumn" /\ s.table = t /\ s.column = ch.column
    BY <2>1, <2>2, Single DEF DropColumn
  <2> QED
    BY <1>2, <2>1, <2>3 DEF FineStatement, Good, Ops
<1>6. CASE ch.type = "AlterColumn"
  <2>1. /\ n = t /\ ch.column \in DOMAIN T[t].cols /\ ch.meta = T[t].cols[ch.column]
        /\ IsDef(ch.meta) /\ ch.meta.type \in DeclaredTypes[prov]
    BY <1>6 DEF FineChange, TargetOK
  <2>2. CASE prov = "postgresql"
    <3>1. AlterOf(prov, n, ch, T) = PostgresAlterColumn(n, ch)
      BY <1>6, <2>2 DEF AlterOf, PostgresAlter
    <3>2. \/ s = SetType(t, ch.column, ch.meta.type)
          \/ s = SetNullable(t, ch.column, ch.meta.nullable)
          \/ s = Comment
          \/ s = [op |-> "setDefault", table |-> t, column |-> ch.column,
                  default |-> QuoteDefaultValue(ch.meta.default, ch.meta.type)]
      BY <2>1, <3>1, AlteredColumn
    <3>3. /\ s.op \in {"setType", "setNullable", "setDefault", "comment"}
          /\ s.op # "comment" => s.table = t /\ s.column = ch.column
          /\ s.op = "setType" => s.type = ch.meta.type
          /\ s.op = "setNullable" => s.nullable = ch.meta.nullable
      BY <3>2 DEF SetType, SetNullable, Comment
    <3> QED
      BY <1>2, <2>1, <3>3 DEF FineStatement, Good, Ops, ColumnOf
  <2>3. CASE prov = "mysql"
    <3>1. AlterOf(prov, n, ch, T) = <<[op |-> "modifyColumn", table |-> n, column |-> ch.column, def |-> MySQLMetadata(ch)]>>
      BY <1>6, <2>3 DEF AlterOf, MySQLAlter
    <3>2. s.op = "modifyColumn" /\ s.table = t /\ s.column = ch.column /\ s.def = MySQLColumn(ch.meta)
      BY <2>1, <3>1, Single DEF MySQLMetadata
    <3>3. Declares(prov, MySQLColumn(ch.meta), ch.meta)
      BY <2>1, <2>3, Written DEF ThreeProviders
    <3> QED
      BY <1>2, <2>1, <3>2, <3>3 DEF FineStatement, Good, Ops, ColumnOf
  <2> QED
    BY <2>2, <2>3
<1>7. CASE ch.type = "CreateIndex"
  <2>1. ch.index \in DOMAIN T[t].idxs
    BY <1>7 DEF FineChange
  <2>2. CASE prov = "postgresql"
    <3>1. AlterOf(prov, n, ch, T) = <<CreateIndex(t, ch.index, T[t].idxs[ch.index])>>
      BY <1>1, <1>7, <2>2 DEF AlterOf, PostgresAlter
    <3>2. s.op = "createIndex" /\ s.table = t /\ s.index = ch.index /\ s.def = T[t].idxs[ch.index]
      BY <3>1, Single DEF CreateIndex
    <3> QED
      BY <1>2, <2>1, <3>2 DEF FineStatement, Good, Ops, IndexOf
  <2>3. CASE prov = "mysql"
    <3>1. AlterOf(prov, n, ch, T) = <<Invalid>>
      BY <1>7, <2>3 DEF AlterOf, MySQLAlter
    <3>2. s.op = "invalid"
      BY <3>1, Single DEF Invalid
    <3> QED
      BY <1>2, <3>2 DEF FineStatement, Good, Ops
  <2> QED
    BY <2>2, <2>3
<1>8. CASE ch.type = "DropIndex"
  <2>1. ch.index \in DOMAIN read[t].idxs /\ KnownIndex(prov, first, t, ch.index, read[t].idxs[ch.index])
    BY <1>8 DEF FineChange, SeenOK
  <2>2. AlterOf(prov, n, ch, T) = <<DropIndex(n, ch.index)>>
    BY <1>8 DEF AlterOf, PostgresAlter, MySQLAlter
  <2>3. s = DropIndex(n, ch.index)
    BY <2>2, Single
  <2>4. s.op = "dropIndex" /\ s.table = n /\ s.index = ch.index
    BY <2>3 DEF DropIndex
  <2>5. Good(prov, first, T, s)
    BY <1>1, <2>1, <2>4 DEF Good, Ops, KnownIndex
  <2>6. Undoes(prov, T, s) => n = t
    BY <1>1, <2>4 DEF Undoes, IndexOf
  <2> QED
    BY <1>8, <2>1, <2>3, <2>4, <2>5, <2>6 DEF FineStatement
<1>9. CASE ch.type = "RenameIndex"
  <2>1. /\ ch.old \in DOMAIN read[t].idxs /\ ch.old \notin TargetIndexes(prov)
        /\ ch.new \in DOMAIN T[t].idxs /\ read[t].idxs[ch.old] = T[t].idxs[ch.new]
        /\ KnownIndex(prov, first, t, ch.old, read[t].idxs[ch.old])
    BY <1>9 DEF FineChange, SeenOK
  <2>2. AlterOf(prov, n, ch, T) = <<RenameIndex(n, ch.old, ch.new)>>
    BY <1>9 DEF AlterOf, PostgresAlter, MySQLAlter
  <2>3. s.op = "renameIndex" /\ s.table = n /\ s.old = ch.old /\ s.new = ch.new
    BY <2>2, Single DEF RenameIndex
  <2> QED
    BY <1>1, <1>2, <2>1, <2>3 DEF FineStatement, Good, Ops, IndexOf
<1>10. CASE ch.type \in {"DropForeignKey", "ChangePrimaryKey"}
  <2>1. AlterOf(prov, n, ch, T) \in {<<Invalid>>, <<Comment>>}
    BY <1>10 DEF AlterOf, PostgresAlter, MySQLAlter
  <2>2. s.op \in {"invalid", "comment"}
    BY <2>1, Single DEF Invalid, Comment
  <2> QED
    BY <1>2, <2>2 DEF FineStatement, Good, Ops
<1> QED
  BY <1>3, <1>4, <1>5, <1>6, <1>7, <1>8, <1>9, <1>10 DEF ChangeTypes

\* settle what the change answers,
LEMMA AlterSettles ==
  ASSUME NEW prov \in {"postgresql", "mysql"}, NEW T, NEW n, NEW ch, NEW w, NEW c, Answers(ch, w, c)
  PROVE  \E s \in ToSet(AlterOf(prov, n, ch, T)) : Settles(s, w, n, c)
<1>1. CASE ch.type = "AddColumn"
  <2>1. PICK def : AlterOf(prov, n, ch, T) = <<AddColumn(n, ch.column, def, FALSE)>>
    BY <1>1 DEF AlterOf, PostgresAlter, MySQLAlter, PostgresAddColumn
  <2>2. Settles(AddColumn(n, ch.column, def, FALSE), w, n, c)
    BY <1>1 DEF Answers, Settles, AddColumn
  <2> QED
    BY <2>1, <2>2, Single
<1>2. CASE ch.type = "DropColumn"
  <2>1. AlterOf(prov, n, ch, T) = <<DropColumn(n, ch.column)>>
    BY <1>2 DEF AlterOf, PostgresAlter, MySQLAlter
  <2>2. Settles(DropColumn(n, ch.column), w, n, c)
    BY <1>2 DEF Answers, Settles, DropColumn
  <2> QED
    BY <2>1, <2>2, Single
<1>3. CASE ch.type = "AlterColumn"
  <2>1. CASE prov = "postgresql"
    <3>1. AlterOf(prov, n, ch, T) = PostgresAlterColumn(n, ch)
      BY <1>3, <2>1 DEF AlterOf, PostgresAlter
    <3>2. CASE w = "type"
      <4>1. SetType(n, ch.column, ch.meta.type) \in ToSet(AlterOf(prov, n, ch, T))
        BY <1>3, <3>1, <3>2, AlteredColumn DEF Answers
      <4>2. Settles(SetType(n, ch.column, ch.meta.type), w, n, c)
        BY <1>3, <3>2 DEF Answers, Settles, SetType
      <4> QED
        BY <4>1, <4>2
    <3>3. CASE w = "null"
      <4>1. SetNullable(n, ch.column, ch.meta.nullable) \in ToSet(AlterOf(prov, n, ch, T))
        BY <1>3, <3>1, <3>3, AlteredColumn DEF Answers
      <4>2. Settles(SetNullable(n, ch.column, ch.meta.nullable), w, n, c)
        BY <1>3, <3>3 DEF Answers, Settles, SetNullable
      <4> QED
        BY <4>1, <4>2
    <3> QED
      BY <1>3, <3>2, <3>3 DEF Answers
  <2>2. CASE prov = "mysql"
    <3> DEFINE s == [op |-> "modifyColumn", table |-> n, column |-> ch.column, def |-> MySQLMetadata(ch)]
    <3>1. AlterOf(prov, n, ch, T) = <<s>>
      BY <1>3, <2>2 DEF AlterOf, MySQLAlter
    <3>2. Settles(s, w, n, c)
      BY <1>3 DEF Answers, Settles
    <3> HIDE DEF s
    <3> QED
      BY <3>1, <3>2, Single
  <2> QED
    BY <2>1, <2>2
<1>4. CASE ch.type = "CreateIndex"
  <2>1. PICK def : AlterOf(prov, n, ch, T) \in {<<CreateIndex(n, ch.index, def)>>, <<Invalid>>}
    BY <1>4 DEF AlterOf, PostgresAlter, MySQLAlter
  <2>2. Settles(CreateIndex(n, ch.index, def), w, n, c) /\ Settles(Invalid, w, n, c)
    BY <1>4 DEF Answers, Settles, CreateIndex, Invalid
  <2> QED
    BY <2>1, <2>2, Single
<1>5. CASE ch.type = "DropIndex"
  <2>1. AlterOf(prov, n, ch, T) = <<DropIndex(n, ch.index)>>
    BY <1>5 DEF AlterOf, PostgresAlter, MySQLAlter
  <2>2. Settles(DropIndex(n, ch.index), w, n, c)
    BY <1>5 DEF Answers, Settles, DropIndex
  <2> QED
    BY <2>1, <2>2, Single
<1>6. CASE ch.type = "RenameIndex"
  <2>1. AlterOf(prov, n, ch, T) = <<RenameIndex(n, ch.old, ch.new)>>
    BY <1>6 DEF AlterOf, PostgresAlter, MySQLAlter
  <2>2. Settles(RenameIndex(n, ch.old, ch.new), w, n, c)
    BY <1>6 DEF Answers, Settles, RenameIndex
  <2> QED
    BY <2>1, <2>2, Single
<1> QED
  BY <1>1, <1>2, <1>3, <1>4, <1>5, <1>6 DEF Answers

\* Statements that fail while the index is there.
Keepers(read, T, t, i) ==
  {Invalid, CreateIndex(t, i, T[t].idxs[i])} \cup {RenameIndex(t, j, i) : j \in DOMAIN read[t].idxs}

\* and create or rename what they keep.
LEMMA AlterKeeps ==
  ASSUME NEW prov \in {"postgresql", "mysql"}, NEW T, NEW read, NEW t, NEW i, NEW ch \in Keeping(read[t].idxs, i)
  PROVE  ToSet(AlterOf(prov, t, ch, T)) \cap Keepers(read, T, t, i) # {}
<1>1. CASE ch = CreateOf(i)
  <2>1. AlterOf(prov, t, ch, T) \in {<<CreateIndex(t, i, T[t].idxs[i])>>, <<Invalid>>}
    BY <1>1 DEF AlterOf, PostgresAlter, MySQLAlter, CreateOf
  <2> QED
    BY <2>1, Single DEF Keepers
<1>2. CASE \E j \in DOMAIN read[t].idxs : ch = RenameOf(j, i)
  <2>1. PICK j \in DOMAIN read[t].idxs : ch = RenameOf(j, i)
    BY <1>2
  <2>2. AlterOf(prov, t, ch, T) = <<RenameIndex(t, j, i)>>
    BY <2>1 DEF AlterOf, PostgresAlter, MySQLAlter, RenameOf
  <2>3. RenameIndex(t, j, i) \in Keepers(read, T, t, i)
    BY DEF Keepers
  <2> QED
    BY <2>2, <2>3, Single
<1> QED
  BY <1>1, <1>2 DEF Keeping

-----------------------------------------------------------------------------
(* The script of a push.                                                   *)

Piece(prov, first, read, T, file) ==
  /\ file \in Seq(ToSet(file))
  /\ \A s \in ToSet(file) : FineStatement(prov, first, read, T, s)
  /\ prov # "sqlite" =>
       \A t \in DOMAIN T \cap DOMAIN read : Normalize(prov, t) = t =>
         \A i \in DOMAIN T[t].idxs : Guarded(file, {DropIndex(t, i)}, Keepers(read, T, t, i))

\* Pieces of a script put together.
LEMMA PiecesJoined ==
  ASSUME NEW prov, NEW first, NEW read, NEW T,
         NEW a, Piece(prov, first, read, T, a), NEW b, Piece(prov, first, read, T, b)
  PROVE  Piece(prov, first, read, T, a \o b) /\ ToSet(a \o b) = ToSet(a) \cup ToSet(b)
<1> DEFINE X == ToSet(a)
           Y == ToSet(b)
           S == X \cup Y
<1>1. a \in Seq(S) /\ b \in Seq(S)
  <2>1. a \in Seq(X) /\ b \in Seq(Y)
    BY DEF Piece
  <2> HIDE DEF X, Y
  <2> QED
    BY <2>1, SeqMonotonic
<1>2. ASSUME NEW B, NEW G, Guarded(a, B, G), Guarded(b, B, G)
      PROVE  Holds(a \o b, S, X \cup Y, B, G)
  <2> HIDE DEF S
  <2> QED
    BY <1>1, <1>2, Joined DEF X, Y
<1>3. Holds(a \o b, S, S, {}, {})
  <2>1. Guarded(a, {}, {}) /\ Guarded(b, {}, {})
    BY DEF Guarded
  <2> QED
    BY <1>2, <2>1
<1>4. a \o b \in Seq(S) /\ ToSet(a \o b) = S
  BY <1>3 DEF Holds
<1> HIDE DEF S
<1>5. \A s \in S : FineStatement(prov, first, read, T, s)
  BY DEF Piece, S
<1>6. ASSUME prov # "sqlite", NEW t \in DOMAIN T \cap DOMAIN read, Normalize(prov, t) = t, NEW i \in DOMAIN T[t].idxs
      PROVE  Guarded(a \o b, {DropIndex(t, i)}, Keepers(read, T, t, i))
  <2> DEFINE B == {DropIndex(t, i)}
             G == Keepers(read, T, t, i)
  <2>1. Guarded(a, B, G) /\ Guarded(b, B, G)
    BY <1>6 DEF Piece
  <2> HIDE DEF B, G
  <2>2. Guarded(a \o b, B, G)
    BY <1>2, <2>1 DEF Holds
  <2> QED
    BY <2>2 DEF B, G
<1> QED
  BY <1>4, <1>5, <1>6 DEF Piece, S

\* The members of all of some sequences.
Members(f, places) == UNION {ToSet(f[i]) : i \in places}

OneForEach(f, seq) == f = [i \in DOMAIN seq |-> f[i]]
ArePieces(prov, first, read, T, f, seq) == OneForEach(f, seq) /\ \A i \in DOMAIN seq : Piece(prov, first, read, T, f[i])

\* Pieces for each of a sequence.
LEMMA AllPieces ==
  ASSUME NEW prov, NEW first, NEW read, NEW T,
         NEW S, NEW seq \in Seq(S), NEW f, ArePieces(prov, first, read, T, f, seq)
  PROVE  /\ Piece(prov, first, read, T, FlattenSeq(f))
         /\ ToSet(FlattenSeq(f)) = Members(f, DOMAIN seq)
<1> DEFINE n == Len(seq)
           U == UNION {ToSet(f[i]) : i \in 1..n}
<1>1. n \in Nat /\ DOMAIN seq = 1..n
  OBVIOUS
<1>0. f = [i \in DOMAIN seq |-> f[i]] /\ \A i \in DOMAIN seq : Piece(prov, first, read, T, f[i])
  BY DEF ArePieces, OneForEach
<1> HIDE DEF n
<1>2. ASSUME NEW i \in 1..n PROVE f[i] \in Seq(U)
  <2>1. f[i] \in Seq(ToSet(f[i]))
    BY <1>0, <1>1 DEF Piece
  <2>2. ToSet(f[i]) \subseteq U
    OBVIOUS
  <2> HIDE DEF U
  <2> QED
    BY <2>1, <2>2, SeqMonotonic
<1>3. ASSUME NEW s \in U PROVE FineStatement(prov, first, read, T, s)
  <2>1. PICK i \in 1..n : s \in ToSet(f[i])
    OBVIOUS
  <2> QED
    BY <1>0, <1>1, <2>1 DEF Piece
<1> HIDE DEF U
<1>4. f \in [1..n -> Seq(U)]
  BY <1>0, <1>1, <1>2
<1>5. ASSUME NEW B, NEW G, \A i \in 1..n : Guarded(f[i], B, G)
      PROVE  Holds(FlattenSeq(f), U, U, B, G)
  BY <1>1, <1>4, <1>5, AllJoined DEF U
<1>6. Holds(FlattenSeq(f), U, U, {}, {})
  <2>1. \A i \in 1..n : Guarded(f[i], {}, {})
    BY DEF Guarded
  <2> QED
    BY <1>5, <2>1
<1>7. ASSUME prov # "sqlite", NEW t \in DOMAIN T \cap DOMAIN read, Normalize(prov, t) = t, NEW i \in DOMAIN T[t].idxs
      PROVE  Guarded(FlattenSeq(f), {DropIndex(t, i)}, Keepers(read, T, t, i))
  <2> DEFINE B == {DropIndex(t, i)}
             G == Keepers(read, T, t, i)
  <2>1. \A k \in 1..n : Guarded(f[k], B, G)
    BY <1>0, <1>1, <1>7 DEF Piece
  <2> HIDE DEF B, G
  <2>2. Guarded(FlattenSeq(f), B, G)
    BY <1>5, <2>1 DEF Holds
  <2> QED
    BY <2>2 DEF B, G
<1>8. FlattenSeq(f) \in Seq(U) /\ ToSet(FlattenSeq(f)) = U
  BY <1>6 DEF Holds
<1>9. Piece(prov, first, read, T, FlattenSeq(f))
  BY <1>3, <1>7, <1>8 DEF Piece
<1> QED
  BY <1>1, <1>8, <1>9 DEF U, Members

\* A single statement.
LEMMA OnePiece ==
  ASSUME NEW prov, NEW first, NEW read, NEW T
  PROVE  /\ Piece(prov, first, read, T, <<>>)
         /\ \A s : FineStatement(prov, first, read, T, s) /\ s.op # "dropIndex" => Piece(prov, first, read, T, <<s>>)
<1>1. Piece(prov, first, read, T, <<>>)
  <2>1. ToSet(<<>>) = {}
    BY DEF ToSet
  <2>2. <<>> \in Seq({})
    OBVIOUS
  <2>3. \A B, G : Guarded(<<>>, B, G)
    BY DEF Guarded
  <2> QED
    BY <2>1, <2>2, <2>3 DEF Piece
<1>2. ASSUME NEW s, FineStatement(prov, first, read, T, s), s.op # "dropIndex"
      PROVE  Piece(prov, first, read, T, <<s>>)
  <2>1. <<s>> \in Seq({s}) /\ ToSet(<<s>>) = {s}
    BY Single
  <2>2. ASSUME NEW t, NEW i, NEW G PROVE Guarded(<<s>>, {DropIndex(t, i)}, G)
    <3>1. DropIndex(t, i).op = "dropIndex"
      BY DEF DropIndex
    <3>2. s # DropIndex(t, i)
      BY <1>2, <3>1
    <3>3. \A k \in DOMAIN <<s>> : <<s>>[k] = s
      OBVIOUS
    <3> QED
      BY <3>2, <3>3 DEF Guarded
  <2> QED
    BY <1>2, <2>1, <2>2 DEF Piece
<1> QED
  BY <1>1, <1>2

SettledBy(file, w, t, c) == \E s \in ToSet(file) : Settles(s, w, t, c)

\* A table that is created.
LEMMA CreatePiece ==
  ASSUME NEW prov, NEW first, NEW read, NEW T, TargetOK(prov, T), NEW t \in DOMAIN T,
         NEW cols, DOMAIN cols = DOMAIN T[t].cols, \A c \in DOMAIN cols : Declares(prov, cols[c], T[t].cols[c])
  PROVE  /\ Piece(prov, first, read, T, NewTableSQL(t, T[t], cols))
         /\ \A w, c : w \in {"create", "add"} \/ (w = "index" /\ c \in DOMAIN T[t].idxs) =>
              SettledBy(NewTableSQL(t, T[t], cols), w, t, c)
<1> DEFINE table == T[t]
           create == [op |-> "createTable", table |-> t, pk |-> table.pk, cols |-> cols]
           names == SetToSeq(DOMAIN table.idxs)
           f == [k \in DOMAIN names |-> <<CreateIndex(t, names[k], table.idxs[names[k]])>>]
<1>1. NewTableSQL(t, T[t], cols) = <<create>> \o FlattenSeq(f)
  BY DEF NewTableSQL, CreateIndexes, Each
<1>2. create.op = "createTable" /\ create.table = t /\ create.cols = cols
  OBVIOUS
<1> HIDE DEF create
<1>3. Piece(prov, first, read, T, <<create>>)
  <2>1. FineStatement(prov, first, read, T, create)
    BY <1>2 DEF FineStatement, Good, Undoes, Ops
  <2> QED
    BY <1>2, <2>1, OnePiece
<1>4. names \in Seq(DOMAIN table.idxs) /\ ToSet(names) = DOMAIN table.idxs
  <2>1. IsFiniteSet(DOMAIN table.idxs)
    BY DEF TargetOK, GoodCatalog, IsTable
  <2> QED
    BY <2>1, OrderHasAll
<1>5. ASSUME NEW k \in DOMAIN names
      PROVE  /\ Piece(prov, first, read, T, f[k])
             /\ \E s \in ToSet(f[k]) : Settles(s, "index", t, names[k])
  <2> DEFINE s == CreateIndex(t, names[k], table.idxs[names[k]])
  <2>1. f[k] = <<s>>
    OBVIOUS
  <2>2. s.op = "createIndex" /\ s.table = t /\ s.index = names[k] /\ s.def = table.idxs[names[k]]
    BY DEF CreateIndex
  <2>3. names[k] \in DOMAIN table.idxs
    BY <1>4 DEF ToSet
  <2> HIDE DEF s, f, names
  <2>4. FineStatement(prov, first, read, T, s) /\ Settles(s, "index", t, names[k])
    BY <2>2, <2>3 DEF FineStatement, Good, Undoes, Ops, IndexOf, Settles
  <2>5. Piece(prov, first, read, T, f[k])
    BY <2>1, <2>2, <2>4, OnePiece
  <2>6. s \in ToSet(f[k])
    BY <2>1, Single
  <2> QED
    BY <2>4, <2>5, <2>6
<1>6. f = [k \in DOMAIN names |-> f[k]]
  OBVIOUS
<1> HIDE DEF f, names
<1>7. /\ Piece(prov, first, read, T, FlattenSeq(f))
      /\ ToSet(FlattenSeq(f)) = Members(f, DOMAIN names)
  <2>1. ArePieces(prov, first, read, T, f, names)
    BY <1>5, <1>6 DEF ArePieces, OneForEach
  <2> QED
    BY <1>4, <2>1, AllPieces
<1>8. /\ Piece(prov, first, read, T, NewTableSQL(t, T[t], cols))
      /\ ToSet(NewTableSQL(t, T[t], cols)) = {create} \cup ToSet(FlattenSeq(f))
  BY <1>1, <1>3, <1>7, PiecesJoined, Single
<1>9. \A w, c : w \in {"create", "add"} => Settles(create, w, t, c)
  BY <1>2 DEF Settles
<1>10. ASSUME NEW c \in DOMAIN T[t].idxs PROVE \E s \in ToSet(FlattenSeq(f)) : Settles(s, "index", t, c)
  <2>1. PICK k \in DOMAIN names : names[k] = c
    BY <1>4 DEF ToSet
  <2> QED
    BY <1>5, <1>7, <2>1 DEF Members
<1> QED
  BY <1>8, <1>9, <1>10 DEF SettledBy

\* The alterations of a table, on PostgreSQL and MySQL.
Alterations(prov, n, changes, T) == FlattenSeq([j \in DOMAIN changes |-> AlterOf(prov, n, changes[j], T)])

\* The statements for one table.
LEMMA AlterPiece ==
  ASSUME NEW prov \in Providers, prov # "sqlite", Ordinary(prov), NEW first, NEW T, TargetOK(prov, T), NEW read,
         NEW t \in DOMAIN T \cap DOMAIN read, SeenOK(prov, first, t, read[t]),
         NEW changes, Compared(prov, read[t], T[t], t, changes)
  PROVE  LET file == Alterations(prov, Normalize(prov, t), changes, T)
         IN  /\ Piece(prov, first, read, T, file)
             /\ Normalize(prov, t) = t =>
                  \A w, c : Short(prov, AsDeclared[prov], read[t], T[t], w, c) => SettledBy(file, w, t, c)
<1> DEFINE n == Normalize(prov, t)
           all == ColumnChanges(prov, read[t].cols, T[t].cols, t) \cup IndexChanges(prov, read[t].idxs, T[t].idxs)
           f == [j \in DOMAIN changes |-> AlterOf(prov, n, changes[j], T)]
           file == FlattenSeq(f)
<1>0. prov \in {"postgresql", "mysql"}
  BY ProvidersAssumption
<1>1. /\ changes \in Seq(all \cup OtherChanges) /\ all \subseteq ToSet(changes)
      /\ \A i \in DOMAIN T[t].idxs : Guarded(changes, {DropOf(i)}, Keeping(read[t].idxs, i))
  BY DEF Compared
<1>2. ASSUME NEW j \in DOMAIN changes PROVE FineChange(prov, read[t], T, t, changes[j])
  <2>1. changes[j] \in all \cup OtherChanges
    BY <1>1
  <2> QED
    BY <2>1, FineChanges
<1> HIDE DEF all
<1>3. ASSUME NEW j \in DOMAIN changes, NEW s \in ToSet(f[j])
      PROVE  /\ FineStatement(prov, first, read, T, s)
             /\ s.op = "dropIndex" => changes[j].type = "DropIndex" /\ s = DropIndex(n, changes[j].index)
  <2>1. s \in ToSet(AlterOf(prov, n, changes[j], T))
    OBVIOUS
  <2>2. FineChange(prov, read[t], T, t, changes[j])
    BY <1>2
  <2> HIDE DEF f
  <2> QED
    BY <1>0, <2>1, <2>2, AlterIsFine
<1>4. ASSUME NEW j \in DOMAIN changes PROVE f[j] \in Seq(ToSet(f[j]))
  <2>1. f[j] = AlterOf(prov, n, changes[j], T) /\ SparesColumns(changes[j], n, T)
    BY <1>2 DEF FineChange, SparesColumns
  <2>2. FineScript(AlterOf(prov, n, changes[j], T), T, TRUE)
    BY <2>1, PostgresAlters, MySQLAlters DEF AlterOf
  <2> HIDE DEF f
  <2> QED
    BY <2>1, <2>2 DEF FineScript, IsScript
<1>5. /\ f = [j \in DOMAIN changes |-> f[j]]
      /\ \A j \in DOMAIN changes : f[j] = AlterOf(prov, n, changes[j], T)
  OBVIOUS
<1> HIDE DEF f
<1> DEFINE m == Len(changes)
           U == UNION {ToSet(f[j]) : j \in 1..m}
<1>6. m \in Nat /\ DOMAIN changes = 1..m
  BY <1>1
<1> HIDE DEF m
<1>7. f \in [1..m -> Seq(U)]
  <2>1. ASSUME NEW j \in 1..m PROVE f[j] \in Seq(U)
    <3>1. f[j] \in Seq(ToSet(f[j]))
      BY <1>4, <1>6
    <3>2. ToSet(f[j]) \subseteq U
      OBVIOUS
    <3> HIDE DEF U
    <3> QED
      BY <3>1, <3>2, SeqMonotonic
  <2> QED
    BY <1>5, <1>6, <2>1
<1>8. ASSUME NEW s \in U PROVE FineStatement(prov, first, read, T, s)
  <2>1. PICK j \in 1..m : s \in ToSet(f[j])
    OBVIOUS
  <2> QED
    BY <1>3, <1>6, <2>1
<1>9. \A j \in 1..m : \A s \in ToSet(f[j]) : s \in U
  OBVIOUS
<1> HIDE DEF U
<1>10. ASSUME NEW B, NEW G,
              \A k \in 1..m : Guarded(f[k], B, G) \/ \E h \in 1..(k - 1) : ToSet(f[h]) \cap G # {}
       PROVE  Holds(FlattenSeq(f), U, U, B, G)
  BY <1>6, <1>7, <1>10, AllJoined DEF U
<1>11. Holds(FlattenSeq(f), U, U, {}, {})
  <2>1. \A i \in 1..m : Guarded(f[i], {}, {})
    BY DEF Guarded
  <2> QED
    BY <1>10, <2>1
<1>12. ASSUME NEW u \in DOMAIN T \cap DOMAIN read, Normalize(prov, u) = u, NEW i \in DOMAIN T[u].idxs
       PROVE  Guarded(FlattenSeq(f), {DropIndex(u, i)}, Keepers(read, T, u, i))
  <2> DEFINE B == {DropIndex(u, i)}
             G == Keepers(read, T, u, i)
  <2>1. ASSUME NEW k \in 1..m PROVE Guarded(f[k], B, G) \/ \E h \in 1..(k - 1) : ToSet(f[h]) \cap G # {}
    <3>1. CASE DropIndex(u, i) \notin ToSet(f[k])
      BY <3>1 DEF Guarded, ToSet
    <3>2. CASE DropIndex(u, i) \in ToSet(f[k])
      <4>1. /\ changes[k].type = "DropIndex" /\ DropIndex(u, i) = DropIndex(n, changes[k].index)
        BY <1>3, <1>6, <3>2 DEF DropIndex
      <4>2. u = n /\ i = changes[k].index
        BY <4>1 DEF DropIndex
      <4>3. u = t
        BY <4>2 DEF Ordinary, TargetOK
      <4>4. changes[k] = DropOf(i)
        BY <1>2, <1>6, <4>1, <4>2 DEF FineChange
      <4>5. PICK h \in 1..(k - 1) : changes[h] \in Keeping(read[t].idxs, i)
        BY <1>1, <1>6, <4>3, <4>4 DEF Guarded
      <4>6. h \in 1..m /\ f[h] = AlterOf(prov, t, changes[h], T)
        BY <1>5, <1>6, <4>2, <4>3
      <4>7. ToSet(f[h]) \cap G # {}
        BY <1>0, <4>3, <4>5, <4>6, AlterKeeps
      <4> QED
        BY <4>7
    <3> QED
      BY <3>1, <3>2
  <2> HIDE DEF B, G
  <2>2. Guarded(FlattenSeq(f), B, G)
    BY <1>10, <2>1 DEF Holds
  <2> QED
    BY <2>2 DEF B, G
<1>13. Piece(prov, first, read, T, FlattenSeq(f))
  BY <1>8, <1>11, <1>12 DEF Piece, Holds
<1>14. ASSUME n = t, NEW w, NEW c, Short(prov, AsDeclared[prov], read[t], T[t], w, c)
       PROVE  SettledBy(FlattenSeq(f), w, t, c)
  <2>1. PICK ch \in ToSet(changes) : Answers(ch, w, c)
    BY <1>0, <1>1, <1>14, Answered DEF all, ThreeProviders
  <2>2. PICK j \in DOMAIN changes : changes[j] = ch
    BY DEF ToSet
  <2>3. PICK s \in ToSet(f[j]) : Settles(s, w, t, c)
    BY <1>0, <1>5, <1>14, <2>1, <2>2, AlterSettles
  <2>4. s \in ToSet(FlattenSeq(f))
    BY <1>6, <1>9, <1>11 DEF Holds
  <2> QED
    BY <2>3, <2>4 DEF SettledBy
<1>15. FlattenSeq(f) = Alterations(prov, Normalize(prov, t), changes, T)
  BY DEF Alterations, f
<1> QED
  BY <1>13, <1>14, <1>15

\* On SQLite.
LEMMA SQLiteAlterPiece ==
  ASSUME NEW prov \in Providers, prov = "sqlite", NEW first, NEW T, TargetOK(prov, T), NEW read,
         NEW t \in DOMAIN T \cap DOMAIN read, SeenOK(prov, first, t, read[t]),
         NEW changes, Compared(prov, read[t], T[t], t, changes)
  PROVE  LET file == SQLiteAlterTable(t, changes, T)
         IN  /\ Piece(prov, first, read, T, file)
             /\ \A w, c : Short(prov, AsDeclared[prov], read[t], T[t], w, c) => SettledBy(file, w, t, c)
<1> DEFINE all == ColumnChanges(prov, read[t].cols, T[t].cols, t) \cup IndexChanges(prov, read[t].idxs, T[t].idxs)
           adds == Only(changes, LAMBDA ch : ch.type = "AddColumn")
           pk == IF t \in DOMAIN T THEN T[t].pk ELSE <<>>
           f == [i \in DOMAIN adds |-> SQLiteAddColumn(t, adds[i], pk)]
           rest == IF Only(changes, LAMBDA ch : ch.type # "AddColumn") = <<>> THEN <<>> ELSE <<Comment>>
           some == {i \in DOMAIN changes : changes[i].type = "AddColumn"}
           picked == {changes[i] : i \in DOMAIN changes \cap some}
<1>1. SQLiteAlterTable(t, changes, T) = f \o rest
  BY DEF SQLiteAlterTable
<1>2. changes \in Seq(all \cup OtherChanges) /\ all \subseteq ToSet(changes)
  BY DEF Compared
<1>3. ASSUME NEW j \in DOMAIN changes PROVE FineChange(prov, read[t], T, t, changes[j])
  <2>1. changes[j] \in all \cup OtherChanges
    BY <1>2
  <2> QED
    BY <2>1, FineChanges
<1> HIDE DEF all
<1>4. adds \in Seq(all \cup OtherChanges) /\ ToSet(adds) = picked
  <2> DEFINE S == all \cup OtherChanges
  <2>1. adds = FlattenSeq([i \in DOMAIN changes |-> IF i \in some THEN <<changes[i]>> ELSE <<>>])
    BY DEF Only, Each
  <2>2. changes \in Seq(S) /\ \A i \in DOMAIN changes :
          i \in some /\ changes[i] \in {} => \E j \in 1..(i - 1) : j \in some /\ changes[j] \in {}
    BY <1>2
  <2> HIDE DEF some, adds, S
  <2>3. Holds(adds, S, picked, {}, {})
    BY <2>1, <2>2, Picked
  <2> QED
    BY <2>3 DEF Holds, S
<1>5. \A j \in DOMAIN changes : changes[j].type = "AddColumn" => changes[j] \in picked
  OBVIOUS
<1>6. \A ch \in picked : ch.type = "AddColumn" /\ FineChange(prov, read[t], T, t, ch)
  BY <1>3
<1> HIDE DEF adds, picked, some
<1>7. ASSUME NEW i \in DOMAIN adds
      PROVE  FineStatement(prov, first, read, T, f[i]) /\ f[i].op = "addColumn" /\ Settles(f[i], "add", t, adds[i].column)
  <2> DEFINE ch == adds[i]
             s == SQLiteAddColumn(t, ch, pk)
  <2>1. ch.type = "AddColumn" /\ FineChange(prov, read[t], T, t, ch)
    BY <1>4, <1>6 DEF ToSet
  <2>2. ch.column \in DOMAIN T[t].cols /\ ch.meta = T[t].cols[ch.column]
    BY <2>1 DEF FineChange
  <2>3. IsDef(ch.meta) /\ ch.meta.type \in DeclaredTypes[prov]
    BY <2>2 DEF TargetOK
  <2>4. /\ s.op = "addColumn" /\ s.table = t /\ s.column = ch.column
        /\ s.def = SQLiteColumn(ch.meta, SinglePK(pk, ch.column))
    BY DEF SQLiteAddColumn, AddColumn
  <2>5. Declares(prov, s.def, ch.meta)
    BY <2>3, <2>4, Written DEF ThreeProviders
  <2>6. f[i] = s
    OBVIOUS
  <2> HIDE DEF s, f
  <2>7. FineStatement(prov, first, read, T, s)
    BY <2>2, <2>4, <2>5 DEF FineStatement, Good, Undoes, Ops, ColumnOf
  <2>8. Settles(s, "add", t, ch.column)
    BY <2>4 DEF Settles
  <2> QED
    BY <2>4, <2>6, <2>7, <2>8
<1>8. f = [i \in DOMAIN adds |-> f[i]]
  OBVIOUS
<1>9. rest = <<>> \/ rest = <<Comment>>
  OBVIOUS
<1> HIDE DEF f, rest
<1>10. Piece(prov, first, read, T, f)
  <2>1. DOMAIN adds = 1..Len(adds) /\ Len(adds) \in Nat
    BY <1>4
  <2>2. f \in [1..Len(adds) -> ToSet(f)]
    BY <1>8, <2>1 DEF ToSet
  <2>3. f \in Seq(ToSet(f))
    BY <2>1, <2>2, IsASeq
  <2>4. \A s \in ToSet(f) : FineStatement(prov, first, read, T, s)
    BY <1>7, <1>8 DEF ToSet
  <2> QED
    BY <2>3, <2>4 DEF Piece
<1>11. Piece(prov, first, read, T, rest)
  <2>1. Comment.op = "comment"
    BY DEF Comment
  <2>2. FineStatement(prov, first, read, T, Comment)
    BY <2>1 DEF FineStatement, Good, Undoes, Ops
  <2> QED
    BY <1>9, <2>1, <2>2, OnePiece
<1>12. Piece(prov, first, read, T, f \o rest) /\ ToSet(f \o rest) = ToSet(f) \cup ToSet(rest)
  BY <1>10, <1>11, PiecesJoined
<1>13. ASSUME NEW w, NEW c, Short(prov, AsDeclared[prov], read[t], T[t], w, c)
       PROVE  SettledBy(f \o rest, w, t, c)
  <2>1. w = "add"
    BY <1>13 DEF Short
  <2>2. Normalize(prov, t) = t
    BY DEF Normalize, Flavour, SQLiteFlavour
  <2>3. PICK ch \in ToSet(changes) : Answers(ch, w, c)
    BY <1>2, <1>13, <2>2, Answered DEF all, ThreeProviders
  <2>4. ch.type = "AddColumn" /\ ch.column = c
    BY <2>1, <2>3 DEF Answers
  <2>5. ch \in ToSet(adds)
    BY <1>4, <1>5, <2>4 DEF ToSet
  <2>6. PICK i \in DOMAIN adds : adds[i] = ch
    BY <2>5 DEF ToSet
  <2>7. Settles(f[i], w, t, c) /\ f[i] \in ToSet(f)
    BY <1>7, <1>8, <2>1, <2>4, <2>6 DEF ToSet
  <2> QED
    BY <1>12, <2>7 DEF SettledBy
<1> QED
  BY <1>1, <1>12, <1>13

\* Whatever was found to be left to do, a statement settles.
PushScript(prov, first, read, T, file) ==
  /\ Piece(prov, first, read, T, file)
  /\ \A w, t, c : Found(prov, read, T, w, t, c) => SettledBy(file, w, t, c)

SettlesAltered(prov, read, T, file, n) ==
  \A t \in DOMAIN T \cap DOMAIN read : Normalize(prov, t) = t /\ n = t =>
    \A w, c : Short(prov, AsDeclared[prov], read[t], T[t], w, c) => SettledBy(file, w, t, c)
SettlesCreated(T, file, t) ==
  \A w, c : w \in {"create", "add"} \/ (w = "index" /\ c \in DOMAIN T[t].idxs) => SettledBy(file, w, t, c)

\* A script that creates, drops and alters tables.
LEMMA PushOfParts ==
  ASSUME NEW prov \in ThreeProviders, NEW first, NEW read, NEW T, TargetOK(prov, T),
         NEW diff, GoodDiff(diff, T), Differs(prov, read, T, diff), NEW cascade,
         NEW creates, OneForEach(creates, diff.create),
         \A i \in DOMAIN diff.create : Piece(prov, first, read, T, creates[i]) /\ SettlesCreated(T, creates[i], diff.create[i]),
         NEW alters, OneForEach(alters, diff.alter),
         \A i \in DOMAIN diff.alter :
           Piece(prov, first, read, T, alters[i]) /\ SettlesAltered(prov, read, T, alters[i], diff.alter[i].table)
  PROVE  PushScript(prov, first, read, T,
                    FlattenSeq(creates) \o FlattenSeq(alters) \o
                    FlattenSeq([i \in DOMAIN diff.drop |-> <<DropTable(diff.drop[i], cascade)>>]))
<1> DEFINE drops == [i \in DOMAIN diff.drop |-> <<DropTable(diff.drop[i], cascade)>>]
<1>1. Piece(prov, first, read, T, FlattenSeq(creates)) /\ ToSet(FlattenSeq(creates)) = Members(creates, DOMAIN diff.create)
  <2>1. ArePieces(prov, first, read, T, creates, diff.create)
    BY DEF ArePieces
  <2>2. diff.create \in Seq(DOMAIN T)
    BY DEF GoodDiff
  <2> QED
    BY <2>1, <2>2, AllPieces
<1>2. Piece(prov, first, read, T, FlattenSeq(alters)) /\ ToSet(FlattenSeq(alters)) = Members(alters, DOMAIN diff.alter)
  <2>1. ArePieces(prov, first, read, T, alters, diff.alter)
    BY DEF ArePieces
  <2>2. diff.alter \in Seq(ToSet(diff.alter))
    BY DEF GoodDiff
  <2> QED
    BY <2>1, <2>2, AllPieces
<1>3. OneForEach(drops, diff.drop)
  BY DEF OneForEach
<1>4. ASSUME NEW i \in DOMAIN diff.drop
      PROVE  Piece(prov, first, read, T, drops[i]) /\ SettledBy(drops[i], "drop", diff.drop[i], diff.drop[i])
  <2> DEFINE s == DropTable(diff.drop[i], cascade)
  <2>1. s.op = "dropTable" /\ s.table = diff.drop[i] /\ drops[i] = <<s>>
    BY DEF DropTable
  <2> HIDE DEF s, drops
  <2>2. FineStatement(prov, first, read, T, s)
    BY <2>1 DEF FineStatement, Good, Undoes, Ops, GoodDiff
  <2>3. Settles(s, "drop", diff.drop[i], diff.drop[i]) /\ s \in ToSet(drops[i])
    BY <2>1, Single DEF Settles
  <2>4. Piece(prov, first, read, T, drops[i])
    BY <2>1, <2>2, OnePiece
  <2> QED
    BY <2>3, <2>4 DEF SettledBy
<1> HIDE DEF drops
<1>5. Piece(prov, first, read, T, FlattenSeq(drops)) /\ ToSet(FlattenSeq(drops)) = Members(drops, DOMAIN diff.drop)
  <2>1. ArePieces(prov, first, read, T, drops, diff.drop)
    BY <1>3, <1>4 DEF ArePieces
  <2>2. diff.drop \in Seq(ToSet(diff.drop))
    BY DEF GoodDiff
  <2> QED
    BY <2>1, <2>2, AllPieces
<1> DEFINE ca == FlattenSeq(creates) \o FlattenSeq(alters)
           file == ca \o FlattenSeq(drops)
<1>6. Piece(prov, first, read, T, ca) /\ ToSet(ca) = ToSet(FlattenSeq(creates)) \cup ToSet(FlattenSeq(alters))
  BY <1>1, <1>2, PiecesJoined
<1> HIDE DEF ca
<1>7. Piece(prov, first, read, T, file) /\ ToSet(file) = ToSet(ca) \cup ToSet(FlattenSeq(drops))
  BY <1>5, <1>6, PiecesJoined
<1>8. ASSUME NEW w, NEW t, NEW c PROVE
        /\ \A i \in DOMAIN diff.create : SettledBy(creates[i], w, t, c) => SettledBy(file, w, t, c)
        /\ \A i \in DOMAIN diff.alter : SettledBy(alters[i], w, t, c) => SettledBy(file, w, t, c)
        /\ \A i \in DOMAIN diff.drop : SettledBy(drops[i], w, t, c) => SettledBy(file, w, t, c)
  <2> HIDE DEF file
  <2> QED
    BY <1>1, <1>2, <1>5, <1>6, <1>7 DEF SettledBy, Members
<1> HIDE DEF file
<1>9. ASSUME NEW w, NEW t, NEW c, Found(prov, read, T, w, t, c)
      PROVE  SettledBy(file, w, t, c)
  <2>1. CASE w = "drop" /\ c = t /\ t \in DOMAIN read /\ t \notin DOMAIN T /\ t # "_prisma_migrations"
    <3>1. PICK i \in DOMAIN diff.drop : diff.drop[i] = t
      BY <2>1 DEF Differs, ToSet
    <3> QED
      BY <1>4, <1>8, <2>1, <3>1
  <2>2. CASE t \in DOMAIN T \ DOMAIN read
    <3>1. PICK i \in DOMAIN diff.create : diff.create[i] = t
      BY <2>2 DEF Differs, ToSet
    <3>2. w \in {"create", "add"} \/ (w = "index" /\ c \in DOMAIN T[t].idxs)
      <4>1. TableIn(read, t) = EmptyTable
        BY <2>2 DEF TableIn
      <4>2. DOMAIN EmptyTable.cols = {} /\ DOMAIN EmptyTable.idxs = {}
        BY DEF EmptyTable
      <4> QED
        BY <1>9, <2>2, <4>1, <4>2 DEF Found, Left, Short
    <3>3. SettledBy(creates[i], w, t, c)
      BY <3>1, <3>2 DEF SettlesCreated
    <3> QED
      BY <1>8, <3>3
  <2>3. CASE t \in DOMAIN T \cap DOMAIN read
    <3>1. Normalize(prov, t) = t /\ Short(prov, AsDeclared[prov], read[t], T[t], w, c)
      BY <1>9, <2>3 DEF Found, Left, TableIn
    <3>2. CASE Compared(prov, read[t], T[t], t, <<>>)
      <4>1. ToSet(<<>>) = {}
        BY DEF ToSet
      <4>2. \E ch \in ToSet(<<>>) : Answers(ch, w, c)
        BY <2>3, <3>1, <3>2, Answered DEF Compared
      <4> QED
        BY <4>1, <4>2
    <3>3. CASE \E k \in DOMAIN diff.alter : diff.alter[k].table = Normalize(prov, t)
      <4>1. PICK k \in DOMAIN diff.alter : diff.alter[k].table = Normalize(prov, t)
        BY <3>3
      <4>2. SettledBy(alters[k], w, t, c)
        BY <2>3, <3>1, <4>1 DEF SettlesAltered
      <4> QED
        BY <1>8, <4>2
    <3> QED
      BY <2>3, <3>2, <3>3 DEF Differs
  <2> QED
    BY <1>9, <2>1, <2>2, <2>3 DEF Found, Left
<1>10. PushScript(prov, first, read, T, file)
  BY <1>7, <1>9 DEF PushScript
<1> QED
  BY <1>10 DEF file, ca, drops

\* What the lemmas about the script of a push start from.
Asked(prov, first, read, T, diff) ==
  /\ prov \in Providers /\ Ordinary(prov)
  /\ TargetOK(prov, T) /\ GoodTables(read) /\ DOMAIN read \subseteq TablesOf(prov)
  /\ \A t \in DOMAIN read : SeenOK(prov, first, t, read[t])
  /\ diff \in CompareSchemas(prov, read, T)

\* What a command asks for comes from its comparison.
LEMMA AskedDiffers ==
  ASSUME NEW prov, NEW first, NEW read, NEW T, NEW diff, Asked(prov, first, read, T, diff)
  PROVE  /\ prov \in ThreeProviders /\ GoodDiff(diff, T) /\ Differs(prov, read, T, diff)
         /\ \A i \in DOMAIN diff.create : diff.create[i] \in DOMAIN T
         /\ \A i \in DOMAIN diff.alter : \E t \in DOMAIN T \cap DOMAIN read :
              /\ diff.alter[i].table = Normalize(prov, t)
              /\ Compared(prov, read[t], T[t], t, diff.alter[i].changes)
              /\ SeenOK(prov, first, t, read[t])
              /\ \A u \in DOMAIN T \cap DOMAIN read : Normalize(prov, u) = u /\ Normalize(prov, t) = u => t = u
<1>1. prov \in ThreeProviders
  BY ProvidersAssumption DEF Asked, ThreeProviders
<1>2. GoodCatalog(T) /\ DOMAIN T \subseteq TablesOf(prov) /\ "_prisma_migrations" \notin DOMAIN T
  BY DEF Asked, TargetOK
<1>3. GoodDiff(diff, T)
  BY <1>2, SchemasCompared DEF Asked
<1>4. Differs(prov, read, T, diff)
  BY <1>2, SchemasDiffer DEF Asked
<1>5. \A i \in DOMAIN diff.create : diff.create[i] \in DOMAIN T
  BY <1>3 DEF GoodDiff
<1>6. \A t, u \in TablesOf(prov) : Normalize(prov, t) = u => t = u
  BY DEF Asked, Ordinary
<1>7. ASSUME NEW i \in DOMAIN diff.alter
      PROVE  \E t \in DOMAIN T \cap DOMAIN read :
              /\ diff.alter[i].table = Normalize(prov, t)
              /\ Compared(prov, read[t], T[t], t, diff.alter[i].changes)
              /\ SeenOK(prov, first, t, read[t])
              /\ \A u \in DOMAIN T \cap DOMAIN read : Normalize(prov, u) = u /\ Normalize(prov, t) = u => t = u
  <2>1. PICK t \in DOMAIN T \cap DOMAIN read :
              /\ diff.alter[i].table = Normalize(prov, t)
              /\ Compared(prov, read[t], T[t], t, diff.alter[i].changes)
    BY <1>4 DEF Differs
  <2> QED
    BY <1>2, <1>6, <2>1 DEF Asked
<1> QED
  BY <1>1, <1>3, <1>4, <1>5, <1>7

\* What the generators write for a new table,
LEMMA CreatesTable ==
  ASSUME NEW prov \in ThreeProviders, NEW first, NEW read, NEW T, TargetOK(prov, T), NEW t \in DOMAIN T,
         NEW file \in {PostgresCreateTable(t, T[t]), MySQLCreateTable(t, T[t]), SQLiteCreateTable(t, T[t])},
         prov = "postgresql" => file = PostgresCreateTable(t, T[t]),
         prov = "mysql" => file = MySQLCreateTable(t, T[t]),
         prov = "sqlite" => file = SQLiteCreateTable(t, T[t])
  PROVE  Piece(prov, first, read, T, file) /\ SettlesCreated(T, file, t)
<1>1. \A c \in DOMAIN T[t].cols : IsDef(T[t].cols[c]) /\ T[t].cols[c].type \in DeclaredTypes[prov]
  BY DEF TargetOK
<1>2. PICK cols : /\ DOMAIN cols = DOMAIN T[t].cols
                  /\ \A c \in DOMAIN cols : Declares(prov, cols[c], T[t].cols[c])
                  /\ file = NewTableSQL(t, T[t], cols)
  <2>1. CASE prov = "postgresql"
    <3> DEFINE cols == [c \in DOMAIN T[t].cols |-> PostgresColumn(T[t].cols[c])]
    <3>1. file = NewTableSQL(t, T[t], cols)
      BY <2>1 DEF PostgresCreateTable
    <3>2. DOMAIN cols = DOMAIN T[t].cols /\ \A c \in DOMAIN cols : Declares(prov, cols[c], T[t].cols[c])
      BY <1>1, <2>1, Written
    <3> QED
      BY <3>1, <3>2
  <2>2. CASE prov = "mysql"
    <3> DEFINE cols == [c \in DOMAIN T[t].cols |-> MySQLColumn(T[t].cols[c])]
    <3>1. file = NewTableSQL(t, T[t], cols)
      BY <2>2 DEF MySQLCreateTable
    <3>2. DOMAIN cols = DOMAIN T[t].cols /\ \A c \in DOMAIN cols : Declares(prov, cols[c], T[t].cols[c])
      BY <1>1, <2>2, Written
    <3> QED
      BY <3>1, <3>2
  <2>3. CASE prov = "sqlite"
    <3> DEFINE cols == [c \in DOMAIN T[t].cols |-> SQLiteColumn(T[t].cols[c], SinglePK(T[t].pk, c))]
    <3>1. file = NewTableSQL(t, T[t], cols)
      BY <2>3 DEF SQLiteCreateTable
    <3>2. DOMAIN cols = DOMAIN T[t].cols /\ \A c \in DOMAIN cols : Declares(prov, cols[c], T[t].cols[c])
      BY <1>1, <2>3, Written
    <3> QED
      BY <3>1, <3>2
  <2> QED
    BY <2>1, <2>2, <2>3 DEF ThreeProviders
<1>3. Piece(prov, first, read, T, NewTableSQL(t, T[t], cols))
  BY <1>2, CreatePiece
<1>4. SettlesCreated(T, NewTableSQL(t, T[t], cols), t)
  BY <1>2, CreatePiece DEF SettlesCreated
<1> QED
  BY <1>2, <1>3, <1>4

\* and for one that is altered.
LEMMA AltersTable ==
  ASSUME NEW prov, NEW first, NEW read, NEW T, NEW diff, Asked(prov, first, read, T, diff), NEW i \in DOMAIN diff.alter,
         NEW file, prov # "sqlite" => file = Alterations(prov, diff.alter[i].table, diff.alter[i].changes, T),
         prov = "sqlite" => file = SQLiteAlterTable(diff.alter[i].table, diff.alter[i].changes, T)
  PROVE  Piece(prov, first, read, T, file) /\ SettlesAltered(prov, read, T, file, diff.alter[i].table)
<1>1. PICK t \in DOMAIN T \cap DOMAIN read :
              /\ diff.alter[i].table = Normalize(prov, t)
              /\ Compared(prov, read[t], T[t], t, diff.alter[i].changes)
              /\ SeenOK(prov, first, t, read[t])
              /\ \A u \in DOMAIN T \cap DOMAIN read : Normalize(prov, u) = u /\ Normalize(prov, t) = u => t = u
  BY AskedDiffers
<1>2. prov \in Providers /\ Ordinary(prov) /\ TargetOK(prov, T)
  BY DEF Asked
<1>3. CASE prov # "sqlite"
  <2>1. Piece(prov, first, read, T, file)
    BY <1>1, <1>2, <1>3, AlterPiece
  <2>2. Normalize(prov, t) = t =>
          \A w, c : Short(prov, AsDeclared[prov], read[t], T[t], w, c) => SettledBy(file, w, t, c)
    BY <1>1, <1>2, <1>3, AlterPiece
  <2> QED
    BY <1>1, <2>1, <2>2 DEF SettlesAltered
<1>4. CASE prov = "sqlite"
  <2>1. diff.alter[i].table = t
    BY <1>1, <1>4 DEF Normalize, Flavour, SQLiteFlavour
  <2>2. Piece(prov, first, read, T, file)
    BY <1>1, <1>2, <1>4, <2>1, SQLiteAlterPiece
  <2>3. \A w, c : Short(prov, AsDeclared[prov], read[t], T[t], w, c) => SettledBy(file, w, t, c)
    BY <1>1, <1>2, <1>4, <2>1, SQLiteAlterPiece
  <2> QED
    BY <2>1, <2>2, <2>3 DEF SettlesAltered
<1> QED
  BY <1>3, <1>4

\* The script of a push leads from what was read to the schema.
LEMMA Generated ==
  ASSUME NEW prov, NEW first, NEW read, NEW T, NEW diff, Asked(prov, first, read, T, diff)
  PROVE  PushScript(prov, first, read, T, GenerateMigrationSQL(prov, diff, T))
<1>1. /\ prov \in ThreeProviders /\ GoodDiff(diff, T) /\ Differs(prov, read, T, diff)
      /\ \A i \in DOMAIN diff.create : diff.create[i] \in DOMAIN T
  BY AskedDiffers
<1>2. TargetOK(prov, T)
  BY DEF Asked
<1>3. CASE prov = "postgresql"
  <2> DEFINE creates == [i \in DOMAIN diff.create |-> PostgresCreateTable(diff.create[i], T[diff.create[i]])]
             alter(a) == FlattenSeq([j \in DOMAIN a.changes |-> PostgresAlter(a.table, a.changes[j], T)])
             alters == [i \in DOMAIN diff.alter |-> alter(diff.alter[i])]
             file == FlattenSeq(creates) \o FlattenSeq(alters) \o
                     FlattenSeq([i \in DOMAIN diff.drop |-> <<DropTable(diff.drop[i], TRUE)>>])
  <2>1. GenerateMigrationSQL(prov, diff, T) = file
    BY <1>3 DEF GenerateMigrationSQL, PostgresMigrationSQL, Each
  <2>2. OneForEach(creates, diff.create) /\ OneForEach(alters, diff.alter)
    BY DEF OneForEach
  <2>3. \A i \in DOMAIN diff.create : creates[i] = PostgresCreateTable(diff.create[i], T[diff.create[i]])
    OBVIOUS
  <2>4. \A i \in DOMAIN diff.alter : alters[i] = Alterations(prov, diff.alter[i].table, diff.alter[i].changes, T)
    BY <1>3 DEF Alterations, AlterOf
  <2> HIDE DEF creates, alters
  <2>5. \A i \in DOMAIN diff.create :
          Piece(prov, first, read, T, creates[i]) /\ SettlesCreated(T, creates[i], diff.create[i])
    BY <1>1, <1>2, <1>3, <2>3, CreatesTable
  <2>6. \A i \in DOMAIN diff.alter :
          Piece(prov, first, read, T, alters[i]) /\ SettlesAltered(prov, read, T, alters[i], diff.alter[i].table)
    BY <1>3, <2>4, AltersTable
  <2> QED
    BY <1>1, <1>2, <2>1, <2>2, <2>5, <2>6, PushOfParts
<1>4. CASE prov = "mysql"
  <2> DEFINE creates == [i \in DOMAIN diff.create |-> MySQLCreateTable(diff.create[i], T[diff.create[i]])]
             alter(a) == FlattenSeq([j \in DOMAIN a.changes |-> MySQLAlter(a.table, a.changes[j])])
             alters == [i \in DOMAIN diff.alter |-> alter(diff.alter[i])]
             file == FlattenSeq(creates) \o FlattenSeq(alters) \o
                     FlattenSeq([i \in DOMAIN diff.drop |-> <<DropTable(diff.drop[i], FALSE)>>])
  <2>1. GenerateMigrationSQL(prov, diff, T) = file
    BY <1>4 DEF GenerateMigrationSQL, MySQLMigrationSQL, Each
  <2>2. OneForEach(creates, diff.create) /\ OneForEach(alters, diff.alter)
    BY DEF OneForEach
  <2>3. \A i \in DOMAIN diff.create : creates[i] = MySQLCreateTable(diff.create[i], T[diff.create[i]])
    OBVIOUS
  <2>4. \A i \in DOMAIN diff.alter : alters[i] = Alterations(prov, diff.alter[i].table, diff.alter[i].changes, T)
    BY <1>4 DEF Alterations, AlterOf
  <2> HIDE DEF creates, alters
  <2>5. \A i \in DOMAIN diff.create :
          Piece(prov, first, read, T, creates[i]) /\ SettlesCreated(T, creates[i], diff.create[i])
    BY <1>1, <1>2, <1>4, <2>3, CreatesTable
  <2>6. \A i \in DOMAIN diff.alter :
          Piece(prov, first, read, T, alters[i]) /\ SettlesAltered(prov, read, T, alters[i], diff.alter[i].table)
    BY <1>4, <2>4, AltersTable
  <2> QED
    BY <1>1, <1>2, <2>1, <2>2, <2>5, <2>6, PushOfParts
<1>5. CASE prov = "sqlite"
  <2> DEFINE creates == [i \in DOMAIN diff.create |-> SQLiteCreateTable(diff.create[i], T[diff.create[i]])]
             alters == [i \in DOMAIN diff.alter |-> SQLiteAlterTable(diff.alter[i].table, diff.alter[i].changes, T)]
             file == FlattenSeq(creates) \o FlattenSeq(alters) \o
                     FlattenSeq([i \in DOMAIN diff.drop |-> <<DropTable(diff.drop[i], FALSE)>>])
  <2>1. GenerateMigrationSQL(prov, diff, T) = file
    BY <1>5 DEF GenerateMigrationSQL, SQLiteMigrationSQL, Each
  <2>2. OneForEach(creates, diff.create) /\ OneForEach(alters, diff.alter)
    BY DEF OneForEach
  <2>3. \A i \in DOMAIN diff.create : creates[i] = SQLiteCreateTable(diff.create[i], T[diff.create[i]])
    OBVIOUS
  <2>4. \A i \in DOMAIN diff.alter : alters[i] = SQLiteAlterTable(diff.alter[i].table, diff.alter[i].changes, T)
    OBVIOUS
  <2> HIDE DEF creates, alters
  <2>5. \A i \in DOMAIN diff.create :
          Piece(prov, first, read, T, creates[i]) /\ SettlesCreated(T, creates[i], diff.create[i])
    BY <1>1, <1>2, <1>5, <2>3, CreatesTable
  <2>6. \A i \in DOMAIN diff.alter :
          Piece(prov, first, read, T, alters[i]) /\ SettlesAltered(prov, read, T, alters[i], diff.alter[i].table)
    BY <1>5, <2>4, AltersTable
  <2> QED
    BY <1>1, <1>2, <2>1, <2>2, <2>5, <2>6, PushOfParts
<1> QED
  BY <1>1, <1>3, <1>4, <1>5 DEF ThreeProviders

-----------------------------------------------------------------------------
(* What the script of a push comes to.                                     *)

\* Comments settle nothing, and guard nothing.
LEMMA WithoutComments ==
  ASSUME NEW prov, NEW first, NEW read, NEW T, NEW file, PushScript(prov, first, read, T, file)
  PROVE  PushScript(prov, first, read, T, Statements(file))
<1> DEFINE some == {i \in DOMAIN file : file[i].op # "comment"}
           S == ToSet(file)
           kept == {file[i] : i \in DOMAIN file \cap some}
<1>1. Statements(file) = FlattenSeq([i \in DOMAIN file |-> IF i \in some THEN <<file[i]>> ELSE <<>>])
  BY DEF Statements, Only, Each
<1>2. file \in Seq(S) /\ \A s \in S : FineStatement(prov, first, read, T, s)
  BY DEF PushScript, Piece
<1>3. /\ kept \subseteq S
      /\ \A s \in S : s.op # "comment" => s \in kept
  BY DEF ToSet
<1>4. \A i \in DOMAIN file : i \in some <=> file[i].op # "comment"
  OBVIOUS
<1> HIDE DEF some, kept, S
<1>5. ASSUME NEW B, NEW G, Guarded(file, B, G), \A s \in G : s.op # "comment"
      PROVE  Holds(Statements(file), S, kept, B, G)
  <2>1. Len(file) \in Nat /\ DOMAIN file = 1..Len(file)
    BY <1>2
  <2>2. ASSUME NEW i \in DOMAIN file, i \in some, file[i] \in B
        PROVE  \E j \in 1..(i - 1) : j \in some /\ file[j] \in G
    <3>1. PICK j \in 1..(i - 1) : file[j] \in G
      BY <1>5, <2>2 DEF Guarded
    <3>2. j \in DOMAIN file
      BY <2>1
    <3> QED
      BY <1>4, <1>5, <3>1, <3>2
  <2>3. \A i \in DOMAIN file : i \in some /\ file[i] \in B => \E j \in 1..(i - 1) : j \in some /\ file[j] \in G
    BY <2>2
  <2>4. file \in Seq(S)
    BY <1>2
  <2>5. Holds(FlattenSeq([i \in DOMAIN file |-> IF i \in some THEN <<file[i]>> ELSE <<>>]),
              S, {file[i] : i \in DOMAIN file \cap some}, B, G)
    BY <2>3, <2>4, Picked
  <2> QED
    BY <1>1, <2>5 DEF kept
<1>6. Holds(Statements(file), S, kept, {}, {})
  <2>1. Guarded(file, {}, {})
    BY DEF Guarded
  <2> QED
    BY <1>5, <2>1
<1>7. ToSet(Statements(file)) = kept
  BY <1>6 DEF Holds
<1>8. Statements(file) \in Seq(kept)
  <2>1. Statements(file) \in Seq(S)
    BY <1>6 DEF Holds
  <2>2. Statements(file) \in [1..Len(Statements(file)) -> kept]
    BY <1>7, <2>1 DEF ToSet
  <2> QED
    BY <2>1, <2>2, IsASeq
<1>9. ASSUME prov # "sqlite", NEW t \in DOMAIN T \cap DOMAIN read, Normalize(prov, t) = t, NEW i \in DOMAIN T[t].idxs
      PROVE  Guarded(Statements(file), {DropIndex(t, i)}, Keepers(read, T, t, i))
  <2> DEFINE B == {DropIndex(t, i)}
             G == Keepers(read, T, t, i)
  <2>1. Guarded(file, B, G)
    BY <1>9 DEF PushScript, Piece
  <2>2. \A s \in G : s.op # "comment"
    BY DEF Keepers, Invalid, CreateIndex, RenameIndex
  <2> HIDE DEF B, G
  <2>3. Guarded(Statements(file), B, G)
    BY <1>5, <2>1, <2>2 DEF Holds
  <2> QED
    BY <2>3 DEF B, G
<1>10. Piece(prov, first, read, T, Statements(file))
  BY <1>2, <1>3, <1>7, <1>8, <1>9 DEF Piece
<1>11. ASSUME NEW w, NEW t, NEW c, Found(prov, read, T, w, t, c)
       PROVE  SettledBy(Statements(file), w, t, c)
  <2>1. PICK s \in S : Settles(s, w, t, c)
    BY <1>11 DEF PushScript, SettledBy, S
  <2>2. s.op # "comment"
    BY <2>1 DEF Settles
  <2> QED
    BY <1>3, <1>7, <2>1, <2>2 DEF SettledBy
<1> QED
  BY <1>10, <1>11 DEF PushScript

\* "No differences found" is said only where nothing was found.
LEMMA NothingFound ==
  ASSUME NEW prov, NEW first, NEW read, NEW T, NEW diff, Asked(prov, first, read, T, diff), NoDifferences(diff),
         NEW w, NEW t, NEW c
  PROVE  ~Found(prov, read, T, w, t, c)
<1> SUFFICES ASSUME Found(prov, read, T, w, t, c) PROVE FALSE
  OBVIOUS
<1>1. prov \in ThreeProviders /\ Differs(prov, read, T, diff) /\ TargetOK(prov, T)
  BY AskedDiffers DEF Asked
<1>2. ToSet(<<>>) = {} /\ DOMAIN <<>> = {}
  BY DEF ToSet
<1>3. /\ DOMAIN T \ DOMAIN read = {} /\ DOMAIN read \ (DOMAIN T \cup {"_prisma_migrations"}) = {}
      /\ \A u \in DOMAIN T \cap DOMAIN read : Compared(prov, read[u], T[u], u, <<>>)
  BY <1>1, <1>2 DEF Differs, NoDifferences
<1>4. t \in DOMAIN T \cap DOMAIN read /\ Normalize(prov, t) = t /\ Short(prov, AsDeclared[prov], read[t], T[t], w, c)
  BY <1>3 DEF Found, Left, TableIn
<1>5. \E ch \in ToSet(<<>>) : Answers(ch, w, c)
  BY <1>1, <1>3, <1>4, Answered DEF Compared
<1> QED
  BY <1>2, <1>5

OnCourse(prov, cat, T, file) == Leads(prov, cat, T, file) /\ Blocked(prov, cat, T, file)

\* If whatever is left to do in the database was found, the script leads to the schema.
LEMMA ScriptLeads ==
  ASSUME NEW prov, NEW first, NEW read, NEW T, NEW file, PushScript(prov, first, read, T, file), NEW cat,
         \A w, t, c : Undone(prov, cat, T, w, t, c) => Found(prov, read, T, w, t, c)
  PROVE  OnCourse(prov, cat, T, file)
<1>1. Leads(prov, cat, T, file)
  BY DEF PushScript, SettledBy, Leads, ToSet
<1>2. ASSUME NEW k \in DOMAIN file, Undoes(prov, T, file[k])
      PROVE  \E j \in 1..(k - 1) : Guards(prov, cat, T, file[j])
  <2> DEFINE t == file[k].table
             i == file[k].index
  <2>1. FineStatement(prov, first, read, T, file[k])
    BY DEF PushScript, Piece, ToSet
  <2>2. /\ prov # "sqlite" /\ t \in DOMAIN T /\ i \in DOMAIN T[t].idxs
        /\ file[k] = DropIndex(t, i) /\ Normalize(prov, t) = t /\ t \in DOMAIN read /\ i \in DOMAIN read[t].idxs
    BY <1>2, <2>1 DEF FineStatement, Undoes, IndexOf
  <2> HIDE DEF t, i
  <2>3. Guarded(file, {DropIndex(t, i)}, Keepers(read, T, t, i))
    BY <2>2 DEF PushScript, Piece
  <2>4. PICK j \in 1..(k - 1) : file[j] \in Keepers(read, T, t, i)
    BY <2>2, <2>3 DEF Guarded
  <2>5. ~Undone(prov, cat, T, "index", t, i)
    BY <2>2 DEF Found, Left, Short, TableIn
  <2>6. Guards(prov, cat, T, file[j])
    <3>1. CASE file[j] = Invalid
      BY <3>1 DEF Guards, Invalid
    <3>2. CASE file[j] = CreateIndex(t, i, T[t].idxs[i])
      BY <2>2, <2>5, <3>2 DEF Guards, CreateIndex
    <3>3. CASE \E h \in DOMAIN read[t].idxs : file[j] = RenameIndex(t, h, i)
      BY <2>2, <2>5, <3>3 DEF Guards, RenameIndex
    <3> QED
      BY <2>4, <3>1, <3>2, <3>3 DEF Keepers
  <2> QED
    BY <2>6
<1> QED
  BY <1>1, <1>2 DEF OnCourse, Blocked

\* All its statements are on the way to the schema.
LEMMA ScriptIsGood ==
  ASSUME NEW prov, NEW first, NEW read, NEW T, NEW file, PushScript(prov, first, read, T, file), IsScript(file)
  PROVE  GoodFile(prov, first, T, file)
BY DEF PushScript, Piece, FineStatement, GoodFile, ToSet

\* Nothing is left to do that was not left before.
Fewer(prov, cat, after, T) == \A w, t, c : Undone(prov, after, T, w, t, c) => Undone(prov, cat, T, w, t, c)
Done(prov, cat, T) == \A w, t, c : ~Undone(prov, cat, T, w, t, c)

\* A script stays on course while less and less is left to do.
LEMMA StillOnCourse ==
  ASSUME NEW prov, NEW cat, NEW after, NEW T, Fewer(prov, cat, after, T), NEW file, OnCourse(prov, cat, T, file)
  PROVE  OnCourse(prov, after, T, file)
<1>1. Leads(prov, after, T, file)
  BY DEF OnCourse, Leads, Fewer
<1>2. \A s : Guards(prov, cat, T, s) => Guards(prov, after, T, s)
  BY DEF Guards, Fewer
<1> QED
  BY <1>1, <1>2 DEF OnCourse, Blocked

\* The first statement of a script executes.
LEMMA OneLess ==
  ASSUME NEW prov, NEW first, NEW cat, NEW T, NEW file, file # <<>>, GoodFile(prov, first, T, file),
         Setting(prov, first, cat, T, Head(file)), OnCourse(prov, cat, T, file)
  PROVE  LET after == Executed(prov, cat, Head(file))
         IN  Fewer(prov, cat, after, T) /\ OnCourse(prov, after, T, Tail(file))
<1> DEFINE s == Head(file)
           after == Executed(prov, cat, s)
           rest == Tail(file)
<1>1. file \in Seq(ToSet(file)) /\ file # <<>>
  BY DEF GoodFile, IsScript
<1>2. /\ Len(file) \in Nat /\ Len(file) >= 1 /\ DOMAIN file = 1..Len(file) /\ s = file[1]
      /\ DOMAIN rest = 1..(Len(file) - 1) /\ \A i \in 1..(Len(file) - 1) : rest[i] = file[i + 1]
  BY <1>1
<1> HIDE DEF s, rest
<1>3. ~Undoes(prov, T, s)
  BY <1>2 DEF OnCourse, Blocked
<1>4. Nearer(prov, cat, after, T, s)
  BY <1>3, OneStep DEF s
<1>5. ~Guards(prov, cat, T, s)
  BY GuardFails DEF s
<1> HIDE DEF after
<1>6. Fewer(prov, cat, after, T)
  BY <1>4 DEF Nearer, Fewer
<1>7. ASSUME NEW w, NEW t, NEW c, Undone(prov, after, T, w, t, c)
      PROVE  \E i \in DOMAIN rest : Settles(rest[i], w, t, c)
  <2>1. Undone(prov, cat, T, w, t, c) /\ ~Settles(s, w, t, c)
    BY <1>4, <1>7 DEF Nearer
  <2>2. PICK i \in DOMAIN file : Settles(file[i], w, t, c)
    BY <2>1 DEF OnCourse, Leads
  <2>3. i # 1 /\ i - 1 \in DOMAIN rest /\ rest[i - 1] = file[i]
    BY <1>2, <2>1, <2>2
  <2> QED
    BY <2>2, <2>3
<1>8. ASSUME NEW i \in DOMAIN rest, Undoes(prov, T, rest[i])
      PROVE  \E j \in 1..(i - 1) : Guards(prov, after, T, rest[j])
  <2>1. i + 1 \in DOMAIN file /\ rest[i] = file[i + 1]
    BY <1>2
  <2>2. PICK j \in 1..i : Guards(prov, cat, T, file[j])
    <3>1. \E j \in 1..((i + 1) - 1) : Guards(prov, cat, T, file[j])
      BY <1>8, <2>1 DEF OnCourse, Blocked
    <3> QED
      BY <1>2, <3>1
  <2>3. j # 1
    BY <1>2, <1>5, <2>2
  <2>4. j - 1 \in 1..(i - 1) /\ rest[j - 1] = file[j]
    BY <1>2, <2>2, <2>3
  <2>5. Guards(prov, after, T, file[j])
    BY <1>6, <2>2 DEF Guards, Fewer
  <2> QED
    BY <2>4, <2>5
<1> QED
  BY <1>6, <1>7, <1>8 DEF OnCourse, Leads, Blocked, after, s, rest

-----------------------------------------------------------------------------
(* The way back.                                                           *)

DownScript(prov, first, file) == file \in Seq(ToSet(file)) /\ \A s \in ToSet(file) : GoodDown(prov, first, s)

\* The scripts of a rollback, piece by piece.
LEMMA DownOf ==
  ASSUME NEW prov, NEW first, NEW S, NEW file \in Seq(S), \A s \in S : GoodDown(prov, first, s)
  PROVE  DownScript(prov, first, file)
<1>1. \A i \in DOMAIN file : file[i] \in S
  OBVIOUS
<1>2. file \in Seq(ToSet(file))
  BY DEF ToSet
<1> QED
  BY <1>1, <1>2 DEF DownScript, ToSet

LEMMA DownsJoined ==
  ASSUME NEW prov, NEW first, NEW a, DownScript(prov, first, a), NEW b, DownScript(prov, first, b)
  PROVE  DownScript(prov, first, a \o b)
<1> DEFINE S == ToSet(a) \cup ToSet(b)
<1>1. \A s \in S : GoodDown(prov, first, s)
  BY DEF DownScript
<1>2. a \in Seq(S) /\ b \in Seq(S)
  <2> DEFINE X == ToSet(a)
             Y == ToSet(b)
  <2>1. a \in Seq(X) /\ b \in Seq(Y)
    BY DEF DownScript
  <2>2. X \subseteq S /\ Y \subseteq S
    OBVIOUS
  <2> HIDE DEF X, Y, S
  <2> QED
    BY <2>1, <2>2, SeqMonotonic
<1> HIDE DEF S
<1>3. a \o b \in Seq(S)
  BY <1>2
<1> QED
  BY <1>1, <1>3, DownOf

AreDown(prov, first, f, seq) == OneForEach(f, seq) /\ \A i \in DOMAIN seq : DownScript(prov, first, f[i])

LEMMA AllDown ==
  ASSUME NEW prov, NEW first, NEW S, NEW seq \in Seq(S), NEW f, AreDown(prov, first, f, seq)
  PROVE  DownScript(prov, first, FlattenSeq(f))
<1> DEFINE n == Len(seq)
           U == UNION {ToSet(f[i]) : i \in 1..n}
<1>1. n \in Nat /\ DOMAIN seq = 1..n
  OBVIOUS
<1>0. f = [i \in DOMAIN seq |-> f[i]] /\ \A i \in DOMAIN seq : DownScript(prov, first, f[i])
  BY DEF AreDown, OneForEach
<1> HIDE DEF n
<1>2. ASSUME NEW i \in 1..n PROVE f[i] \in Seq(U)
  <2>1. f[i] \in Seq(ToSet(f[i]))
    BY <1>0, <1>1 DEF DownScript
  <2>2. ToSet(f[i]) \subseteq U
    OBVIOUS
  <2> HIDE DEF U
  <2> QED
    BY <2>1, <2>2, SeqMonotonic
<1>3. ASSUME NEW s \in U PROVE GoodDown(prov, first, s)
  <2>1. PICK i \in 1..n : s \in ToSet(f[i])
    OBVIOUS
  <2> QED
    BY <1>0, <1>1, <2>1 DEF DownScript
<1> HIDE DEF U
<1>4. f \in [1..n -> Seq(U)]
  BY <1>0, <1>1, <1>2
<1>5. FlattenSeq(f) \in Seq(U)
  BY <1>1, <1>4, Flattened
<1> QED
  BY <1>3, <1>5, DownOf

LEMMA NoneDown ==
  ASSUME NEW prov, NEW first
  PROVE  DownScript(prov, first, <<>>)
<1>1. ToSet(<<>>) = {} /\ <<>> \in Seq({})
  BY DEF ToSet
<1> QED
  BY <1>1 DEF DownScript

LEMMA OneDown ==
  ASSUME NEW prov, NEW first, NEW s, GoodDown(prov, first, s)
  PROVE  DownScript(prov, first, <<s>>)
<1> DEFINE S == {s}
<1>1. \A x \in S : GoodDown(prov, first, x)
  OBVIOUS
<1>2. <<s>> \in Seq(S)
  OBVIOUS
<1> HIDE DEF S
<1> QED
  BY <1>1, <1>2, DownOf

\* A type that was read can be declared.
LEMMA ReadCanBeDeclared ==
  /\ \A type \in ReadTypes["postgresql"] : type \in DOMAIN ReportedType["postgresql"]
  /\ \A type \in ReadTypes["mysql"] : MapToMySQLType(type) \in DOMAIN ReportedType["mysql"]
<1>1. \A type \in ReadTypes["postgresql"] : type \in DOMAIN ReportedType["postgresql"]
  BY DEF ReadTypes, ReportedType
<1>2. \A type \in ReadTypes["mysql"] : MapToMySQLType(type) \in DOMAIN ReportedType["mysql"]
  <2>1. ReadTypes["mysql"] = {"INT", "varchar(255)", "BOOLEAN", "DATETIME"}
    BY DEF ReadTypes
  <2>2. DOMAIN ReportedType["mysql"] = {"INT", "VARCHAR(255)", "varchar(255)", "TINYINT(1)", "DATETIME"}
    BY DEF ReportedType
  <2> QED
    BY <2>1, <2>2 DEF MapToMySQLType
<1> QED
  BY <1>1, <1>2

\* A statement that is only the name of an operation gone back.
Simple == {"comment", "invalid", "dropTable", "dropColumn", "setNullable", "dropIndex"}

\* Statements that a rollback may have for any table.
LEMMA SimpleIsDown ==
  ASSUME NEW prov, NEW first, NEW s, s.op \in Simple
  PROVE  GoodDown(prov, first, s)
BY DEF Simple, GoodDown, Ops

BackOf(prov, n, ch) ==
  CASE prov = "postgresql" -> PostgresRollback(n, ch)
    [] prov = "mysql" -> MySQLRollback(n, ch)
    [] prov = "sqlite" -> SQLiteRollback(n, ch)

\* The way back from one change.
LEMMA BackIsDown ==
  ASSUME NEW prov \in ThreeProviders, Ordinary(prov), NEW first, NEW T, TargetOK(prov, T), NEW read,
         NEW t \in DOMAIN T, SeenOK(prov, first, t, read),
         NEW ch, ch.type \in ChangeTypes, prov # "sqlite" => FineChange(prov, read, T, t, ch)
  PROVE  DownScript(prov, first, BackOf(prov, Normalize(prov, t), ch))
<1> DEFINE n == Normalize(prov, t)
<1>0. \A s : s.op \in Simple => DownScript(prov, first, <<s>>)
  BY SimpleIsDown, OneDown
<1>1. CASE prov = "sqlite"
  <2>1. BackOf(prov, n, ch) = SQLiteRollback(n, ch)
    BY <1>1 DEF BackOf
  <2>2. \E s : SQLiteRollback(n, ch) = <<s>> /\ s.op \in Simple
    BY DEF SQLiteRollback, DropIndex, Comment, Simple
  <2> QED
    BY <1>0, <2>1, <2>2
<1>2. CASE prov # "sqlite"
  <2>0. prov \in {"postgresql", "mysql"} /\ FineChange(prov, read, T, t, ch)
    BY <1>2 DEF ThreeProviders
  <2>1. /\ prov = "postgresql" => BackOf(prov, n, ch) = PostgresRollback(n, ch)
        /\ prov = "mysql" => BackOf(prov, n, ch) = MySQLRollback(n, ch)
    BY DEF BackOf
  <2>2. CASE ch.type = "ChangePrimaryKey"
    <3>1. BackOf(prov, n, ch) = <<>>
      BY <2>0, <2>1, <2>2 DEF PostgresRollback, MySQLRollback
    <3> QED
      BY <3>1, NoneDown
  <2>3. CASE ch.type \in {"AddColumn", "CreateIndex", "DropColumn", "DropIndex", "DropForeignKey"}
    <3>1. BackOf(prov, n, ch) \in {<<DropColumn(n, ch.column)>>, <<DropIndex(n, ch.index)>>, <<Comment>>}
      BY <2>0, <2>1, <2>3 DEF PostgresRollback, MySQLRollback
    <3>2. DropColumn(n, ch.column).op \in Simple /\ DropIndex(n, ch.index).op \in Simple /\ Comment.op \in Simple
      BY DEF DropColumn, DropIndex, Comment, Simple
    <3> QED
      BY <1>0, <3>1, <3>2
  <2>4. CASE ch.type = "RenameIndex"
    <3> DEFINE s == RenameIndex(n, ch.new, ch.old)
    <3>1. BackOf(prov, n, ch) = <<s>>
      BY <2>0, <2>1, <2>4 DEF PostgresRollback, MySQLRollback
    <3>2. s.op = "renameIndex" /\ s.table = n /\ s.old = ch.new /\ s.new = ch.old
      BY DEF RenameIndex
    <3>3. /\ ch.old \in DOMAIN read.idxs /\ ch.old \notin TargetIndexes(prov)
          /\ ch.new \in DOMAIN T[t].idxs /\ read.idxs[ch.old] = T[t].idxs[ch.new]
      BY <2>0, <2>4 DEF FineChange
    <3>4. ch.new \in TargetIndexes(prov) /\ ch.new[1] = t /\ T[t].idxs[ch.new] = UniqueOn(ch.new[2])
      BY <3>3 DEF TargetOK
    <3>5. KnownIndex(prov, first, t, ch.old, UniqueOn(ch.new[2]))
      BY <1>2, <3>3, <3>4 DEF SeenOK
    <3>6. n = t \/ Nowhere(prov, n)
      BY OwnName DEF TargetOK
    <3> HIDE DEF s, n
    <3>7. GoodDown(prov, first, s)
      BY <3>2, <3>3, <3>4, <3>5, <3>6 DEF GoodDown, Ops
    <3> QED
      BY <3>1, <3>7, OneDown DEF n
  <2>5. CASE ch.type = "AlterColumn" /\ prov = "postgresql"
    <3> DEFINE a == SetType(n, ch.column, ch.oldType)
               b == SetNullable(n, ch.column, ch.oldNullable)
    <3>1. BackOf(prov, n, ch) = <<a>> \o <<b>>
      BY <2>1, <2>5 DEF PostgresRollback, PostgresRollbackColumn
    <3>2. ch.oldType \in DOMAIN ReportedType[prov]
      BY <2>0, <2>5, ReadCanBeDeclared DEF FineChange, SeenOK
    <3>3. a.op = "setType" /\ a.type = ch.oldType /\ b.op = "setNullable"
      BY DEF SetType, SetNullable
    <3> HIDE DEF a, b
    <3>4. GoodDown(prov, first, a) /\ GoodDown(prov, first, b)
      BY <3>2, <3>3 DEF GoodDown, Ops
    <3> QED
      BY <3>1, <3>4, OneDown, DownsJoined
  <2>6. CASE ch.type = "AlterColumn" /\ prov = "mysql"
    <3> DEFINE def == [type |-> MapToMySQLType(ch.oldType), nullable |-> ch.oldNullable, default |-> "none", auto |-> FALSE]
               s == [op |-> "modifyColumn", table |-> n, column |-> ch.column, def |-> def]
    <3>1. BackOf(prov, n, ch) = <<s>>
      BY <2>1, <2>6 DEF MySQLRollback
    <3>2. MapToMySQLType(ch.oldType) \in DOMAIN ReportedType[prov]
      BY <2>0, <2>6, ReadCanBeDeclared DEF FineChange, SeenOK
    <3>3. IsDef(def) /\ def.type = MapToMySQLType(ch.oldType)
      BY DEF IsDef
    <3> HIDE DEF def
    <3>4. s.op = "modifyColumn" /\ s.def = def
      OBVIOUS
    <3> HIDE DEF s
    <3>5. GoodDown(prov, first, s)
      BY <3>2, <3>3, <3>4 DEF GoodDown, Ops
    <3> QED
      BY <3>1, <3>5, OneDown
  <2> QED
    BY <2>0, <2>2, <2>3, <2>4, <2>5, <2>6 DEF ChangeTypes
<1> QED
  BY <1>1, <1>2

\* A rollback that drops, keeps and alters tables.
LEMMA BackOfParts ==
  ASSUME NEW prov, NEW first, NEW diff, diff.drop \in Seq(ToSet(diff.drop)), diff.create \in Seq(ToSet(diff.create)),
         diff.alter \in Seq(ToSet(diff.alter)), NEW cascade, NEW alters, AreDown(prov, first, alters, diff.alter)
  PROVE  DownScript(prov, first,
                    FlattenSeq([i \in DOMAIN diff.drop |-> <<Comment>>]) \o FlattenSeq(alters) \o
                    FlattenSeq([i \in DOMAIN diff.create |-> <<DropTable(diff.create[i], cascade)>>]))
<1> DEFINE notes == [i \in DOMAIN diff.drop |-> <<Comment>>]
           drops == [i \in DOMAIN diff.create |-> <<DropTable(diff.create[i], cascade)>>]
<1>1. AreDown(prov, first, notes, diff.drop)
  <2>1. Comment.op \in Simple
    BY DEF Comment, Simple
  <2>2. DownScript(prov, first, <<Comment>>)
    BY <2>1, SimpleIsDown, OneDown
  <2> QED
    BY <2>2 DEF AreDown, OneForEach
<1>2. AreDown(prov, first, drops, diff.create)
  <2>1. ASSUME NEW i \in DOMAIN diff.create PROVE DownScript(prov, first, drops[i])
    <3> DEFINE s == DropTable(diff.create[i], cascade)
    <3>1. s.op \in Simple /\ drops[i] = <<s>>
      BY DEF DropTable, Simple
    <3> HIDE DEF s, drops
    <3> QED
      BY <3>1, SimpleIsDown, OneDown
  <2>2. OneForEach(drops, diff.create)
    BY DEF OneForEach
  <2> HIDE DEF drops
  <2> QED
    BY <2>1, <2>2 DEF AreDown
<1> HIDE DEF notes, drops
<1>3. /\ DownScript(prov, first, FlattenSeq(notes)) /\ DownScript(prov, first, FlattenSeq(alters))
      /\ DownScript(prov, first, FlattenSeq(drops))
  BY <1>1, <1>2, AllDown
<1>4. DownScript(prov, first, FlattenSeq(notes) \o FlattenSeq(alters))
  BY <1>3, DownsJoined
<1>5. DownScript(prov, first, (FlattenSeq(notes) \o FlattenSeq(alters)) \o FlattenSeq(drops))
  BY <1>3, <1>4, DownsJoined
<1> QED
  BY <1>5 DEF notes, drops

\* The rollback script of what a migration was asked.
LEMMA RollbackIsDown ==
  ASSUME NEW prov, NEW first, NEW read, NEW T, NEW diff, Asked(prov, first, read, T, diff)
  PROVE  DownScript(prov, first, GenerateRollbackSQL(prov, diff))
<1>1. prov \in ThreeProviders /\ GoodDiff(diff, T) /\ TargetOK(prov, T) /\ Ordinary(prov)
  BY AskedDiffers DEF Asked
<1>2. /\ diff.drop \in Seq(ToSet(diff.drop)) /\ diff.create \in Seq(ToSet(diff.create))
      /\ diff.alter \in Seq(ToSet(diff.alter))
  <2>1. diff.create \in Seq(DOMAIN T)
    BY <1>1 DEF GoodDiff
  <2>2. diff.create \in Seq(ToSet(diff.create))
    BY <2>1 DEF ToSet
  <2> QED
    BY <1>1, <2>2 DEF GoodDiff
<1> DEFINE back(i) == [j \in DOMAIN Reverse(diff.alter[i].changes) |->
                         BackOf(prov, diff.alter[i].table, Reverse(diff.alter[i].changes)[j])]
           alters == [i \in DOMAIN diff.alter |-> FlattenSeq(back(i))]
<1>3. ASSUME NEW i \in DOMAIN diff.alter PROVE DownScript(prov, first, FlattenSeq(back(i)))
  <2> DEFINE n == diff.alter[i].table
             changes == diff.alter[i].changes
             S == ToSet(changes)
             f == back(i)
  <2>1. PICK t \in DOMAIN T \cap DOMAIN read :
              /\ n = Normalize(prov, t)
              /\ Compared(prov, read[t], T[t], t, changes)
              /\ SeenOK(prov, first, t, read[t])
              /\ \A u \in DOMAIN T \cap DOMAIN read : Normalize(prov, u) = u /\ Normalize(prov, t) = u => t = u
    BY AskedDiffers
  <2>2. changes \in Seq(S) /\ \A ch \in S : ch.type \in ChangeTypes
    BY <1>1 DEF GoodDiff, SparingChanges, SparesColumns, ToSet
  <2>3. \A ch \in S : prov # "sqlite" => FineChange(prov, read[t], T, t, ch)
    <3> DEFINE all == ColumnChanges(prov, read[t].cols, T[t].cols, t) \cup IndexChanges(prov, read[t].idxs, T[t].idxs)
    <3>1. S \subseteq all \cup OtherChanges
      BY <2>1 DEF Compared, ToSet
    <3>2. \A ch \in all \cup OtherChanges : FineChange(prov, read[t], T, t, ch)
      BY <1>1, <2>1, FineChanges DEF Asked
    <3> QED
      BY <3>1, <3>2
  <2>4. \A ch \in S : DownScript(prov, first, BackOf(prov, n, ch))
    BY <1>1, <2>1, <2>2, <2>3, BackIsDown
  <2>5. Reverse(changes) \in Seq(S)
    <3> HIDE DEF S
    <3> QED
      BY <2>2, Reversed
  <2>6. f = [j \in DOMAIN Reverse(changes) |-> BackOf(prov, n, Reverse(changes)[j])]
    OBVIOUS
  <2> HIDE DEF f, n, changes, S
  <2>7. AreDown(prov, first, f, Reverse(changes))
    <3>1. \A j \in DOMAIN Reverse(changes) : Reverse(changes)[j] \in S
      BY <2>5
    <3> QED
      BY <2>4, <2>6, <3>1 DEF AreDown, OneForEach
  <2>8. DownScript(prov, first, FlattenSeq(f))
    BY <2>5, <2>7, AllDown
  <2> QED
    BY <2>8 DEF f
<1>4. AreDown(prov, first, alters, diff.alter)
  <2> HIDE DEF back
  <2> QED
    BY <1>3 DEF AreDown, OneForEach
<1>5. \A cascade : DownScript(prov, first,
                    FlattenSeq([i \in DOMAIN diff.drop |-> <<Comment>>]) \o FlattenSeq(alters) \o
                    FlattenSeq([i \in DOMAIN diff.create |-> <<DropTable(diff.create[i], cascade)>>]))
  <2> HIDE DEF alters
  <2> QED
    BY <1>2, <1>4, BackOfParts
<1>6. \E cascade : GenerateRollbackSQL(prov, diff) =
                    FlattenSeq([i \in DOMAIN diff.drop |-> <<Comment>>]) \o FlattenSeq(alters) \o
                    FlattenSeq([i \in DOMAIN diff.create |-> <<DropTable(diff.create[i], cascade)>>])
  <2>1. CASE prov = "postgresql"
    <3>1. GenerateRollbackSQL(prov, diff) =
                    FlattenSeq([i \in DOMAIN diff.drop |-> <<Comment>>]) \o FlattenSeq(alters) \o
                    FlattenSeq([i \in DOMAIN diff.create |-> <<DropTable(diff.create[i], TRUE)>>])
      BY <2>1 DEF GenerateRollbackSQL, PostgresRollbackSQL, Each, BackOf
    <3> QED
      BY <3>1
  <2>2. CASE prov = "mysql"
    <3>1. GenerateRollbackSQL(prov, diff) =
                    FlattenSeq([i \in DOMAIN diff.drop |-> <<Comment>>]) \o FlattenSeq(alters) \o
                    FlattenSeq([i \in DOMAIN diff.create |-> <<DropTable(diff.create[i], FALSE)>>])
      BY <2>2 DEF GenerateRollbackSQL, MySQLRollbackSQL, Each, BackOf
    <3> QED
      BY <3>1
  <2>3. CASE prov = "sqlite"
    <3>1. GenerateRollbackSQL(prov, diff) =
                    FlattenSeq([i \in DOMAIN diff.drop |-> <<Comment>>]) \o FlattenSeq(alters) \o
                    FlattenSeq([i \in DOMAIN diff.create |-> <<DropTable(diff.create[i], FALSE)>>])
      BY <2>3 DEF GenerateRollbackSQL, SQLiteRollbackSQL, Each, BackOf
    <3> QED
      BY <3>1
  <2> QED
    BY <1>1, <2>1, <2>2, <2>3 DEF ThreeProviders
<1> HIDE DEF alters
<1> QED
  BY <1>5, <1>6

\* Nor do comments count on the way back.
LEMMA DownWithoutComments ==
  ASSUME NEW prov, NEW first, NEW file, DownScript(prov, first, file)
  PROVE  DownScript(prov, first, Statements(file))
<1> DEFINE some == {i \in DOMAIN file : file[i].op # "comment"}
           S == ToSet(file)
<1>1. Statements(file) = FlattenSeq([i \in DOMAIN file |-> IF i \in some THEN <<file[i]>> ELSE <<>>])
  BY DEF Statements, Only, Each
<1>2. file \in Seq(S) /\ \A s \in S : GoodDown(prov, first, s)
  BY DEF DownScript
<1> HIDE DEF some, S
<1>3. Statements(file) \in Seq(S)
  BY <1>1, <1>2, Passing
<1> QED
  BY <1>2, <1>3, DownOf

-----------------------------------------------------------------------------
(* The processes: where a command that is alone stands on the way.         *)

\* What a process has read, and is still to execute.
InOrder(prov, first, T, read, unr, file) ==
  /\ DOMAIN read \subseteq TablesOf(prov) /\ unr \subseteq TablesOf(prov)
  /\ \A t \in DOMAIN read : SeenOK(prov, first, t, read[t])
  /\ \A i \in DOMAIN file : Good(prov, first, T, file[i])

Sound(first) ==
  /\ CatOK(provider, first, catalog)
  /\ unread = [p \in Procs |-> unread[p]]
  /\ \A p \in Procs : InOrder(provider, first, Target(p), seen[p], unread[p], script[p])
  /\ migration.state = "applied" => DownScript(provider, first, migration.down)

\* Whatever is left to do is found by the comparison, or in a table still to be read; and no
\* such table is to be created.
Behind(prov, cat, T, read, unr) ==
  /\ \A w, t, c : Undone(prov, cat, T, w, t, c) => Found(prov, read, T, w, t, c) \/ t \in unr
  /\ \A t \in unr : ~Undone(prov, cat, T, "create", t, t)

OnWay(prov, cat, T, read, unr, file, at, out) ==
  /\ at = "read" => Behind(prov, cat, T, read, unr)
  /\ at = "execute" => OnCourse(prov, cat, T, file)
  /\ out \in {"success", "up_to_date"} => Done(prov, cat, T)

Ahead(p) == alone[p] => OnWay(provider, catalog, Target(p), seen[p], unread[p], script[p], pc[p], outcome[p])

\* A process stays on its way while less and less is left to do.
LEMMA StillOnWay ==
  ASSUME NEW prov, NEW cat, NEW after, NEW T, Fewer(prov, cat, after, T), NEW read, NEW unr, NEW file, NEW at, NEW out,
         OnWay(prov, cat, T, read, unr, file, at, out)
  PROVE  OnWay(prov, after, T, read, unr, file, at, out)
<1>1. OnCourse(prov, cat, T, file) => OnCourse(prov, after, T, file)
  BY StillOnCourse
<1>2. Behind(prov, cat, T, read, unr) => Behind(prov, after, T, read, unr)
  BY DEF Behind, Fewer
<1>3. Done(prov, cat, T) => Done(prov, after, T)
  BY DEF Done, Fewer
<1> QED
  BY <1>1, <1>2, <1>3 DEF OnWay

\* Where the steps start from.
Here(first) ==
  /\ IInv /\ Ordinary(provider) /\ first \in FirstCatalogs[provider]
  /\ Sound(first) /\ \A p \in Procs : Ahead(p)
There(first) == Sound(first) /\ \A p \in Procs : Ahead(p)

\* What the invariant says of one process.
LEMMA WhatIsGiven ==
  ASSUME NEW first, Here(first), NEW p \in Procs
  PROVE  /\ provider \in Providers /\ provider \in ThreeProviders /\ Ordinary(provider)
         /\ TargetOK(provider, Target(p)) /\ GoodCatalog(Target(p)) /\ GoodTables(seen[p])
         /\ FineScript(script[p], Target(p), TRUE) /\ IsScript(script[p])
         /\ GoodFile(provider, first, Target(p), script[p])
         /\ InOrder(provider, first, Target(p), seen[p], unread[p], script[p])
<1>1. ProcsInv /\ Ordinary(provider) /\ InOrder(provider, first, Target(p), seen[p], unread[p], script[p])
  BY DEF Here, IInv, Sound
<1>2. provider \in Providers /\ provider \in ThreeProviders
  BY <1>1, ProvidersAssumption DEF ProcsInv, ThreeProviders
<1>3. schema[p] \in DOMAIN Schemas[provider] \cup {"none"}
  BY <1>1 DEF ProcsInv
<1>4. TargetOK(provider, Target(p))
  BY <1>1, <1>2, <1>3, TargetsOK DEF Target
<1>5. GoodTables(seen[p]) /\ FineScript(script[p], Target(p), TRUE)
  BY <1>1 DEF ProcsInv
<1>6. IsScript(script[p])
  BY <1>5 DEF FineScript
<1>7. GoodFile(provider, first, Target(p), script[p])
  BY <1>1, <1>6 DEF GoodFile, InOrder
<1> QED
  BY <1>1, <1>2, <1>4, <1>5, <1>6, <1>7 DEF TargetOK

\* A process that does nothing.
Rests(q) ==
  /\ pc'[q] = pc[q] /\ schema'[q] = schema[q] /\ unread'[q] = unread[q] /\ seen'[q] = seen[q]
  /\ script'[q] = script[q] /\ outcome'[q] = outcome[q]

\* A process that rests stays on its way.
LEMMA Resting ==
  ASSUME NEW first, Here(first), provider' = provider, NEW q \in Procs, Rests(q),
         alone'[q] => alone[q] /\ Fewer(provider, catalog, catalog', Target(q))
  PROVE  /\ InOrder(provider', first, Target(q)', seen'[q], unread'[q], script'[q])
         /\ Ahead(q)'
<1>1. Target(q)' = Target(q)
  BY DEF Target, Rests
<1>2. InOrder(provider, first, Target(q), seen[q], unread[q], script[q]) /\ Ahead(q)
  BY DEF Here, Sound
<1>3. InOrder(provider', first, Target(q)', seen'[q], unread'[q], script'[q])
  BY <1>1, <1>2 DEF Rests
<1>4. ASSUME alone'[q]
      PROVE  OnWay(provider', catalog', Target(q)', seen'[q], unread'[q], script'[q], pc'[q], outcome'[q])
  <2>1. OnWay(provider, catalog, Target(q), seen[q], unread[q], script[q], pc[q], outcome[q])
    BY <1>2, <1>4 DEF Ahead
  <2>2. OnWay(provider, catalog', Target(q), seen[q], unread[q], script[q], pc[q], outcome[q])
    BY <1>4, <2>1, StillOnWay
  <2> QED
    BY <1>1, <2>2 DEF Rests
<1> QED
  BY <1>3, <1>4 DEF Ahead

\* Nothing is less than itself.
LEMMA SameIsFewer ==
  ASSUME NEW prov, NEW cat, NEW T
  PROVE  Fewer(prov, cat, cat, T)
BY SMT DEF Fewer

\* Nothing read and nothing to execute is in order.
LEMMA NothingInOrder ==
  ASSUME NEW prov, NEW first, NEW T, NEW unr, unr \subseteq TablesOf(prov)
  PROVE  InOrder(prov, first, T, <<>>, unr, <<>>)
<1>1. DOMAIN <<>> = {}
  OBVIOUS
<1> QED
  BY <1>1 DEF InOrder

\* A command ends without touching the database: if it says that the schema is there, it is.
LEMMA Ends ==
  ASSUME NEW first, Here(first), NEW p \in Procs, NEW result, Finish(p, result),
         UNCHANGED <<provider, catalog, alone, migration>>,
         result = "failed" \/ (alone[p] => Done(provider, catalog, Target(p)))
  PROVE  There(first)'
<1>1. ProcsInv /\ Sound(first) /\ Ahead(p)
  BY DEF Here, IInv
<1>2. /\ seen'[p] = <<>> /\ unread'[p] = {} /\ script'[p] = <<>> /\ pc'[p] = "idle" /\ outcome'[p] = result
      /\ result # "failed" => schema'[p] = schema[p]
      /\ unread' = [q \in Procs |-> unread'[q]]
  BY <1>1 DEF Finish, ProcsInv, Sound
<1>3. ASSUME NEW q \in Procs PROVE InOrder(provider', first, Target(q)', seen'[q], unread'[q], script'[q]) /\ Ahead(q)'
  <2>1. CASE q = p
    <3>1. InOrder(provider', first, Target(q)', seen'[q], unread'[q], script'[q])
      BY <1>2, <2>1, NothingInOrder
    <3>2. ASSUME alone'[p], result \in {"success", "up_to_date"}
          PROVE  Done(provider', catalog', Target(p)')
      <4>1. Target(p)' = Target(p)
        BY <1>2, <3>2 DEF Target
      <4> QED
        BY <3>2, <4>1
    <3>3. Ahead(p)'
      BY <1>2, <3>2 DEF Ahead, OnWay
    <3> QED
      BY <2>1, <3>1, <3>3
  <2>2. CASE q # p
    <3>1. Rests(q)
      BY <1>1, <2>2 DEF Rests, Finish, ProcsInv, Sound
    <3>2. Fewer(provider, catalog, catalog', Target(q))
      BY SameIsFewer
    <3> QED
      BY <3>1, <3>2, Resting
  <2> QED
    BY <2>1, <2>2
<1> QED
  BY <1>1, <1>2, <1>3 DEF There, Sound

\* A command begins: all tables there are are still to be read, and no other is left to be created but
\* those the comparison finds.
LEMMA Begins ==
  ASSUME NEW first, Here(first), NEW p \in Procs, Begin(p)
  PROVE  There(first)'
<1>1. ProcsInv /\ Sound(first) /\ provider' = provider /\ catalog' = catalog /\ migration' = migration
  BY DEF Here, IInv, Begin
<1>2. PICK s \in DOMAIN Schemas[provider] : schema' = [schema EXCEPT ![p] = s]
  BY DEF Begin
<1>3. /\ seen'[p] = <<>> /\ unread'[p] = DOMAIN catalog /\ script'[p] = <<>> /\ pc'[p] = "read" /\ outcome'[p] = "none"
      /\ unread' = [q \in Procs |-> unread'[q]]
  BY <1>1 DEF Begin, ProcsInv, Sound
<1>4. DOMAIN catalog \subseteq TablesOf(provider)
  BY <1>1 DEF Sound, CatOK
<1>5. ASSUME NEW prov, NEW T PROVE Behind(prov, catalog, T, <<>>, DOMAIN catalog)
  <2>1. DOMAIN <<>> = {}
    OBVIOUS
  <2>2. DOMAIN EmptyTable.cols = {} /\ DOMAIN EmptyTable.idxs = {}
    BY DEF EmptyTable
  <2>3. ASSUME NEW w, NEW t, NEW c, Undone(prov, catalog, T, w, t, c), t \notin DOMAIN catalog
        PROVE  Found(prov, <<>>, T, w, t, c)
    <3>1. TableIn(catalog, t) = EmptyTable /\ TableIn(<<>>, t) = EmptyTable
      BY <2>1, <2>3 DEF TableIn
    <3>2. \A rep, u : Short(prov, rep, EmptyTable, u, w, c) => Short(prov, AsDeclared[prov], EmptyTable, u, w, c)
      BY <2>2 DEF Short
    <3> QED
      BY <2>1, <2>3, <3>1, <3>2 DEF Undone, Found, Left
  <2>4. \A t \in DOMAIN catalog : ~Undone(prov, catalog, T, "create", t, t)
    BY DEF Undone, Left, Short
  <2> QED
    BY <2>3, <2>4 DEF Behind
<1>6. ASSUME NEW q \in Procs PROVE InOrder(provider', first, Target(q)', seen'[q], unread'[q], script'[q]) /\ Ahead(q)'
  <2>1. CASE q = p
    <3>1. InOrder(provider', first, Target(p)', seen'[p], unread'[p], script'[p])
      BY <1>1, <1>3, <1>4, NothingInOrder
    <3>2. Behind(provider', catalog', Target(p)', seen'[p], unread'[p])
      BY <1>1, <1>3, <1>5
    <3>3. Ahead(p)'
      BY <1>3, <3>2 DEF Ahead, OnWay
    <3> QED
      BY <2>1, <3>1, <3>3
  <2>2. CASE q # p
    <3>1. Rests(q)
      BY <1>1, <1>2, <2>2 DEF Rests, Begin, ProcsInv, Sound
    <3>2. Fewer(provider, catalog, catalog', Target(q))
      BY <1>1, SameIsFewer
    <3>3. alone'[q] => alone[q]
      BY <2>2 DEF Begin, Here, IInv, DatabaseInv
    <3> QED
      BY <1>1, <3>1, <3>2, <3>3, Resting
  <2> QED
    BY <2>1, <2>2
<1> QED
  BY <1>1, <1>3, <1>6 DEF There, Sound

\* A table is read.
LEMMA TableIsRead ==
  ASSUME NEW first, Here(first), NEW p \in Procs, ReadTable(p)
  PROVE  There(first)'
<1> DEFINE t == NextTable(p)
           table == IF t \in DOMAIN catalog THEN catalog[t] ELSE EmptyTable
           read == IntrospectTable(provider, table)
           T == Target(p)
<1>0. ProcsInv /\ Sound(first) /\ Ahead(p)
  BY DEF Here, IInv
<1>1. /\ UNCHANGED <<provider, catalog, pc, schema, script, outcome, alone, migration>>
      /\ pc[p] = "read" /\ unread[p] # {}
      /\ unread' = [unread EXCEPT ![p] = @ \ {t}]
      /\ seen' = [seen EXCEPT ![p] = With(@, t, read)]
  BY DEF ReadTable
<1>2. t \in unread[p]
  BY <1>1 DEF NextTable
<1>3. table = TableIn(catalog, t) /\ TableOK(provider, first, t, table)
  <2>1. t \in DOMAIN catalog => TableOK(provider, first, t, catalog[t])
    BY <1>0 DEF Sound, CatOK
  <2>2. TableOK(provider, first, t, EmptyTable)
    <3>1. DOMAIN EmptyTable.cols = {} /\ DOMAIN EmptyTable.idxs = {}
      BY DEF EmptyTable
    <3> QED
      BY <3>1 DEF TableOK
  <2> HIDE DEF t
  <2> QED
    BY <2>1, <2>2 DEF TableIn
<1> HIDE DEF t, table
<1>4. /\ SeenOK(provider, first, t, read)
      /\ t \in DOMAIN T => \A w, c : Short(provider, ReportedType[provider], table, T[t], w, c) =>
                                       Short(provider, AsDeclared[provider], read, T[t], w, c)
  <2>1. provider \in Providers /\ Ordinary(provider) /\ first \in FirstCatalogs[provider] /\ TargetOK(provider, T)
    BY WhatIsGiven DEF Here
  <2> HIDE DEF T
  <2> QED
    BY <1>3, <2>1, TableRead
<1> HIDE DEF read
<1>5. /\ unread'[p] = unread[p] \ {t} /\ seen'[p] = With(seen[p], t, read)
      /\ unread' = [q \in Procs |-> unread'[q]] /\ script'[p] = script[p] /\ Target(p)' = T
  BY <1>0, <1>1 DEF Sound, ProcsInv, Target
<1>6. /\ DOMAIN seen'[p] = DOMAIN seen[p] \cup {t} /\ seen'[p][t] = read
      /\ \A u \in DOMAIN seen[p] : u # t => seen'[p][u] = seen[p][u]
  BY <1>5 DEF With
<1>7. InOrder(provider', first, Target(p)', seen'[p], unread'[p], script'[p])
  <2>1. InOrder(provider, first, T, seen[p], unread[p], script[p])
    BY WhatIsGiven
  <2> HIDE DEF T
  <2> QED
    BY <1>1, <1>2, <1>4, <1>5, <1>6, <2>1 DEF InOrder
<1>8. ASSUME alone[p] PROVE Behind(provider, catalog, T, seen'[p], unread'[p])
  <2>1. Behind(provider, catalog, T, seen[p], unread[p])
    BY <1>0, <1>1, <1>8 DEF Ahead, OnWay
  <2> HIDE DEF T
  <2>2. ASSUME NEW w, NEW u, NEW c, Undone(provider, catalog, T, w, u, c)
        PROVE  Found(provider, seen'[p], T, w, u, c) \/ u \in unread'[p]
    <3>1. CASE u # t
      <4>1. TableIn(seen'[p], u) = TableIn(seen[p], u) /\ (u \in DOMAIN seen'[p] <=> u \in DOMAIN seen[p])
        BY <1>6, <3>1 DEF TableIn
      <4>2. Found(provider, seen[p], T, w, u, c) => Found(provider, seen'[p], T, w, u, c)
        BY <4>1 DEF Found, Left
      <4> QED
        BY <1>5, <2>1, <2>2, <3>1, <4>2 DEF Behind
    <3>2. CASE u = t
      <4>1. TableIn(seen'[p], t) = read /\ t \in DOMAIN seen'[p]
        BY <1>6 DEF TableIn
      <4>2. ~(w = "create" /\ c = t /\ t \in DOMAIN T /\ t \notin DOMAIN catalog)
        <5>1. ~Undone(provider, catalog, T, "create", t, t)
          BY <1>2, <2>1 DEF Behind
        <5> QED
          BY <5>1 DEF Undone, Left
      <4> QED
        BY <1>3, <1>4, <2>2, <3>2, <4>1, <4>2 DEF Undone, Found, Left
    <3> QED
      BY <3>1, <3>2
  <2> QED
    BY <1>5, <2>1, <2>2 DEF Behind
<1>9. ASSUME NEW q \in Procs PROVE InOrder(provider', first, Target(q)', seen'[q], unread'[q], script'[q]) /\ Ahead(q)'
  <2>1. CASE q = p
    <3>1. ASSUME alone[p], outcome[p] \in {"success", "up_to_date"} PROVE Done(provider, catalog, T)
      BY <1>0, <3>1 DEF Ahead, OnWay
    <3>2. Ahead(p)'
      BY <1>1, <1>5, <1>8, <3>1 DEF Ahead, OnWay
    <3> QED
      BY <1>7, <2>1, <3>2
  <2>2. CASE q # p
    <3>1. Rests(q)
      BY <1>0, <1>1, <2>2 DEF Rests, ProcsInv, Sound
    <3>2. Fewer(provider, catalog, catalog', Target(q))
      BY <1>1, SameIsFewer
    <3> QED
      BY <1>1, <3>1, <3>2, Resting
  <2> QED
    BY <2>1, <2>2
<1> QED
  BY <1>0, <1>1, <1>5, <1>9 DEF There, Sound

\* All tables are read: what the comparison starts from.
LEMMA Compares ==
  ASSUME NEW first, Here(first), NEW p \in Procs, pc[p] = "read", unread[p] = {},
         NEW diff \in CompareSchemas(provider, seen[p], Target(p))
  PROVE  /\ Asked(provider, first, seen[p], Target(p), diff)
         /\ alone[p] => \A w, t, c : Undone(provider, catalog, Target(p), w, t, c) =>
                                       Found(provider, seen[p], Target(p), w, t, c)
<1>1. Asked(provider, first, seen[p], Target(p), diff)
  BY WhatIsGiven DEF Asked, InOrder
<1>2. ASSUME alone[p] PROVE Behind(provider, catalog, Target(p), seen[p], unread[p])
  BY <1>2 DEF Here, Ahead, OnWay
<1>3. ASSUME alone[p], NEW w, NEW t, NEW c, Undone(provider, catalog, Target(p), w, t, c)
      PROVE  Found(provider, seen[p], Target(p), w, t, c)
  BY <1>2, <1>3 DEF Behind
<1> QED
  BY <1>1, <1>3

\* A command finds no differences: there are none.
LEMMA FindsNothing ==
  ASSUME NEW first, Here(first), NEW p \in Procs, pc[p] = "read", unread[p] = {},
         NEW diff \in CompareSchemas(provider, seen[p], Target(p)), NothingToDo(p, diff)
  PROVE  There(first)'
<1>1. /\ NoDifferences(diff) /\ Finish(p, "up_to_date")
      /\ UNCHANGED <<provider, catalog, alone, migration>>
  BY DEF NothingToDo
<1>2. ASSUME alone[p] PROVE Done(provider, catalog, Target(p))
  <2>1. \A w, t, c : ~Found(provider, seen[p], Target(p), w, t, c)
    BY <1>1, Compares, NothingFound
  <2> QED
    BY <1>2, <2>1, Compares DEF Done
<1> QED
  BY <1>1, <1>2, Ends

\* The script that is confirmed leads to the schema.
LEMMA Confirms ==
  ASSUME NEW first, Here(first), NEW p \in Procs, pc[p] = "read", unread[p] = {},
         NEW diff \in CompareSchemas(provider, seen[p], Target(p)), Confirm(p, diff)
  PROVE  There(first)'
<1> DEFINE T == Target(p)
           up == GenerateMigrationSQL(provider, diff, T)
<1>0. ProcsInv /\ Sound(first) /\ Ahead(p)
  BY DEF Here, IInv
<1>1. UNCHANGED <<provider, catalog, alone, migration>>
  BY DEF Confirm
<1>2. CASE Finish(p, "failed")
  BY <1>1, <1>2, Ends
<1>3. CASE /\ script' = [script EXCEPT ![p] = up]
           /\ pc' = [pc EXCEPT ![p] = "execute"]
           /\ seen' = [seen EXCEPT ![p] = <<>>]
           /\ UNCHANGED <<unread, outcome, schema>>
  <2>1. PushScript(provider, first, seen[p], T, up)
    BY Compares, Generated
  <2>2. \A i \in DOMAIN up : Good(provider, first, T, up[i])
    <3> HIDE DEF up, T
    <3> QED
      BY <2>1 DEF PushScript, Piece, FineStatement, ToSet
  <2>3. ASSUME alone[p] PROVE OnCourse(provider, catalog, T, up)
    <3>1. \A w, t, c : Undone(provider, catalog, T, w, t, c) => Found(provider, seen[p], T, w, t, c)
      BY <2>3, Compares
    <3> HIDE DEF up, T
    <3> QED
      BY <2>1, <3>1, ScriptLeads
  <2> HIDE DEF up
  <2>4. /\ script'[p] = up /\ pc'[p] = "execute" /\ seen'[p] = <<>> /\ unread'[p] = unread[p] /\ Target(p)' = T
        /\ unread' = [q \in Procs |-> unread'[q]]
    BY <1>0, <1>1, <1>3 DEF ProcsInv, Sound, Target
  <2>5. InOrder(provider', first, Target(p)', seen'[p], unread'[p], script'[p])
    <3>1. unread[p] \subseteq TablesOf(provider) /\ DOMAIN <<>> = {}
      OBVIOUS
    <3> HIDE DEF T
    <3> QED
      BY <1>1, <2>2, <2>4, <3>1 DEF InOrder
  <2>6. Ahead(p)'
    <3>1. ASSUME alone[p], outcome[p] \in {"success", "up_to_date"} PROVE Done(provider, catalog, T)
      BY <1>0, <3>1 DEF Ahead, OnWay
    <3> HIDE DEF T
    <3> QED
      BY <1>1, <1>3, <2>3, <2>4, <3>1 DEF Ahead, OnWay
  <2>7. ASSUME NEW q \in Procs PROVE InOrder(provider', first, Target(q)', seen'[q], unread'[q], script'[q]) /\ Ahead(q)'
    <3>1. CASE q = p
      BY <2>5, <2>6, <3>1
    <3>2. CASE q # p
      <4>1. Rests(q)
        BY <1>0, <1>3, <3>2 DEF Rests, ProcsInv, Sound
      <4>2. Fewer(provider, catalog, catalog', Target(q))
        BY <1>1, SameIsFewer
      <4> QED
        BY <1>1, <4>1, <4>2, Resting
    <3> QED
      BY <3>1, <3>2
  <2> QED
    BY <1>0, <1>1, <2>4, <2>7 DEF There, Sound
<1> QED
  BY <1>2, <1>3 DEF Confirm

\* A statement settles what it is for, and leaves nothing to do that was not left before.
LEMMA HeadExecuted ==
  ASSUME NEW first, Here(first), NEW p \in Procs, ExecuteStatement(p)
  PROVE  There(first)'
<1> DEFINE file == script[p]
           s == Head(file)
           T == Target(p)
           after == Executed(provider, catalog, s)
<1>0. ProcsInv /\ Sound(first) /\ Ahead(p) /\ DatabaseInv
  BY DEF Here, IInv
<1>1. pc[p] = "execute" /\ file # <<>> /\ UNCHANGED provider
  BY DEF ExecuteStatement
<1>2. CASE /\ CanExecute(provider, catalog, s)
           /\ catalog' = after
           /\ script' = [script EXCEPT ![p] = Tail(@)]
           /\ IF catalog' = catalog THEN UNCHANGED <<alone, migration>> ELSE Beside(p) /\ migration' = None
           /\ UNCHANGED <<provider, pc, schema, unread, seen, outcome, commands>>
  <2>1. /\ provider \in ThreeProviders /\ Ordinary(provider) /\ first \in FirstCatalogs[provider]
        /\ TargetOK(provider, T) /\ FineScript(file, T, TRUE) /\ GoodFile(provider, first, T, file)
        /\ InOrder(provider, first, T, seen[p], unread[p], file)
    BY WhatIsGiven DEF Here
  <2>2. CatOK(provider, first, catalog)
    BY <1>0 DEF Sound
  <2> HIDE DEF T, file
  <2>3. file \in Seq(ToSet(file)) /\ s = file[1] /\ 1 \in DOMAIN file
    <3>1. file \in Seq(ToSet(file))
      BY <2>1 DEF GoodFile, IsScript
    <3> QED
      BY <1>1, <3>1
  <2>4. WellFormed(s) /\ Good(provider, first, T, s)
    <3> HIDE DEF s
    <3> QED
      BY <2>1, <2>3 DEF FineScript, IsScript, GoodFile
  <2>5. Setting(provider, first, catalog, T, s)
    BY <1>2, <2>1, <2>2, <2>4 DEF Setting
  <2> HIDE DEF s
  <2>6. CatOK(provider, first, after)
    BY <2>5, OneStep
  <2>7. ASSUME alone[p] PROVE Fewer(provider, catalog, after, T) /\ OnCourse(provider, after, T, Tail(file))
    <3>1. OnCourse(provider, catalog, T, file)
      BY <1>0, <1>1, <2>7 DEF Ahead, OnWay, T, file
    <3>2. file # <<>> /\ GoodFile(provider, first, T, file) /\ Setting(provider, first, catalog, T, Head(file))
      BY <1>1, <2>1, <2>5 DEF s
    <3> QED
      BY <3>1, <3>2, OneLess DEF s
  <2>8. \A i \in DOMAIN Tail(file) : Good(provider, first, T, Tail(file)[i])
    <3>1. Len(file) \in Nat /\ Len(file) >= 1 /\ DOMAIN file = 1..Len(file)
      BY <2>3
    <3>2. DOMAIN Tail(file) = 1..(Len(file) - 1) /\ \A i \in 1..(Len(file) - 1) : Tail(file)[i] = file[i + 1]
      BY <2>3, <3>1
    <3>3. \A i \in 1..(Len(file) - 1) : i + 1 \in DOMAIN file
      BY <3>1
    <3> QED
      BY <2>1, <3>2, <3>3 DEF GoodFile
  <2> HIDE DEF after
  <2>9. /\ script'[p] = Tail(file) /\ pc'[p] = "execute" /\ seen'[p] = seen[p] /\ unread'[p] = unread[p]
        /\ outcome'[p] = outcome[p] /\ unread' = [q \in Procs |-> unread'[q]]
        /\ \A q \in Procs : Target(q)' = Target(q)
    BY <1>0, <1>1, <1>2 DEF ProcsInv, Sound, Target, file
  <2>10. InOrder(provider', first, Target(p)', seen'[p], unread'[p], script'[p])
    BY <1>2, <2>1, <2>8, <2>9 DEF InOrder, T
  <2>11. ASSUME NEW q \in Procs, alone'[q]
         PROVE  alone[q] /\ Fewer(provider, catalog, catalog', Target(q))
    <3>1. CASE catalog' = catalog
      BY <1>2, <2>11, <3>1, SameIsFewer
    <3>2. CASE catalog' # catalog
      <4>1. alone[q] /\ alone[p] /\ schema[q] = schema[p]
        BY <1>2, <2>11, <3>2 DEF Beside
      <4>2. Target(q) = T
        BY <4>1 DEF Target, T
      <4> QED
        BY <1>2, <2>7, <4>1, <4>2
    <3> QED
      BY <3>1, <3>2
  <2>12. Ahead(p)'
    <3>1. ASSUME alone'[p]
          PROVE  OnWay(provider', catalog', Target(p)', seen'[p], unread'[p], script'[p], pc'[p], outcome'[p])
      <4>1. alone[p] /\ OnCourse(provider, after, T, Tail(file)) /\ Fewer(provider, catalog, after, T)
        BY <2>7, <2>11, <3>1
      <4>2. outcome[p] \in {"success", "up_to_date"} => Done(provider, catalog, T)
        BY <1>0, <4>1 DEF Ahead, OnWay, T
      <4>3. outcome[p] \in {"success", "up_to_date"} => Done(provider, after, T)
        BY <4>1, <4>2 DEF Done, Fewer
      <4>4. Target(p)' = T /\ provider' = provider /\ catalog' = after
        BY <1>1, <1>2, <2>9 DEF T
      <4> QED
        BY <2>9, <4>1, <4>3, <4>4 DEF OnWay
    <3> QED
      BY <3>1 DEF Ahead
  <2>13. ASSUME NEW q \in Procs PROVE InOrder(provider', first, Target(q)', seen'[q], unread'[q], script'[q]) /\ Ahead(q)'
    <3>1. CASE q = p
      BY <2>10, <2>12, <3>1
    <3>2. CASE q # p
      <4>1. Rests(q)
        BY <1>0, <1>2, <3>2 DEF Rests, ProcsInv, Sound
      <4> QED
        BY <1>1, <2>11, <4>1, Resting
    <3> QED
      BY <3>1, <3>2
  <2>14. migration'.state = "applied" => DownScript(provider', first, migration'.down)
    <3>1. migration' = migration \/ migration' = None
      BY <1>2
    <3>2. None.state # "applied"
      BY DEF None
    <3> QED
      BY <1>0, <1>1, <3>1, <3>2 DEF Sound
  <2> QED
    BY <1>1, <1>2, <2>6, <2>9, <2>13, <2>14 DEF There, Sound
<1>3. CASE Finish(p, "failed") /\ UNCHANGED <<provider, catalog, alone, migration, commands>>
  BY <1>3, Ends
<1> QED
  BY <1>2, <1>3 DEF ExecuteStatement

\* A script of comments settles nothing: where a push is done, nothing was left.
LEMMA PushEnds ==
  ASSUME NEW first, Here(first), NEW p \in Procs, PushDone(p)
  PROVE  There(first)'
<1>1. /\ pc[p] = "execute" /\ Finish(p, "success") /\ UNCHANGED <<provider, catalog, alone, migration>>
      /\ \A i \in DOMAIN script[p] : script[p][i].op = "comment"
  <2>1. DOMAIN <<>> = {}
    OBVIOUS
  <2> QED
    BY <2>1 DEF PushDone, CommentsOnly
<1>2. ASSUME alone[p] PROVE Done(provider, catalog, Target(p))
  <2>1. Leads(provider, catalog, Target(p), script[p])
    BY <1>1, <1>2 DEF Here, Ahead, OnWay, OnCourse
  <2>2. ASSUME NEW w, NEW t, NEW c, Undone(provider, catalog, Target(p), w, t, c) PROVE FALSE
    <3>1. PICK i \in DOMAIN script[p] : Settles(script[p][i], w, t, c)
      BY <2>1, <2>2 DEF Leads
    <3>2. script[p][i].op = "comment"
      BY <1>1
    <3> QED
      BY <3>1, <3>2 DEF Settles
  <2> QED
    BY <2>2 DEF Done
<1> QED
  BY <1>1, <1>2, Ends

\* A migration settles everything at once.
LEMMA Migrates ==
  ASSUME NEW first, Here(first), NEW p \in Procs, pc[p] = "read", unread[p] = {},
         NEW diff \in CompareSchemas(provider, seen[p], Target(p)), ApplyDev(p, diff)
  PROVE  There(first)'
<1> DEFINE T == Target(p)
           up == GenerateMigrationSQL(provider, diff, T)
           file == Statements(up)
           down == GenerateRollbackSQL(provider, diff)
           applied == [state |-> "applied", down |-> down, before |-> catalog, target |-> T,
                       current |-> seen[p] = Introspect(provider, catalog)]
           after == ExecutedAll(provider, catalog, file).cat
<1>0. ProcsInv /\ Sound(first) /\ Ahead(p) /\ DatabaseInv /\ UNCHANGED provider
  BY DEF Here, IInv, ApplyDev
<1>1. CASE /\ Applies(up)
           /\ catalog' = OneExec(up).cat
           /\ migration' = applied
           /\ Beside(p)
           /\ Finish(p, "success")
  <2>1. /\ provider \in Providers /\ provider \in ThreeProviders /\ Ordinary(provider) /\ first \in FirstCatalogs[provider]
        /\ TargetOK(provider, T) /\ GoodCatalog(T) /\ GoodTables(seen[p])
    BY WhatIsGiven DEF Here
  <2>2. CatOK(provider, first, catalog)
    BY <1>0 DEF Sound
  <2>3. Asked(provider, first, seen[p], T, diff)
    BY Compares
  <2>4. PushScript(provider, first, seen[p], T, file)
    BY <2>3, Generated, WithoutComments
  <2>5. FineScript(file, T, TRUE)
    <3>1. GoodDiff(diff, T)
      BY <2>1, SchemasCompared DEF Asked
    <3>2. FineScript(up, T, TRUE)
      BY <2>1, <3>1, ScriptGenerated
    <3> HIDE DEF up
    <3> QED
      BY <3>2, StatementsKept
  <2>6. DownScript(provider, first, down)
    BY <2>3, RollbackIsDown
  <2>7. ASSUME alone[p] PROVE OnCourse(provider, catalog, T, file)
    <3>1. \A w, t, c : Undone(provider, catalog, T, w, t, c) => Found(provider, seen[p], T, w, t, c)
      BY <2>7, Compares
    <3> HIDE DEF file, T
    <3> QED
      BY <2>4, <3>1, ScriptLeads
  <2>8. catalog' = after /\ ExecutedAll(provider, catalog, file).ok
    BY <1>1 DEF Applies, OneExec
  <2>9. migration'.state = "applied" /\ migration'.down = down
    BY <1>1
  <2> HIDE DEF file, up, T, down, applied
  <2>10. GoodFile(provider, first, T, file)
    <3>1. IsScript(file)
      BY <2>5 DEF FineScript
    <3> QED
      BY <2>4, <3>1, ScriptIsGood
  <2>11. CatOK(provider, first, after) /\ (Blocked(provider, catalog, T, file) => AllSettled(provider, catalog, after, T, file))
    BY <2>1, <2>2, <2>8, <2>10, FileExecuted
  <2> HIDE DEF after
  <2>12. ASSUME alone[p] PROVE Fewer(provider, catalog, after, T) /\ Done(provider, after, T)
    <3>1. Leads(provider, catalog, T, file) /\ AllSettled(provider, catalog, after, T, file)
      BY <2>7, <2>11, <2>12 DEF OnCourse
    <3>2. Fewer(provider, catalog, after, T)
      BY <3>1 DEF AllSettled, Fewer
    <3>3. Done(provider, after, T)
      BY <3>1 DEF AllSettled, Leads, Done
    <3> QED
      BY <3>2, <3>3
  <2>13. /\ seen'[p] = <<>> /\ unread'[p] = {} /\ script'[p] = <<>> /\ pc'[p] = "idle" /\ outcome'[p] = "success"
         /\ schema'[p] = schema[p] /\ Target(p)' = T
         /\ unread' = [q \in Procs |-> unread'[q]]
    BY <1>0, <1>1 DEF Finish, ProcsInv, Sound, Target, T
  <2>14. alone' = [q \in Procs |-> alone[q] /\ alone[p] /\ schema[q] = schema[p]]
    BY <1>1 DEF Beside
  <2>15. ASSUME NEW q \in Procs PROVE InOrder(provider', first, Target(q)', seen'[q], unread'[q], script'[q]) /\ Ahead(q)'
    <3>1. CASE q = p
      <4>1. InOrder(provider', first, Target(q)', seen'[q], unread'[q], script'[q])
        BY <2>13, <3>1, NothingInOrder
      <4>2. ASSUME alone'[p] PROVE Done(provider', catalog', Target(p)')
        <5>1. alone[p]
          BY <2>14, <4>2
        <5> QED
          BY <1>0, <2>8, <2>12, <2>13, <5>1
      <4>3. Ahead(p)'
        BY <2>13, <4>2 DEF Ahead, OnWay
      <4> QED
        BY <3>1, <4>1, <4>3
    <3>2. CASE q # p
      <4>1. Rests(q)
        BY <1>0, <1>1, <3>2 DEF Rests, Finish, ProcsInv, Sound
      <4>2. ASSUME alone'[q] PROVE alone[q] /\ Fewer(provider, catalog, catalog', Target(q))
        <5>1. alone[q] /\ alone[p] /\ schema[q] = schema[p]
          BY <2>14, <4>2
        <5>2. Target(q) = T
          BY <5>1 DEF Target, T
        <5> QED
          BY <2>8, <2>12, <5>1, <5>2
      <4> QED
        BY <1>0, <4>1, <4>2, Resting
    <3> QED
      BY <3>1, <3>2
  <2> QED
    BY <1>0, <2>6, <2>8, <2>9, <2>11, <2>13, <2>15 DEF There, Sound
<1>2. CASE Finish(p, "failed") /\ UNCHANGED <<catalog, alone, migration>>
  BY <1>0, <1>2, Ends
<1> QED
  BY <1>1, <1>2 DEF ApplyDev

\* After a rollback nobody is alone.
LEMMA RollsBack ==
  ASSUME NEW first, Here(first), NEW p \in Procs, Rollback(p)
  PROVE  There(first)'
<1>0. ProcsInv /\ Sound(first) /\ Ahead(p) /\ DatabaseInv
  BY DEF Here, IInv
<1>1. /\ pc[p] = "idle" /\ migration.state = "applied"
      /\ UNCHANGED <<provider, pc, schema, unread, seen, script>>
  BY DEF Rollback
<1>2. ASSUME NEW q \in Procs
      PROVE  /\ Target(q)' = Target(q)
             /\ InOrder(provider', first, Target(q)', seen'[q], unread'[q], script'[q])
  <2>1. Target(q)' = Target(q)
    BY <1>1 DEF Target
  <2>2. InOrder(provider, first, Target(q), seen[q], unread[q], script[q])
    BY WhatIsGiven
  <2> QED
    BY <1>1, <2>1, <2>2
<1>3. unread' = [q \in Procs |-> unread'[q]]
  BY <1>0, <1>1 DEF Sound
<1>4. CASE /\ Applies(migration.down)
           /\ catalog' = OneExec(migration.down).cat
           /\ migration' = [migration EXCEPT !.state = "rolledback"]
           /\ alone' = [q \in Procs |-> FALSE]
  <2> DEFINE down == migration.down
             file == Statements(down)
  <2>1. CatOK(provider, first, catalog) /\ DownScript(provider, first, down) /\ provider \in ThreeProviders
    BY <1>0, <1>1, WhatIsGiven DEF Sound
  <2>2. FineScript(down, {}, FALSE)
    BY <1>0, <1>1 DEF DatabaseInv, FineScript
  <2>3. catalog' = ExecutedAll(provider, catalog, file).cat /\ ExecutedAll(provider, catalog, file).ok
    BY <1>4 DEF Applies, OneExec
  <2> HIDE DEF down
  <2>4. IsScript(file)
    BY <2>2, StatementsKept DEF FineScript
  <2>5. \A i \in DOMAIN file : GoodDown(provider, first, file[i])
    <3>1. DownScript(provider, first, file)
      BY <2>1, DownWithoutComments
    <3> HIDE DEF file
    <3> QED
      BY <3>1 DEF DownScript, ToSet
  <2> HIDE DEF file
  <2>6. CatOK(provider, first, catalog')
    BY <2>1, <2>3, <2>4, <2>5, FileUndone
  <2>7. migration'.state # "applied"
    BY <1>0, <1>4 DEF DatabaseInv
  <2>8. \A q \in Procs : Ahead(q)'
    BY <1>4 DEF Ahead
  <2> QED
    BY <1>1, <1>2, <1>3, <2>6, <2>7, <2>8 DEF There, Sound
<1>5. CASE outcome' = [outcome EXCEPT ![p] = "failed"] /\ UNCHANGED <<catalog, migration, alone>>
  <2>1. ASSUME NEW q \in Procs PROVE Ahead(q)'
    <3>1. CASE q = p
      <4>1. outcome'[p] = "failed"
        BY <1>0, <1>5 DEF ProcsInv
      <4> QED
        BY <1>1, <3>1, <4>1 DEF Ahead, OnWay
    <3>2. CASE q # p
      <4>1. Rests(q)
        BY <1>1, <1>5, <3>2 DEF Rests
      <4>2. Fewer(provider, catalog, catalog', Target(q))
        BY <1>5, SameIsFewer
      <4> QED
        BY <1>1, <1>5, <4>1, <4>2, Resting
    <3> QED
      BY <3>1, <3>2
  <2> QED
    BY <1>0, <1>1, <1>2, <1>3, <1>5, <2>1 DEF There, Sound
<1> QED
  BY <1>4, <1>5 DEF Rollback

\* Every step.
LEMMA StepIsToward ==
  ASSUME NEW first, Here(first), [Next]_vars
  PROVE  There(first)'
<1>1. ASSUME NEW p \in Procs, CannotRead(p) \/ Kill(p) PROVE There(first)'
  BY <1>1, Ends DEF CannotRead, Kill
<1>2. ASSUME NEW p \in Procs, Compare(p) PROVE There(first)'
  <2>1. pc[p] = "read" /\ unread[p] = {}
    BY <1>2 DEF Compare
  <2>2. PICK diff \in CompareSchemas(provider, seen[p], Target(p)) : NothingToDo(p, diff) \/ Confirm(p, diff) \/ ApplyDev(p, diff)
    BY <1>2 DEF Compare
  <2> QED
    BY <2>1, <2>2, FindsNothing, Confirms, Migrates
<1>3. CASE UNCHANGED vars
  <2>1. Sound(first) /\ \A q \in Procs : Ahead(q)
    BY DEF Here
  <2>2. \A q \in Procs : Target(q)' = Target(q)
    BY <1>3 DEF vars, Target
  <2>3. Sound(first)'
    BY <1>3, <2>1, <2>2 DEF vars, Sound
  <2>4. ASSUME NEW q \in Procs PROVE Ahead(q)'
    BY <1>3, <2>1, <2>2 DEF vars, Ahead
  <2> QED
    BY <2>3, <2>4 DEF There
<1> QED
  BY <1>1, <1>2, <1>3, Begins, TableIsRead, HeadExecuted, PushEnds, RollsBack DEF Next

\* The inductive invariant: some catalog was the first.
PushInv == IInv /\ \E first \in FirstCatalogs[provider] : There(first)

\* A catalog made by hand is in order.
LEMMA FirstIsOK ==
  ASSUME NEW prov \in Providers, NEW first \in FirstCatalogs[prov]
  PROVE  CatOK(prov, first, first)
<1>1. Ordinary(prov) /\ GoodCatalog(first)
  BY OrdinaryAssumption, FirstCatalogsAssumption DEF GoodCatalog
<1>2. DOMAIN first \subseteq TablesOf(prov)
  BY DEF TablesOf
<1>3. ASSUME NEW t \in DOMAIN first PROVE TableOK(prov, first, t, first[t])
  BY <1>1 DEF Ordinary, TableOK, KnownIndex
<1> QED
  BY <1>1, <1>2, <1>3 DEF CatOK

\* It holds in the beginning.
LEMMA AtFirst == Init => PushInv
<1> SUFFICES ASSUME Init PROVE PushInv
  OBVIOUS
<1>1. IInv
  BY Initially
<1>2. /\ provider \in Providers /\ catalog \in FirstCatalogs[provider] /\ unread = [p \in Procs |-> unread[p]]
      /\ \A p \in Procs : seen[p] = <<>> /\ unread[p] = {} /\ script[p] = <<>> /\ pc[p] = "idle" /\ outcome[p] = "none"
      /\ migration = None
  BY DEF Init
<1>3. CatOK(provider, catalog, catalog)
  BY <1>2, FirstIsOK
<1>4. migration.state # "applied"
  BY <1>2 DEF None
<1>5. ASSUME NEW p \in Procs PROVE InOrder(provider, catalog, Target(p), seen[p], unread[p], script[p]) /\ Ahead(p)
  <2>1. InOrder(provider, catalog, Target(p), seen[p], unread[p], script[p])
    BY <1>2, NothingInOrder
  <2>2. Ahead(p)
    BY <1>2 DEF Ahead, OnWay
  <2> QED
    BY <2>1, <2>2
<1>6. Sound(catalog)
  BY <1>2, <1>3, <1>4, <1>5 DEF Sound
<1> QED
  BY <1>1, <1>2, <1>5, <1>6 DEF PushInv, There

\* The invariant is inductive.
LEMMA StepsToward == PushInv /\ [Next]_vars => PushInv'
<1> SUFFICES ASSUME PushInv, [Next]_vars PROVE PushInv'
  OBVIOUS
<1>1. PICK first \in FirstCatalogs[provider] : There(first)
  BY DEF PushInv
<1>2. IInv /\ IInv'
  BY StepKeeps DEF PushInv
<1>3. Ordinary(provider)
  BY <1>2, OrdinaryAssumption DEF IInv, ProcsInv
<1>4. Here(first)
  BY <1>1, <1>2, <1>3 DEF Here, There
<1>5. There(first)'
  BY <1>4, StepIsToward
<1>6. provider' = provider
  BY DEF Next, vars, Begin, ReadTable, CannotRead, Compare, NothingToDo, Confirm, ApplyDev, ExecuteStatement, PushDone,
         Rollback, Kill
<1> QED
  BY <1>1, <1>2, <1>5, <1>6 DEF PushInv

-----------------------------------------------------------------------------
(* Nothing is left to do: the database has the schema.                     *)

\* The tables have the names of the schema,
LEMMA NamesMatch ==
  ASSUME NEW prov \in Providers, NEW first, NEW cat, CatOK(prov, first, cat), NEW T, TargetOK(prov, T), Done(prov, cat, T)
  PROVE  TableNames(prov, cat) = TableNames(prov, T)
<1>1. DOMAIN T \subseteq DOMAIN cat
  BY DEF Done, Undone, Left
<1>2. DOMAIN cat \subseteq DOMAIN T \cup {"_prisma_migrations"}
  BY DEF Done, Undone, Left
<1>3. Normalize(prov, "_prisma_migrations") = "_prisma_migrations"
  BY HistoryAssumption DEF Normalize
<1> QED
  BY <1>1, <1>2, <1>3 DEF TableNames, TableShouldBeIgnored

\* their columns and indexes,
LEMMA TablesMatch ==
  ASSUME NEW prov \in Providers, prov # "sqlite", NEW first, NEW cat, CatOK(prov, first, cat),
         NEW T, TargetOK(prov, T), Done(prov, cat, T),
         NEW n \in DOMAIN T \cap DOMAIN cat, Normalize(prov, n) = n
  PROVE  /\ DOMAIN cat[n].cols = DOMAIN T[n].cols
         /\ \A c \in DOMAIN T[n].cols :
              /\ cat[n].cols[c].type = ReportedType[prov][T[n].cols[c].type]
              /\ cat[n].cols[c].nullable = T[n].cols[c].nullable
         /\ DOMAIN cat[n].idxs = DOMAIN T[n].idxs
         /\ \A i \in DOMAIN T[n].idxs : cat[n].idxs[i] = T[n].idxs[i]
<1>1. \A w, c : ~Short(prov, ReportedType[prov], cat[n], T[n], w, c)
  BY DEF Done, Undone, Left, TableIn
<1>2. DOMAIN cat[n].cols = DOMAIN T[n].cols
  BY <1>1 DEF Short
<1>3. \A c \in DOMAIN T[n].cols :
        /\ cat[n].cols[c].type = ReportedType[prov][T[n].cols[c].type]
        /\ cat[n].cols[c].nullable = T[n].cols[c].nullable
  BY <1>1, <1>2 DEF Short
<1>4. DOMAIN cat[n].idxs = DOMAIN T[n].idxs
  BY <1>1 DEF Short
<1>5. \A i \in DOMAIN T[n].idxs : cat[n].idxs[i] = T[n].idxs[i]
  BY <1>4 DEF TargetOK, CatOK, TableOK, KnownIndex
<1> QED
  BY <1>2, <1>3, <1>4, <1>5

\* and so has the database of a process that says so, and was alone.
LEMMA DoneMatches ==
  ASSUME NEW first, Here(first), NEW p \in Procs, alone[p], outcome[p] \in {"success", "up_to_date"}
  PROVE  Matches(Target(p))
<1> DEFINE T == Target(p)
<1>1. /\ provider \in Providers /\ CatOK(provider, first, catalog) /\ TargetOK(provider, T)
      /\ Done(provider, catalog, T)
  BY WhatIsGiven DEF Here, Sound, Ahead, OnWay
<1> HIDE DEF T
<1>2. Names(catalog) = Names(T)
  BY <1>1, NamesMatch DEF Names
<1>3. ASSUME NEW n \in DOMAIN T \cap DOMAIN catalog, Normalize(provider, n) = n
      PROVE  IF provider = "sqlite" THEN AtLeast(catalog[n], T[n]) ELSE SameTable(catalog[n], T[n])
  <2>1. CASE provider = "sqlite"
    <3>1. \A c : ~Short(provider, ReportedType[provider], catalog[n], T[n], "add", c)
      BY <1>1, <1>3 DEF Done, Undone, Left, TableIn
    <3> QED
      BY <2>1, <3>1 DEF Short, AtLeast
  <2>2. CASE provider # "sqlite"
    BY <1>1, <1>3, <2>2, TablesMatch DEF SameTable
  <2> QED
    BY <2>1, <2>2
<1> QED
  BY <1>2, <1>3 DEF Matches, T

\* db push and migrate dev --apply report success, or that there is nothing to do, only of a database
\* that has their schema, and no push of the same schema beside or after them, failing half-way or
\* killed, takes it away from there.  For any of the databases, schemas, catalogs and processes.
THEOREM PushReachesTarget == Spec => []PushedIsTarget
<1>1. PushInv => PushedIsTarget
  <2> SUFFICES ASSUME PushInv, NEW p \in Procs, outcome[p] \in {"success", "up_to_date"}, alone[p]
               PROVE  Matches(Target(p))
    BY DEF PushedIsTarget
  <2>1. PICK first \in FirstCatalogs[provider] : There(first)
    BY DEF PushInv
  <2>2. Ordinary(provider) /\ IInv
    BY OrdinaryAssumption DEF PushInv, IInv, ProcsInv
  <2>3. Here(first)
    BY <2>1, <2>2 DEF Here, There, PushInv
  <2> QED
    BY <2>3, DoneMatches
<1> QED
  BY AtFirst, StepsToward, <1>1, PTL DEF Spec
=============================================================================
