------------------------ MODULE QueryLibrary_proofs ------------------------
(***************************************************************************)
(* Proofs about QueryLibrary, for any builders, generators, operators,     *)
(* requests and bounds: that apart from the flaws the models name every    *)
(* statement of the where builder and every query of the compiler is       *)
(* accepted and binds each placeholder to its own value, that the where    *)
(* builder's touch the rows that were asked for, and that the compiler's   *)
(* leave the rows their filters mean.                                      *)
(***************************************************************************)
EXTENDS QueryLibrary, FiniteSetTheorems, SequenceTheorems, WellFoundedInduction, TLAPS

-----------------------------------------------------------------------------
(* Induction over numbers, with a set in the place of a predicate.         *)

\* A set of numbers that is not empty has a least one.
LEMMA LeastNumber ==
  ASSUME NEW S \in SUBSET Nat, S # {}
  PROVE  \E n \in S : \A k \in S : n <= k
<1> DEFINE R == OpToRel(<, Nat)
<1>1. IsWellFoundedOn(R, Nat)
  BY NatLessThanWellFounded
<1>2. \A x, y \in Nat : x < y => <<x, y>> \in R
  BY DEF OpToRel
<1>3. PICK n \in S : \A k \in S : ~(<<k, n>> \in R)
  <2> HIDE DEF R
  <2> QED
    BY <1>1, WFMin
<1>4. \A k \in S : ~(k < n)
  <2> HIDE DEF R
  <2> QED
    BY <1>2, <1>3
<1> QED
  BY <1>4

\* What holds of 0 and of each next number holds up to n.
LEMMA UpTo ==
  ASSUME NEW n \in Nat, NEW S, 0 \in S, \A k \in 0..n : k \in S /\ k < n => k + 1 \in S
  PROVE  \A k \in 0..n : k \in S
<1> DEFINE T == (0..n) \ S
<1> SUFFICES ASSUME T # {} PROVE FALSE
  OBVIOUS
<1>1. T \in SUBSET Nat
  OBVIOUS
<1>2. PICK m \in T : \A k \in T : m <= k
  <2> HIDE DEF T
  <2> QED
    BY <1>1, LeastNumber
<1>3. m # 0 /\ m \in 0..n /\ m \notin S
  OBVIOUS
<1>4. m - 1 \in 0..n /\ m - 1 < n /\ (m - 1) + 1 = m
  BY <1>3
<1>5. m - 1 \in S
  BY <1>2, <1>4
<1> QED
  BY <1>3, <1>4, <1>5

\* The first k + 1 numbers, as a fold takes them apart.
LEMMA Prefix ==
  ASSUME NEW n \in Nat, NEW k \in 0..n, k < n
  PROVE  /\ k \in Nat /\ k + 1 \in 1..n /\ k + 1 \in 0..n /\ 1..(k + 1) \in SUBSET (1..n) /\ 1..(k + 1) # {}
         /\ Max(1..(k + 1)) = k + 1 /\ (1..(k + 1)) \ {k + 1} = 1..k
<1>1. k \in Nat /\ k + 1 \in 1..n /\ k + 1 \in 0..n /\ k + 1 \in 1..(k + 1) /\ (1..(k + 1)) \ {k + 1} = 1..k
  OBVIOUS
<1>2. \A i \in 1..(k + 1) : i \in 1..n
  OBVIOUS
<1>3. \E x \in 1..(k + 1) : \A y \in 1..(k + 1) : x >= y
  BY <1>1
<1>4. Max(1..(k + 1)) \in 1..(k + 1) /\ \A y \in 1..(k + 1) : Max(1..(k + 1)) >= y
  BY <1>3 DEF Max
<1>5. PICK m \in 1..(k + 1) : m = Max(1..(k + 1)) /\ m >= k + 1
  BY <1>1, <1>4
<1> QED
  BY <1>1, <1>2, <1>5

\* The greatest of some numbers.
LEMMA Greatest ==
  ASSUME NEW n \in Nat, NEW s \in SUBSET (1..n), s # {}
  PROVE  Max(s) \in s /\ \A k \in s : k <= Max(s)
<1> DEFINE T == {n - k : k \in s}
<1>0. \A k \in s : n - k \in Nat
  OBVIOUS
<1>1. T \in SUBSET Nat /\ T # {}
  BY <1>0
<1>2. PICK m \in T : \A k \in T : m <= k
  <2> HIDE DEF T
  <2> QED
    BY <1>1, LeastNumber
<1>3. PICK i \in s : m = n - i
  BY <1>2
<1>4. \A k \in s : i >= k
  BY <1>2, <1>3
<1>5. \E x \in s : \A y \in s : x >= y
  BY <1>4
<1>6. Max(s) \in s /\ \A y \in s : Max(s) >= y
  BY <1>5 DEF Max
<1> QED
  BY <1>6

\* A fold over n places: its steps, the function it is by definition, what is assumed of that
\* function where it is given, and the values it takes one after the other.
Steps(S, n) == [S \X (1..n) -> S]
FoldOf(f, S, n, base, step) ==
  /\ f \in [SUBSET (1..n) -> S]
  /\ f = [s \in SUBSET (1..n) |-> IF s = {} THEN base ELSE step[<<f[s \ {Max(s)}], Max(s)>>]]
Follows(f, S, n, base, step) ==
  /\ f[{}] = base
  /\ \A s \in SUBSET (1..n) : s # {} /\ f[s \ {Max(s)}] \in S => f[s] = step[<<f[s \ {Max(s)}], Max(s)>>]
Turns(v, S, n, base, step) ==
  v \in [0..n -> S] /\ v[0] = base /\ \A k \in 0..n : k < n => v[k + 1] = step[<<v[k], k + 1>>]

\* What a fold of the function step computes exists, and is in the set it works on.
LEMMA FoldExists ==
  ASSUME NEW S, NEW n \in Nat, NEW base \in S, NEW step \in Steps(S, n)
  PROVE  \E f : FoldOf(f, S, n, base, step)
<1>0. step \in [S \X (1..n) -> S]
  BY DEF Steps
<1> DEFINE IsFold(f, k) ==
             /\ f \in [SUBSET (1..k) -> S]
             /\ \A s \in SUBSET (1..k) : f[s] = IF s = {} THEN base ELSE step[<<f[s \ {Max(s)}], Max(s)>>]
           K == {k \in 0..n : \E f : IsFold(f, k)}
<1>1. 0 \in K
  <2> DEFINE f == [s \in SUBSET (1..0) |-> base]
  <2>1. \A s \in SUBSET (1..0) : s = {}
    OBVIOUS
  <2>2. IsFold(f, 0)
    BY <2>1
  <2>3. \E h : IsFold(h, 0)
    <3> HIDE DEF f, IsFold
    <3> QED
      BY <2>2
  <2> QED
    BY <2>3, 0 \in 0..n
<1>2. ASSUME NEW k \in 0..n, k \in K, k < n PROVE k + 1 \in K
  <2> PICK f : IsFold(f, k)
    BY <1>2
  <2> DEFINE more == [s \in SUBSET (1..(k + 1)) |->
                        IF k + 1 \in s THEN step[<<f[s \ {k + 1}], k + 1>>] ELSE f[s]]
  <2>0. k \in Nat /\ k + 1 \in 0..n /\ k + 1 \in 1..n
    BY <1>2
  <2>1. ASSUME NEW s \in SUBSET (1..(k + 1))
        PROVE  /\ more[s] \in S
               /\ more[s] = IF s = {} THEN base ELSE step[<<more[s \ {Max(s)}], Max(s)>>]
    <3>1. CASE k + 1 \in s
      <4>1. Max(s) = k + 1
        <5>1. \E x \in s : \A y \in s : x >= y
          BY <2>0, <3>1
        <5>2. Max(s) \in s /\ \A y \in s : Max(s) >= y
          BY <5>1 DEF Max
        <5>3. PICK m \in 1..(k + 1) : m = Max(s) /\ m >= k + 1
          BY <3>1, <5>2
        <5> QED
          BY <2>0, <5>3
      <4>2. s \ {k + 1} \in SUBSET (1..(k + 1)) /\ k + 1 \notin s \ {k + 1} /\ s \ {k + 1} \in SUBSET (1..k)
        BY <2>0
      <4>3. more[s \ {k + 1}] = f[s \ {k + 1}] /\ f[s \ {k + 1}] \in S
        BY <4>2
      <4>4. more[s] = step[<<f[s \ {k + 1}], k + 1>>]
        BY <3>1
      <4> QED
        BY <1>0, <2>0, <3>1, <4>1, <4>3, <4>4
    <3>2. CASE k + 1 \notin s
      <4>1. s \in SUBSET (1..k)
        BY <2>0, <3>2
      <4>2. more[s] = f[s] /\ f[s] \in S
        BY <3>2, <4>1
      <4>3. more[s \ {Max(s)}] = f[s \ {Max(s)}]
        BY <3>2
      <4>4. f[s] = IF s = {} THEN base ELSE step[<<f[s \ {Max(s)}], Max(s)>>]
        BY <4>1
      <4> QED
        BY <4>2, <4>3, <4>4
    <3> QED
      BY <3>1, <3>2
  <2>2. IsFold(more, k + 1)
    BY <2>1
  <2> QED
    BY <2>0, <2>2
<1>3. \A k \in 0..n : k \in K
  <2> HIDE DEF K
  <2> QED
    BY <1>1, <1>2, UpTo
<1>4. PICK f : IsFold(f, n)
  <2> HIDE DEF IsFold
  <2>1. n \in K
    <3> HIDE DEF K
    <3> QED
      BY <1>3
  <2> QED
    BY <2>1
<1> DEFINE other == [s \in SUBSET (1..n) |-> IF s = {} THEN base ELSE step[<<f[s \ {Max(s)}], Max(s)>>]]
<1>5. \A s \in SUBSET (1..n) : f[s] = other[s]
  BY <1>4
<1>6. f = other
  BY <1>4, <1>5
<1> QED
  BY <1>4, <1>6 DEF FoldOf

\* Nor does it compute anything else, one member after the other.
LEMMA FoldValues ==
  ASSUME NEW S, NEW n \in Nat, NEW base \in S, NEW step \in Steps(S, n), NEW f, Follows(f, S, n, base, step)
  PROVE  \E v : Turns(v, S, n, base, step) /\ v[n] = f[1..n]
<1>0. /\ step \in [S \X (1..n) -> S] /\ f[{}] = base
      /\ \A s \in SUBSET (1..n) : s # {} /\ f[s \ {Max(s)}] \in S => f[s] = step[<<f[s \ {Max(s)}], Max(s)>>]
  BY DEF Steps, Follows
<1> DEFINE v == [k \in 0..n |-> f[1..k]]
           K == {k \in 0..n : v[k] \in S}
<1>1. v[0] = base /\ v[n] = f[1..n]
  <2>1. 1..0 = {}
    OBVIOUS
  <2> QED
    BY <1>0, <2>1
<1>2. ASSUME NEW k \in 0..n, k < n, v[k] \in S PROVE v[k + 1] = step[<<v[k], k + 1>>] /\ v[k + 1] \in S
  <2>1. /\ k + 1 \in 1..n /\ k + 1 \in 0..n /\ 1..(k + 1) \in SUBSET (1..n) /\ 1..(k + 1) # {}
        /\ Max(1..(k + 1)) = k + 1 /\ (1..(k + 1)) \ {k + 1} = 1..k
    BY <1>2, Prefix
  <2>2. f[1..(k + 1)] = step[<<f[1..k], k + 1>>]
    BY <1>0, <1>2, <2>1
  <2> QED
    BY <1>0, <1>2, <2>1, <2>2
<1>3. 0 \in K
  BY <1>1
<1>4. ASSUME NEW k \in 0..n, k \in K, k < n PROVE k + 1 \in K
  <2>1. k + 1 \in 0..n
    BY <1>4, Prefix
  <2> QED
    BY <1>2, <1>4, <2>1
<1>5. \A k \in 0..n : k \in K
  <2> HIDE DEF K
  <2> QED
    BY <1>3, <1>4, UpTo
<1>6. v \in [0..n -> S]
  BY <1>5
<1>7. \A k \in 0..n : k < n => v[k + 1] = step[<<v[k], k + 1>>]
  BY <1>2, <1>5
<1> HIDE DEF v
<1> QED
  BY <1>1, <1>6, <1>7 DEF Turns

-----------------------------------------------------------------------------
(* Statements.                                                             *)

Names == {"value", "path", "first", "second", "limit", "offset", "column1", "column2", "column3", "column4",
          "cte", "having", "update", "parent"}
Vals == (0..MaxConditions) \X Names
Marks == [style : {"$", "?"}, n : Nat, value : Vals]
Statements == [marks : Seq(Marks), args : Seq(Vals), next : Nat, parts : Seq(SUBSET Rows), ok : BOOLEAN]

Texts ==
  [marks : Seq(Marks), args : Seq(Vals), next : Nat, parts : Seq(Seq(Seq(SUBSET Rows))), ok : BOOLEAN, error : BOOLEAN]

\* The placeholders and the arguments belong together, and have numbers from n on.
Numbered(style, n, s) ==
  /\ Len(s.marks) = Len(s.args)
  /\ \A k \in 1..Len(s.marks) : s.marks[k].value = s.args[k] /\ s.marks[k].style = style
  /\ style = "$" => s.next = n + Len(s.marks) /\ \A k \in 1..Len(s.marks) : s.marks[k].n = n + k - 1

\* The placeholders that Place adds.
Placed(next, style, values) == [k \in DOMAIN values |-> [style |-> style, n |-> next + k - 1, value |-> values[k]]]

\* One numbered placeholder for every value.
LEMMA PlacedMarks ==
  ASSUME NEW next \in Nat, NEW style \in {"$", "?"}, NEW values \in Seq(Vals)
  PROVE  /\ Placed(next, style, values) \in Seq(Marks) /\ Len(Placed(next, style, values)) = Len(values)
         /\ \A k \in 1..Len(values) :
              Placed(next, style, values)[k] = [style |-> style, n |-> next + k - 1, value |-> values[k]]
<1> DEFINE more == Placed(next, style, values)
<1>1. DOMAIN values = 1..Len(values) /\ Len(values) \in Nat
  OBVIOUS
<1>2. \A k \in 1..Len(values) : more[k] = [style |-> style, n |-> next + k - 1, value |-> values[k]] /\ more[k] \in Marks
  BY DEF Marks, Placed
<1>3. more \in [1..Len(values) -> Marks]
  BY <1>1, <1>2 DEF Placed
<1> HIDE DEF more
<1>4. more \in Seq(Marks) /\ Len(more) = Len(values)
  BY <1>1, <1>3, IsASeq
<1> QED
  BY <1>2, <1>4 DEF more

\* What Place leaves of a statement.
LEMMA Placing ==
  ASSUME NEW s \in Statements, NEW style \in {"$", "?"}, NEW values \in Seq(Vals)
  PROVE  LET t == Place(s, style, values)
         IN  /\ t \in Statements /\ t.parts = s.parts /\ t.ok = s.ok
             /\ t.marks = s.marks \o Placed(s.next, style, values) /\ t.args = s.args \o values
             /\ t.next = IF style = "?" THEN s.next ELSE s.next + Len(values)
<1> DEFINE next == IF style = "?" THEN s.next ELSE s.next + Len(values)
           t == [marks |-> s.marks \o Placed(s.next, style, values), args |-> s.args \o values, next |-> next,
                 parts |-> s.parts, ok |-> s.ok]
<1>1. s.marks \o Placed(s.next, style, values) \in Seq(Marks) /\ s.args \o values \in Seq(Vals) /\ next \in Nat
  BY PlacedMarks, ConcatProperties DEF Statements
<1>2. Place(s, style, values) =
        [s EXCEPT !.marks = @ \o Placed(s.next, style, values), !.args = @ \o values, !.next = IF style = "?" THEN @ ELSE @ + Len(values)]
  BY DEF Place, Placed
<1>3. t = Place(s, style, values)
  BY <1>2 DEF Statements
<1>4. t \in Statements
  BY <1>1 DEF Statements
<1>5. /\ t.parts = s.parts /\ t.ok = s.ok /\ t.next = next
      /\ t.marks = s.marks \o Placed(s.next, style, values) /\ t.args = s.args \o values
  OBVIOUS
<1> HIDE DEF t
<1> QED
  BY <1>3, <1>4, <1>5

\* The elements of two sequences put together.
LEMMA Concatenation ==
  ASSUME NEW S, NEW a \in Seq(S), NEW b \in Seq(S)
  PROVE  /\ a \o b \in Seq(S) /\ Len(a) \in Nat /\ Len(b) \in Nat /\ Len(a \o b) = Len(a) + Len(b)
         /\ \A k \in 1..Len(a) : (a \o b)[k] = a[k]
         /\ \A k \in 1..Len(b) : (a \o b)[Len(a) + k] = b[k]
         /\ \A k \in 1..Len(a \o b) : k \in 1..Len(a) \/ \E i \in 1..Len(b) : k = Len(a) + i
<1>1. /\ a \o b \in Seq(S) /\ Len(a \o b) = Len(a) + Len(b) /\ Len(a) \in Nat /\ Len(b) \in Nat
      /\ \A i \in 1 .. Len(a) + Len(b) : (a \o b)[i] = IF i <= Len(a) THEN a[i] ELSE b[i - Len(a)]
  BY ConcatProperties
<1>2. ASSUME NEW k \in 1..Len(b) PROVE (a \o b)[Len(a) + k] = b[k]
  <2>1. Len(a) + k \in 1 .. Len(a) + Len(b) /\ ~(Len(a) + k <= Len(a)) /\ (Len(a) + k) - Len(a) = k
    BY <1>1
  <2> QED
    BY <1>1, <2>1
<1>3. ASSUME NEW k \in 1..Len(a \o b), k \notin 1..Len(a) PROVE \E i \in 1..Len(b) : k = Len(a) + i
  <2>1. k - Len(a) \in 1..Len(b) /\ k = Len(a) + (k - Len(a))
    BY <1>1, <1>3
  <2> QED
    BY <2>1
<1> QED
  BY <1>1, <1>2, <1>3

\* Numbers go on where they are: two parts, one behind the other.
LEMMA JoinedNumbered ==
  ASSUME NEW n \in Nat, NEW style \in {"$", "?"}, NEW s, NEW t, NEW u,
         s.marks \in Seq(Marks), s.args \in Seq(Vals), t.marks \in Seq(Marks), t.args \in Seq(Vals),
         Numbered(style, n, s), Numbered(style, s.next, t), s.next \in Nat,
         u.marks = s.marks \o t.marks, u.args = s.args \o t.args, style = "$" => u.next = t.next
  PROVE  Numbered(style, n, u)
<1>1. /\ Len(s.marks) = Len(s.args) /\ Len(t.marks) = Len(t.args)
      /\ \A k \in 1..Len(s.marks) : s.marks[k].value = s.args[k] /\ s.marks[k].style = style
      /\ \A k \in 1..Len(t.marks) : t.marks[k].value = t.args[k] /\ t.marks[k].style = style
      /\ style = "$" => /\ s.next = n + Len(s.marks) /\ t.next = s.next + Len(t.marks)
                        /\ \A k \in 1..Len(s.marks) : s.marks[k].n = n + k - 1
                        /\ \A k \in 1..Len(t.marks) : t.marks[k].n = s.next + k - 1
  BY DEF Numbered
<1>2. /\ Len(u.marks) = Len(s.marks) + Len(t.marks) /\ Len(u.args) = Len(s.args) + Len(t.args)
      /\ \A k \in 1..Len(s.marks) : u.marks[k] = s.marks[k]
      /\ \A k \in 1..Len(t.marks) : u.marks[Len(s.marks) + k] = t.marks[k]
      /\ \A k \in 1..Len(s.args) : u.args[k] = s.args[k]
      /\ \A k \in 1..Len(t.args) : u.args[Len(s.args) + k] = t.args[k]
      /\ \A k \in 1..Len(u.marks) : k \in 1..Len(s.marks) \/ \E i \in 1..Len(t.marks) : k = Len(s.marks) + i
      /\ Len(s.marks) \in Nat /\ Len(t.marks) \in Nat
  <2> DEFINE a == s.marks
             b == t.marks
             c == s.args
             d == t.args
  <2>1. a \in Seq(Marks) /\ b \in Seq(Marks) /\ c \in Seq(Vals) /\ d \in Seq(Vals) /\ u.marks = a \o b /\ u.args = c \o d
    OBVIOUS
  <2> HIDE DEF a, b, c, d
  <2>2. /\ Len(u.marks) = Len(a) + Len(b) /\ Len(a) \in Nat /\ Len(b) \in Nat
        /\ \A k \in 1..Len(a) : u.marks[k] = a[k]
        /\ \A k \in 1..Len(b) : u.marks[Len(a) + k] = b[k]
        /\ \A k \in 1..Len(u.marks) : k \in 1..Len(a) \/ \E i \in 1..Len(b) : k = Len(a) + i
    BY <2>1, Concatenation
  <2>3. /\ Len(u.args) = Len(c) + Len(d)
        /\ \A k \in 1..Len(c) : u.args[k] = c[k]
        /\ \A k \in 1..Len(d) : u.args[Len(c) + k] = d[k]
    BY <2>1, Concatenation
  <2> QED
    BY <2>2, <2>3 DEF a, b, c, d
<1>3. ASSUME NEW k \in 1..Len(u.marks)
      PROVE  u.marks[k].value = u.args[k] /\ u.marks[k].style = style /\ (style = "$" => u.marks[k].n = n + k - 1)
  <2>1. CASE k \in 1..Len(s.marks)
    <3>1. u.marks[k] = s.marks[k] /\ u.args[k] = s.args[k]
      BY <1>1, <1>2, <2>1
    <3> QED
      BY <1>1, <2>1, <3>1
  <2>2. ASSUME NEW i \in 1..Len(t.marks), k = Len(s.marks) + i
        PROVE  u.marks[k].value = u.args[k] /\ u.marks[k].style = style /\ (style = "$" => u.marks[k].n = n + k - 1)
    <3>1. u.marks[k] = t.marks[i] /\ u.args[k] = t.args[i]
      BY <1>1, <1>2, <2>2
    <3>2. style = "$" => (n + Len(s.marks)) + i - 1 = n + k - 1
      BY <1>2, <2>2
    <3> QED
      BY <1>1, <2>2, <3>1, <3>2
  <2> QED
    BY <1>2, <2>1, <2>2
<1>4. Len(u.marks) = Len(u.args)
  BY <1>1, <1>2
<1>5. ASSUME style = "$" PROVE u.next = n + Len(u.marks)
  <2>1. s.next = n + Len(s.marks) /\ t.next = s.next + Len(t.marks) /\ u.next = t.next
    BY <1>1, <1>5
  <2>2. (n + Len(s.marks)) + Len(t.marks) = n + (Len(s.marks) + Len(t.marks))
    <3>1. \A a, b, c \in Nat : (a + b) + c = a + (b + c)
      OBVIOUS
    <3> QED
      BY <1>2, <3>1
  <2> QED
    BY <1>2, <2>1, <2>2
<1> QED
  BY <1>3, <1>4, <1>5 DEF Numbered

\* What is placed has numbers from next on; the numbers of question marks do not matter.
LEMMA PlacedNumbered ==
  ASSUME NEW n \in Nat, NEW style \in {"$", "?"}, NEW values \in Seq(Vals), NEW s, NEW t, NEW next \in Nat,
         s.marks \in Seq(Marks), s.args \in Seq(Vals), s.next \in Nat, Numbered(style, n, s),
         t.marks = s.marks \o Placed(next, style, values), t.args = s.args \o values,
         style = "$" => next = s.next /\ t.next = next + Len(values)
  PROVE  Numbered(style, n, t)
<1> DEFINE more == [marks |-> Placed(next, style, values), args |-> values, next |-> t.next]
<1>1. /\ more.marks \in Seq(Marks) /\ Len(more.marks) = Len(values) /\ more.args = values /\ more.next = t.next
      /\ \A k \in 1..Len(values) : more.marks[k] = [style |-> style, n |-> next + k - 1, value |-> values[k]]
  BY PlacedMarks
<1>2. t.marks = s.marks \o more.marks /\ t.args = s.args \o more.args
  OBVIOUS
<1> HIDE DEF more
<1>3. Numbered(style, s.next, more)
  <2>1. ASSUME NEW k \in 1..Len(more.marks)
        PROVE  more.marks[k].value = more.args[k] /\ more.marks[k].style = style /\ more.marks[k].n = next + k - 1
    <3>1. k \in 1..Len(values)
      BY <1>1
    <3>2. more.marks[k] = [style |-> style, n |-> next + k - 1, value |-> values[k]]
      BY <1>1, <3>1
    <3> QED
      BY <1>1, <3>2
  <2>2. ASSUME style = "$" PROVE next = s.next /\ more.next = s.next + Len(more.marks)
    BY <1>1, <2>2
  <2> QED
    BY <1>1, <2>1, <2>2 DEF Numbered
<1> QED
  BY <1>1, <1>2, <1>3, JoinedNumbered

-----------------------------------------------------------------------------
(* Conditions.                                                             *)

Databases == {"postgresql", "mysql", "sqlite"}
Generators == [provider : Databases, style : {"$", "?"}, dialect : Databases]

\* The values a condition asks for.
Needed(i, kind, g) == [k \in DOMAIN Asks(kind, g) |-> <<i, Asks(kind, g)[k]>>]

\* A condition binds a sequence of values.
LEMMA NeededValues ==
  ASSUME NEW i \in 1..MaxConditions, NEW kind \in Kinds, NEW g \in Generators
  PROVE  Needed(i, kind, g) \in Seq(Vals)
<1>1. /\ kind = "jsonPath" /\ g.dialect = "postgresql" => Asks(kind, g) = <<"value">>
      /\ kind = "jsonPath" /\ g.dialect # "postgresql" => Asks(kind, g) = <<"path", "value">>
      /\ kind = "jsonArray" /\ g.dialect = "mysql" => Asks(kind, g) = <<"value", "path">>
      /\ kind = "jsonArray" /\ g.dialect # "mysql" => Asks(kind, g) = <<"value">>
      /\ kind = "in" => Asks(kind, g) = <<"first", "second">>
      /\ kind \in {"value", "subquery"} => Asks(kind, g) = <<"value">>
      /\ kind \in {"isNull", "isNotNull", "inEmpty", "notInEmpty"} => Asks(kind, g) = <<>>
  BY DEF Asks, buildJsonCondition
<1>2. Asks(kind, g) \in {<<>>, <<"value">>, <<"path", "value">>, <<"value", "path">>, <<"first", "second">>}
  BY <1>1 DEF Kinds
<1>3. <<>> \in Seq(Names) /\ \A a, b \in Names : <<a>> \in Seq(Names) /\ <<a, b>> \in Seq(Names)
  OBVIOUS
<1>4. Asks(kind, g) \in Seq(Names)
  <2>1. {"value", "path", "first", "second"} \subseteq Names
    BY DEF Names
  <2> QED
    BY <1>2, <1>3, <2>1
<1> DEFINE names == Asks(kind, g)
<1>5. Len(names) \in Nat /\ DOMAIN names = 1..Len(names) /\ \A k \in 1..Len(names) : names[k] \in Names
  BY <1>4
<1> HIDE DEF names
<1>6. i \in 0..MaxConditions
  BY ConditionsAssumption
<1>7. [k \in DOMAIN names |-> <<i, names[k]>>] \in [1..Len(names) -> Vals]
  BY <1>5, <1>6 DEF Vals
<1>8. [k \in DOMAIN names |-> <<i, names[k]>>] \in Seq(Vals)
  BY <1>5, <1>7, IsASeq
<1> QED
  BY <1>8 DEF Needed, names

\* What a part with numbers of its own adds.
LEMMA Embedding ==
  ASSUME NEW s \in Statements, NEW style \in {"$", "?"}, NEW values \in Seq(Vals)
  PROVE  LET t == Embed(s, style, values)
         IN  /\ t \in Statements /\ t.parts = s.parts /\ t.ok = s.ok /\ t.next = s.next
             /\ t.marks = s.marks \o Placed(1, style, values) /\ t.args = s.args \o values
<1> DEFINE t == [marks |-> s.marks \o Placed(1, style, values), args |-> s.args \o values, next |-> s.next,
                 parts |-> s.parts, ok |-> s.ok]
           own == [k \in DOMAIN values |-> [style |-> style, n |-> k, value |-> values[k]]]
<1>0. own = Placed(1, style, values)
  <2>1. DOMAIN values = 1..Len(values)
    OBVIOUS
  <2>2. \A k \in DOMAIN values : 1 + k - 1 = k
    BY <2>1
  <2> QED
    BY <2>2 DEF Placed
<1>1. s.marks \o Placed(1, style, values) \in Seq(Marks) /\ s.args \o values \in Seq(Vals)
  BY PlacedMarks, ConcatProperties DEF Statements
<1>2. Embed(s, style, values) = [s EXCEPT !.marks = @ \o own, !.args = @ \o values]
  BY DEF Embed
<1>3. t = Embed(s, style, values)
  <2> HIDE DEF own
  <2> QED
    BY <1>0, <1>2 DEF Statements
<1>4. t \in Statements
  BY <1>1 DEF Statements
<1>5. /\ t.parts = s.parts /\ t.ok = s.ok /\ t.next = s.next
      /\ t.marks = s.marks \o Placed(1, style, values) /\ t.args = s.args \o values
  OBVIOUS
<1> HIDE DEF t
<1> QED
  BY <1>3, <1>4, <1>5

\* Refusing changes only what the database says of a statement.
LEMMA RefusedStatement ==
  ASSUME NEW s \in Statements, NEW refused \in BOOLEAN
  PROVE  LET t == Refused(s, refused)
         IN  /\ t \in Statements /\ t.marks = s.marks /\ t.args = s.args /\ t.next = s.next /\ t.parts = s.parts
             /\ (t.ok <=> s.ok /\ ~refused)
BY DEF Refused, Statements

\* What a condition adds to a statement.
LEMMA ConditionBuilt ==
  ASSUME NEW s \in Statements, NEW i \in 1..MaxConditions, NEW kind \in Kinds, NEW g \in Generators, NEW n \in Nat
  PROVE  LET t == buildCondition(s, i, kind, g)
         IN  /\ t \in Statements
             /\ t.parts = IF kind \in {"inEmpty", "notInEmpty"} THEN s.parts ELSE Append(s.parts, Leaves(i, kind, g))
             /\ (t.ok <=> s.ok /\ ~(kind = "jsonArray" /\ g.provider = "sqlite" /\ g.dialect = "postgresql"))
             /\ (kind = "subquery" => g.provider = "mysql" /\ g.style = "?") =>
                  (Numbered(g.style, n, s) => Numbered(g.style, n, t))
<1> DEFINE t == buildCondition(s, i, kind, g)
           values == Needed(i, kind, g)
           own == Embed(s, Own(g.provider), values)
           placed == IF kind = "subquery" THEN [own EXCEPT !.next = @ + Len(values)] ELSE Place(s, g.style, values)
           more == [placed EXCEPT !.parts = Append(@, Leaves(i, kind, g))]
           refused == kind = "jsonArray" /\ g.provider = "sqlite" /\ g.dialect = "postgresql"
<1>1. values \in Seq(Vals) /\ Len(values) \in Nat
  BY NeededValues
<1>2. Leaves(i, kind, g) \in SUBSET Rows
  BY DEF Leaves, Meant
<1>3. t = IF kind \in {"inEmpty", "notInEmpty"} THEN s ELSE Refused(more, refused)
  BY DEF buildCondition, Needed
<1>4. g.style \in {"$", "?"} /\ Own(g.provider) \in {"$", "?"} /\ (g.provider = "mysql" => Own(g.provider) = "?")
  BY DEF Generators, Own
<1> HIDE DEF values, t
<1>5. /\ placed \in Statements /\ placed.parts = s.parts /\ placed.ok = s.ok
      /\ (kind = "subquery" => g.provider = "mysql" /\ g.style = "?") =>
           (Numbered(g.style, n, s) => Numbered(g.style, n, placed))
  <2>0. s.marks \in Seq(Marks) /\ s.args \in Seq(Vals) /\ s.next \in Nat
    BY DEF Statements
  <2>1. CASE kind = "subquery"
    <3>1. /\ own \in Statements /\ own.parts = s.parts /\ own.ok = s.ok
          /\ own.marks = s.marks \o Placed(1, Own(g.provider), values) /\ own.args = s.args \o values
      BY <1>1, <1>4, Embedding
    <3> HIDE DEF own
    <3>2. /\ placed \in Statements /\ placed.parts = s.parts /\ placed.ok = s.ok
          /\ placed.marks = s.marks \o Placed(1, Own(g.provider), values) /\ placed.args = s.args \o values
      <4>1. placed = [own EXCEPT !.next = @ + Len(values)]
        BY <2>1
      <4>2. own.next + Len(values) \in Nat
        BY <1>1, <3>1 DEF Statements
      <4> HIDE DEF placed
      <4> QED
        BY <3>1, <4>1, <4>2 DEF Statements
    <3> HIDE DEF placed
    <3>3. ASSUME g.provider = "mysql", g.style = "?", Numbered(g.style, n, s) PROVE Numbered(g.style, n, placed)
      <4>1. placed.marks = s.marks \o Placed(1, g.style, values) /\ g.style # "$"
        BY <1>4, <3>2, <3>3
      <4> QED
        BY <1>1, <1>4, <2>0, <3>2, <3>3, <4>1, PlacedNumbered
    <3> QED
      BY <2>1, <3>2, <3>3
  <2>2. CASE kind # "subquery"
    <3>1. placed = Place(s, g.style, values)
      BY <2>2
    <3> HIDE DEF placed
    <3>2. /\ placed \in Statements /\ placed.parts = s.parts /\ placed.ok = s.ok
          /\ placed.marks = s.marks \o Placed(s.next, g.style, values) /\ placed.args = s.args \o values
          /\ placed.next = IF g.style = "?" THEN s.next ELSE s.next + Len(values)
      BY <1>1, <1>4, <3>1, Placing
    <3>3. ASSUME Numbered(g.style, n, s) PROVE Numbered(g.style, n, placed)
      <4>1. g.style = "$" => placed.next = s.next + Len(values)
        BY <3>2
      <4> QED
        BY <1>1, <1>4, <2>0, <3>2, <3>3, <4>1, PlacedNumbered
    <3> QED
      BY <3>2, <3>3
  <2> QED
    BY <2>1, <2>2
<1> HIDE DEF placed
<1>6. /\ more \in Statements /\ more.parts = Append(s.parts, Leaves(i, kind, g)) /\ more.ok = s.ok
      /\ more.marks = placed.marks /\ more.args = placed.args /\ more.next = placed.next
  <2> DEFINE rows == Leaves(i, kind, g)
  <2> HIDE DEF rows
  <2>1. rows \in SUBSET Rows /\ more = [placed EXCEPT !.parts = Append(@, rows)]
    BY <1>2 DEF rows
  <2>2. Append(placed.parts, rows) \in Seq(SUBSET Rows)
    BY <1>5, <2>1, AppendProperties DEF Statements
  <2> HIDE DEF more
  <2>3. /\ more \in Statements /\ more.parts = Append(s.parts, rows) /\ more.ok = s.ok
        /\ more.marks = placed.marks /\ more.args = placed.args /\ more.next = placed.next
    BY <1>5, <2>1, <2>2 DEF Statements
  <2> QED
    BY <2>3 DEF rows
<1> HIDE DEF more
<1>7. /\ Refused(more, refused) \in Statements /\ Refused(more, refused).parts = more.parts
      /\ (Refused(more, refused).ok <=> s.ok /\ ~refused)
      /\ Refused(more, refused).marks = placed.marks /\ Refused(more, refused).args = placed.args
      /\ Refused(more, refused).next = placed.next
  BY <1>6, RefusedStatement
<1>8. Numbered(g.style, n, placed) => Numbered(g.style, n, Refused(more, refused))
  BY <1>7 DEF Numbered
<1> DEFINE Built == /\ t \in Statements
                    /\ t.parts = IF kind \in {"inEmpty", "notInEmpty"} THEN s.parts ELSE Append(s.parts, Leaves(i, kind, g))
                    /\ (t.ok <=> s.ok /\ ~refused)
                    /\ (kind = "subquery" => g.provider = "mysql" /\ g.style = "?") =>
                         (Numbered(g.style, n, s) => Numbered(g.style, n, t))
<1>9. ASSUME kind \in {"inEmpty", "notInEmpty"} PROVE Built
  <2>1. t = s /\ ~refused
    BY <1>3, <1>9
  <2>2. s.ok \in BOOLEAN
    BY DEF Statements
  <2> QED
    BY <1>9, <2>1, <2>2
<1>10. ASSUME kind \notin {"inEmpty", "notInEmpty"} PROVE Built
  <2>1. t = Refused(more, refused)
    BY <1>3, <1>10
  <2> HIDE DEF refused
  <2> QED
    BY <1>5, <1>6, <1>7, <1>8, <1>10, <2>1
<1>11. Built
  BY <1>9, <1>10
<1> QED
  BY <1>11 DEF t

-----------------------------------------------------------------------------
(* Clauses.                                                                *)

Conditioned(s, list, ks, g) == FoldLeft(LAMBDA t, i : buildCondition(t, i, ks[i], g), s, list)

\* The values that a statement takes with one condition after the other.
ConditionTurns(v, S, s, list, ks, g) ==
  /\ v \in [0..Len(list) -> S]
  /\ v[0] = s /\ v[Len(list)] = Conditioned(s, list, ks, g)
  /\ \A k \in 0..Len(list) : k < Len(list) =>
       v[k + 1] = buildCondition(v[k], list[k + 1], ks[list[k + 1]], g)

\* The conditions of a clause, one after the other, with what each keeps.
LEMMA ConditionsInTurn ==
  ASSUME NEW ks, NEW D, NEW list \in Seq(D), NEW g, NEW S, NEW s \in S,
         \A t \in S, i \in D : buildCondition(t, i, ks[i], g) \in S
  PROVE  \E v : ConditionTurns(v, S, s, list, ks, g)
<1> DEFINE n == Len(list)
           step == [x \in S \X (1..n) |-> buildCondition(x[1], list[x[2]], ks[list[x[2]]], g)]
           IsFold(h) == h = [c \in SUBSET (1..n) |->
                              IF c = {} THEN s
                              ELSE buildCondition(h[c \ {Max(c)}], list[Max(c)], ks[list[Max(c)]], g)]
           f == CHOOSE h : IsFold(h)
<1>0. n \in Nat /\ DOMAIN list = 1..n /\ n = Len(list)
  OBVIOUS
<1>1. \A k \in 1..n : list[k] \in D
  BY <1>0
<1> HIDE DEF n
<1>2. step \in Steps(S, n)
  BY <1>1 DEF Steps
<1>3. \A t \in S, k \in 1..n : step[<<t, k>>] = buildCondition(t, list[k], ks[list[k]], g)
  OBVIOUS
<1> HIDE DEF step
<1>m. \A c \in SUBSET (1..n) : c # {} => Max(c) \in 1..n /\ c \ {Max(c)} \in SUBSET (1..n)
  BY <1>0, Greatest
<1>4. \E h : IsFold(h)
  <2> PICK h : FoldOf(h, S, n, s, step)
    BY <1>0, <1>2, FoldExists
  <2>1. /\ h \in [SUBSET (1..n) -> S]
        /\ h = [c \in SUBSET (1..n) |-> IF c = {} THEN s ELSE step[<<h[c \ {Max(c)}], Max(c)>>]]
    BY DEF FoldOf
  <2> DEFINE other == [c \in SUBSET (1..n) |->
                        IF c = {} THEN s
                        ELSE buildCondition(h[c \ {Max(c)}], list[Max(c)], ks[list[Max(c)]], g)]
  <2>2. ASSUME NEW c \in SUBSET (1..n) PROVE h[c] = other[c]
    BY <1>3, <1>m, <2>1
  <2>3. h = other
    BY <2>1, <2>2
  <2>4. IsFold(h)
    BY <2>3
  <2> HIDE DEF IsFold
  <2> QED
    BY <2>4
<1>5. IsFold(f)
  BY <1>4
<1>6. Conditioned(s, list, ks, g) = f[1..n]
  BY <1>0 DEF Conditioned, FoldLeft, MapThenFoldSet
<1> HIDE DEF f
<1>7. Follows(f, S, n, s, step)
  BY <1>3, <1>5, <1>m DEF Follows
<1> HIDE DEF IsFold
<1>8. PICK v : Turns(v, S, n, s, step) /\ v[n] = f[1..n]
  BY <1>0, <1>2, <1>7, FoldValues
<1>9. v \in [0..n -> S] /\ v[0] = s /\ \A k \in 0..n : k < n => v[k + 1] = step[<<v[k], k + 1>>]
  BY <1>8 DEF Turns
<1>10. ASSUME NEW k \in 0..n, k < n PROVE v[k + 1] = buildCondition(v[k], list[k + 1], ks[list[k + 1]], g)
  <2>1. k + 1 \in 1..n /\ v[k] \in S
    BY <1>0, <1>9, <1>10, Prefix
  <2> QED
    BY <1>3, <1>9, <1>10, <2>1
<1> QED
  BY <1>0, <1>6, <1>8, <1>9, <1>10 DEF ConditionTurns

Grouped(s, list, groups) == FoldLeft(LAMBDA t, id : Add(t, groups[<<id, t.next>>]), s, list)

\* What each condition keeps of a statement, all of them keep.
LEMMA ConditionsKeep ==
  ASSUME NEW ks, NEW D, NEW list \in Seq(D), NEW g, NEW S, NEW s \in S,
         \A t \in S, i \in D : buildCondition(t, i, ks[i], g) \in S
  PROVE  Conditioned(s, list, ks, g) \in S
<1>1. PICK v : ConditionTurns(v, S, s, list, ks, g)
  BY ConditionsInTurn
<1>2. Len(list) \in 0..Len(list)
  OBVIOUS
<1> QED
  BY <1>1, <1>2 DEF ConditionTurns

\* The values that a statement takes with one group after the other.
GroupTurns(v, S, s, list, groups) ==
  /\ v \in [0..Len(list) -> S]
  /\ v[0] = s /\ v[Len(list)] = Grouped(s, list, groups)
  /\ \A k \in 0..Len(list) : k < Len(list) => v[k + 1] = Add(v[k], groups[<<list[k + 1], v[k].next>>])

\* The groups of a clause, one after the other.
LEMMA GroupsInTurn ==
  ASSUME NEW G, NEW list \in Seq(G), NEW groups, NEW S, NEW s \in S,
         \A t \in S, id \in G : Add(t, groups[<<id, t.next>>]) \in S
  PROVE  \E v : GroupTurns(v, S, s, list, groups)
<1> DEFINE n == Len(list)
           step == [x \in S \X (1..n) |-> Add(x[1], groups[<<list[x[2]], x[1].next>>])]
           IsFold(h) == h = [c \in SUBSET (1..n) |->
                              IF c = {} THEN s
                              ELSE Add(h[c \ {Max(c)}], groups[<<list[Max(c)], h[c \ {Max(c)}].next>>])]
           f == CHOOSE h : IsFold(h)
<1>0. n \in Nat /\ DOMAIN list = 1..n /\ n = Len(list)
  OBVIOUS
<1>1. \A k \in 1..n : list[k] \in G
  BY <1>0
<1> HIDE DEF n
<1>2. step \in Steps(S, n)
  BY <1>1 DEF Steps
<1>3. \A t \in S, k \in 1..n : step[<<t, k>>] = Add(t, groups[<<list[k], t.next>>])
  OBVIOUS
<1> HIDE DEF step
<1>m. \A c \in SUBSET (1..n) : c # {} => Max(c) \in 1..n /\ c \ {Max(c)} \in SUBSET (1..n)
  BY <1>0, Greatest
<1>4. \E h : IsFold(h)
  <2> PICK h : FoldOf(h, S, n, s, step)
    BY <1>0, <1>2, FoldExists
  <2>1. /\ h \in [SUBSET (1..n) -> S]
        /\ h = [c \in SUBSET (1..n) |-> IF c = {} THEN s ELSE step[<<h[c \ {Max(c)}], Max(c)>>]]
    BY DEF FoldOf
  <2> DEFINE other == [c \in SUBSET (1..n) |->
                        IF c = {} THEN s
                        ELSE Add(h[c \ {Max(c)}], groups[<<list[Max(c)], h[c \ {Max(c)}].next>>])]
  <2>2. ASSUME NEW c \in SUBSET (1..n) PROVE h[c] = other[c]
    BY <1>3, <1>m, <2>1
  <2>3. h = other
    BY <2>1, <2>2
  <2>4. IsFold(h)
    BY <2>3
  <2> HIDE DEF IsFold
  <2> QED
    BY <2>4
<1>5. IsFold(f)
  BY <1>4
<1>6. Grouped(s, list, groups) = f[1..n]
  BY <1>0 DEF Grouped, FoldLeft, MapThenFoldSet
<1> HIDE DEF f
<1>7. Follows(f, S, n, s, step)
  BY <1>3, <1>5, <1>m DEF Follows
<1> HIDE DEF IsFold
<1>8. PICK v : Turns(v, S, n, s, step) /\ v[n] = f[1..n]
  BY <1>0, <1>2, <1>7, FoldValues
<1>9. v \in [0..n -> S] /\ v[0] = s /\ \A k \in 0..n : k < n => v[k + 1] = step[<<v[k], k + 1>>]
  BY <1>8 DEF Turns
<1>10. ASSUME NEW k \in 0..n, k < n PROVE v[k + 1] = Add(v[k], groups[<<list[k + 1], v[k].next>>])
  <2>1. k + 1 \in 1..n /\ v[k] \in S
    BY <1>0, <1>9, <1>10, Prefix
  <2> QED
    BY <1>3, <1>9, <1>10, <2>1
<1> QED
  BY <1>0, <1>6, <1>8, <1>9, <1>10 DEF GroupTurns

\* What each group keeps of a statement, all of them keep.
LEMMA GroupsKeep ==
  ASSUME NEW G, NEW list \in Seq(G), NEW groups, NEW S, NEW s \in S,
         \A t \in S, id \in G : Add(t, groups[<<id, t.next>>]) \in S
  PROVE  Grouped(s, list, groups) \in S
<1>1. PICK v : GroupTurns(v, S, s, list, groups)
  BY GroupsInTurn
<1>2. Len(list) \in 0..Len(list)
  OBVIOUS
<1> QED
  BY <1>1, <1>2 DEF GroupTurns

\* How a statement stands from argIndex n on.
Standing(g, n) == {s \in Statements : Numbered(g.style, n, s) /\ s.ok}

\* Conditions that the generator gets right.
Fits(ks, g) ==
  \A i \in DOMAIN ks : /\ ks[i] = "subquery" => g.provider = "mysql" /\ g.style = "?"
                       /\ ~(ks[i] = "jsonArray" /\ g.provider = "sqlite" /\ g.dialect = "postgresql")

\* An empty statement numbered from n is in order.
LEMMA StartStands ==
  ASSUME NEW g \in Generators, NEW n \in Nat
  PROVE  From(n) \in Standing(g, n) /\ From(n).parts = <<>> /\ From(n).next = n
<1>1. From(n) = [marks |-> <<>>, args |-> <<>>, next |-> n, parts |-> <<>>, ok |-> TRUE]
  <2>1. Start = [marks |-> <<>>, args |-> <<>>, next |-> 1, parts |-> <<>>, ok |-> TRUE]
    BY DEF Start
  <2>2. \A a, b, c, d : [[marks |-> a, args |-> b, next |-> 1, parts |-> c, ok |-> d] EXCEPT !.next = n]
          = [marks |-> a, args |-> b, next |-> n, parts |-> c, ok |-> d]
    OBVIOUS
  <2>3. From(n) = [Start EXCEPT !.next = n]
    BY DEF From
  <2>4. \A a, b, c, d, s : s = [marks |-> a, args |-> b, next |-> 1, parts |-> c, ok |-> d] =>
          [s EXCEPT !.next = n] = [marks |-> a, args |-> b, next |-> n, parts |-> c, ok |-> d]
    OBVIOUS
  <2> QED
    BY <2>1, <2>3, <2>4, Zenon
<1>2. <<>> \in Seq(Marks) /\ <<>> \in Seq(Vals) /\ <<>> \in Seq(SUBSET Rows) /\ Len(<<>>) = 0
  OBVIOUS
<1>3. From(n) \in Statements /\ From(n).ok
  BY <1>1, <1>2 DEF Statements
<1>4. Numbered(g.style, n, From(n))
  BY <1>1, <1>2 DEF Numbered
<1> QED
  BY <1>1, <1>3, <1>4 DEF Standing

\* A piece that goes on where the statement is.
LEMMA AddStands ==
  ASSUME NEW g \in Generators, NEW n \in Nat, NEW s \in Standing(g, n), NEW piece \in Standing(g, s.next)
  PROVE  /\ Add(s, piece) \in Standing(g, n) /\ Add(s, piece).parts = s.parts \o piece.parts
         /\ Add(s, piece).next = piece.next
<1> DEFINE t == [marks |-> s.marks \o piece.marks, args |-> s.args \o piece.args, next |-> piece.next,
                 parts |-> s.parts \o piece.parts, ok |-> TRUE]
<1>1. /\ s \in Statements /\ piece \in Statements /\ s.ok /\ piece.ok
      /\ Numbered(g.style, n, s) /\ Numbered(g.style, s.next, piece)
  BY DEF Standing
<1>2. /\ s.marks \in Seq(Marks) /\ piece.marks \in Seq(Marks) /\ s.args \in Seq(Vals) /\ piece.args \in Seq(Vals)
      /\ s.parts \in Seq(SUBSET Rows) /\ piece.parts \in Seq(SUBSET Rows) /\ s.next \in Nat /\ piece.next \in Nat
  BY <1>1 DEF Statements
<1>3. Add(s, piece) = t
  <2>1. (s.ok /\ piece.ok) = TRUE
    BY <1>1
  <2>2. Add(s, piece) = [s EXCEPT !.marks = @ \o piece.marks, !.args = @ \o piece.args, !.next = piece.next,
                                  !.parts = @ \o piece.parts, !.ok = TRUE]
    <3>1. s.ok = TRUE /\ piece.ok = TRUE
      BY <1>1 DEF Statements
    <3> QED
      BY <3>1 DEF Add
  <2> QED
    BY <1>1, <2>2 DEF Statements
<1>4. s.marks \o piece.marks \in Seq(Marks) /\ s.args \o piece.args \in Seq(Vals) /\ s.parts \o piece.parts \in Seq(SUBSET Rows)
  BY <1>2, ConcatProperties
<1>5. t \in Statements /\ t.ok
  BY <1>1, <1>2, <1>4 DEF Statements
<1>6. /\ t.marks = s.marks \o piece.marks /\ t.args = s.args \o piece.args /\ t.next = piece.next
      /\ t.parts = s.parts \o piece.parts
  OBVIOUS
<1> HIDE DEF t
<1>7. Numbered(g.style, n, t)
  <2>1. g.style \in {"$", "?"}
    BY DEF Generators
  <2> QED
    BY <1>1, <1>2, <1>6, <2>1, JoinedNumbered
<1> QED
  BY <1>3, <1>5, <1>6, <1>7 DEF Standing

\* A clause stands where its groups do.
LEMMA ClauseStands ==
  ASSUME NEW ks \in Seq(Kinds), Len(ks) <= MaxConditions, NEW g \in Generators, Fits(ks, g), NEW n \in Nat,
         NEW G, NEW w, w.conditions \in Seq(DOMAIN ks), w.groups \in Seq(G),
         NEW groups, \A id \in G, next \in Nat : groups[<<id, next>>] \in Standing(g, next)
  PROVE  buildClause(w, groups, n, ks, g) \in Standing(g, n)
<1> DEFINE direct == Conditioned(From(n), w.conditions, ks, g)
           whole == Grouped(direct, w.groups, groups)
           rows == Joined(Range(whole.parts), w.operator)
           t == [whole EXCEPT !.parts = IF @ = <<>> THEN <<>> ELSE <<IF w.isNot THEN Rows \ rows ELSE rows>>]
<1>1. direct \in Standing(g, n)
  <2>1. ASSUME NEW s \in Standing(g, n), NEW i \in DOMAIN ks PROVE buildCondition(s, i, ks[i], g) \in Standing(g, n)
    <3>1. i \in 1..MaxConditions /\ ks[i] \in Kinds
      BY ConditionsAssumption
    <3>2. s \in Statements /\ Numbered(g.style, n, s) /\ s.ok
      BY DEF Standing
    <3>3. /\ ks[i] = "subquery" => g.provider = "mysql" /\ g.style = "?"
          /\ ~(ks[i] = "jsonArray" /\ g.provider = "sqlite" /\ g.dialect = "postgresql")
      BY DEF Fits
    <3> DEFINE kind == ks[i]
               u == buildCondition(s, i, kind, g)
    <3>4. /\ u \in Statements
          /\ (u.ok <=> s.ok /\ ~(kind = "jsonArray" /\ g.provider = "sqlite" /\ g.dialect = "postgresql"))
          /\ (kind = "subquery" => g.provider = "mysql" /\ g.style = "?") =>
               (Numbered(g.style, n, s) => Numbered(g.style, n, u))
      <4>1. kind \in Kinds
        BY <3>1
      <4> HIDE DEF kind
      <4> QED
        BY <3>1, <3>2, <4>1, ConditionBuilt
    <3> HIDE DEF u
    <3>5. u \in Standing(g, n)
      BY <3>2, <3>3, <3>4 DEF Standing
    <3> QED
      BY <3>5 DEF u
  <2>2. From(n) \in Standing(g, n)
    BY StartStands
  <2> DEFINE S == Standing(g, n)
             list == w.conditions
             start == From(n)
             D == DOMAIN ks
  <2>3. /\ list \in Seq(D) /\ start \in S /\ \A s \in S, i \in D : buildCondition(s, i, ks[i], g) \in S
    BY <2>1, <2>2
  <2> HIDE DEF S, list, start, D
  <2>6. Conditioned(start, list, ks, g) \in S
    BY <2>3, ConditionsKeep
  <2> QED
    BY <2>6 DEF S, list, start
<1> HIDE DEF direct
<1>2. whole \in Standing(g, n)
  <2> DEFINE S == Standing(g, n)
             list == w.groups
  <2>1. ASSUME NEW s \in S, NEW id \in G PROVE Add(s, groups[<<id, s.next>>]) \in S
    <3>1. s.next \in Nat
      BY DEF Standing, Statements
    <3> QED
      BY <3>1, AddStands
  <2>3. list \in Seq(G) /\ direct \in S
    BY <1>1
  <2> HIDE DEF S, list
  <2>6. Grouped(direct, list, groups) \in S
    BY <2>1, <2>3, GroupsKeep
  <2> QED
    BY <2>6 DEF S, list
<1>3. buildClause(w, groups, n, ks, g) = t
  BY DEF buildClause, direct, Conditioned, Grouped, Whole
<1> HIDE DEF whole
<1>4. rows \in SUBSET Rows
  <2>1. Range(whole.parts) \subseteq SUBSET Rows
    <3>1. whole.parts \in Seq(SUBSET Rows)
      BY <1>2 DEF Standing, Statements
    <3> QED
      BY <3>1 DEF Range
  <2> HIDE DEF whole
  <2>2. UNION Range(whole.parts) \in SUBSET Rows
    BY <2>1
  <2> QED
    BY <2>2 DEF Joined
<1> HIDE DEF rows
<1>5. /\ t \in Statements /\ t.marks = whole.marks /\ t.args = whole.args /\ t.next = whole.next /\ t.ok = whole.ok
  <2>1. whole \in Statements
    BY <1>2 DEF Standing
  <2>2. (IF whole.parts = <<>> THEN <<>> ELSE <<IF w.isNot THEN Rows \ rows ELSE rows>>) \in Seq(SUBSET Rows)
    <3>1. <<>> \in Seq(SUBSET Rows) /\ \A r \in SUBSET Rows : <<r>> \in Seq(SUBSET Rows)
      OBVIOUS
    <3>2. (IF w.isNot THEN Rows \ rows ELSE rows) \in SUBSET Rows
      BY <1>4
    <3> QED
      BY <3>1, <3>2
  <2> QED
    BY <2>1, <2>2 DEF Statements
<1> HIDE DEF t
<1>6. Numbered(g.style, n, t) /\ t.ok
  BY <1>2, <1>5 DEF Standing, Numbered
<1> QED
  BY <1>3, <1>5, <1>6 DEF Standing

\* There is a value for every one of n steps taken in turn.
LEMMA TurnsExist ==
  ASSUME NEW S, NEW n \in Nat, NEW base \in S, NEW step \in Steps(S, n)
  PROVE  \E v : Turns(v, S, n, base, step)
<1>1. PICK f : FoldOf(f, S, n, base, step)
  BY FoldExists
<1>2. Follows(f, S, n, base, step)
  <2>1. /\ f \in [SUBSET (1..n) -> S]
        /\ f = [s \in SUBSET (1..n) |-> IF s = {} THEN base ELSE step[<<f[s \ {Max(s)}], Max(s)>>]]
    BY <1>1 DEF FoldOf
  <2> QED
    BY <2>1 DEF Follows
<1> QED
  BY <1>2, FoldValues

\* The clauses refer to conditions and to clauses that there are.
Referring(cs, ks) ==
  \A c \in DOMAIN cs : cs[c].conditions \in Seq(DOMAIN ks) /\ cs[c].groups \in Seq(DOMAIN cs)

\* So does what is generated for any of them.
LEMMA ClausesStand ==
  ASSUME NEW ks \in Seq(Kinds), Len(ks) <= MaxConditions, NEW g \in Generators, Fits(ks, g), NEW n \in Nat,
         NEW cs, Len(cs) \in Nat, Referring(cs, ks), NEW q, q.clauses = cs, q.kinds = ks, NEW id \in DOMAIN cs
  PROVE  buildWhereRecursive(q, g)[<<id, n>>] \in Standing(g, n)
<1> DEFINE last == Len(cs)
           X == (DOMAIN cs) \X Nat
           S == {h \in [X -> Statements] : \A x \in X : h[x] \in Standing(g, x[2])}
           Above(h) == [x \in X |-> buildClause(cs[x[1]], h, x[2], ks, g)]
           base == [x \in X |-> From(x[2])]
           step == [y \in S \X (1..last) |-> Above(y[1])]
           IsBuild(h) == h = [levels \in 0..last |->
                                [x \in X |-> IF levels = 0 THEN From(x[2])
                                             ELSE buildClause(cs[x[1]], h[levels - 1], x[2], ks, g)]]
           build == CHOOSE h : IsBuild(h)
<1>0. last \in Nat
  OBVIOUS
<1>1. base \in S
  <2>1. \A x \in X : From(x[2]) \in Standing(g, x[2]) /\ From(x[2]) \in Statements
    BY StartStands DEF Standing
  <2> QED
    BY <2>1
<1>2. ASSUME NEW h \in S PROVE Above(h) \in S
  <2>1. ASSUME NEW x \in X PROVE buildClause(cs[x[1]], h, x[2], ks, g) \in Standing(g, x[2])
    <3> DEFINE w == cs[x[1]]
               G == DOMAIN cs
    <3>1. w.conditions \in Seq(DOMAIN ks) /\ w.groups \in Seq(G) /\ x[2] \in Nat
      BY DEF Referring
    <3>2. \A d \in G, next \in Nat : h[<<d, next>>] \in Standing(g, next)
      <4>1. \A d \in G, next \in Nat : <<d, next>> \in X /\ <<d, next>>[2] = next
        OBVIOUS
      <4> QED
        BY <4>1
    <3> HIDE DEF w, G, X, S
    <3>3. buildClause(w, h, x[2], ks, g) \in Standing(g, x[2])
      BY <3>1, <3>2, ClauseStands
    <3> QED
      BY <3>3 DEF w
  <2>2. \A x \in X : buildClause(cs[x[1]], h, x[2], ks, g) \in Statements
    BY <2>1 DEF Standing
  <2> QED
    BY <2>1, <2>2
<1>3. step \in Steps(S, last)
  <2> HIDE DEF S, Above, last
  <2> QED
    BY <1>2 DEF Steps
<1>4. \A h \in S, k \in 1..last : step[<<h, k>>] = Above(h)
  <2> HIDE DEF S, Above, last
  <2> QED
    OBVIOUS
<1> HIDE DEF step
<1>5. PICK v : Turns(v, S, last, base, step)
  <2> HIDE DEF S, base, last
  <2> QED
    BY <1>0, <1>1, <1>3, TurnsExist
<1>6. v \in [0..last -> S] /\ v[0] = base /\ \A k \in 0..last : k < last => v[k + 1] = step[<<v[k], k + 1>>]
  BY <1>5 DEF Turns
<1>7. \E h : IsBuild(h)
  <2>1. ASSUME NEW k \in 0..last
        PROVE  v[k] = [x \in X |-> IF k = 0 THEN From(x[2]) ELSE buildClause(cs[x[1]], v[k - 1], x[2], ks, g)]
    <3>1. CASE k = 0
      BY <1>6, <3>1
    <3>2. CASE k # 0
      <4>1. k - 1 \in 0..last /\ k - 1 < last /\ (k - 1) + 1 = k /\ k \in 1..last
        BY <1>0, <3>2
      <4> HIDE DEF last, S, X
      <4>2. v[k] = Above(v[k - 1])
        <5>1. v[k - 1] \in S
          BY <1>6, <4>1
        <5>2. v[k] = step[<<v[k - 1], k>>]
          BY <1>6, <4>1
        <5> HIDE DEF Above
        <5> QED
          BY <1>4, <4>1, <5>1, <5>2
      <4> QED
        BY <3>2, <4>2
    <3> QED
      BY <3>1, <3>2
  <2> DEFINE other == [levels \in 0..last |->
                         [x \in X |-> IF levels = 0 THEN From(x[2])
                                      ELSE buildClause(cs[x[1]], v[levels - 1], x[2], ks, g)]]
  <2>2. v = other
    <3> HIDE DEF last, X, S
    <3> QED
      BY <1>6, <2>1
  <2>3. IsBuild(v)
    BY <2>2
  <2> HIDE DEF IsBuild
  <2> QED
    BY <2>3
<1>8. IsBuild(build)
  BY <1>7
<1>9. buildWhereRecursive(q, g) = build[last]
  BY DEF buildWhereRecursive
<1> HIDE DEF build
<1> DEFINE K == {k \in 0..last : build[k] \in S}
<1>10. 0 \in K
  <2>1. build[0] = base /\ 0 \in 0..last
    BY <1>0, <1>8
  <2> QED
    BY <1>1, <2>1
<1>11. ASSUME NEW k \in 0..last, k \in K, k < last PROVE k + 1 \in K
  <2>1. k + 1 \in 0..last /\ k + 1 # 0 /\ (k + 1) - 1 = k
    BY <1>0, <1>11
  <2>2. build[k + 1] = Above(build[k])
    <3> HIDE DEF X, last
    <3>1. build[k + 1] = [x \in X |-> IF k + 1 = 0 THEN From(x[2])
                                      ELSE buildClause(cs[x[1]], build[(k + 1) - 1], x[2], ks, g)]
      BY <1>8, <2>1
    <3> QED
      BY <2>1, <3>1
  <2> HIDE DEF Above, S
  <2> QED
    BY <1>2, <1>11, <2>1, <2>2
<1>12. last \in K
  <2>1. last \in 0..last
    BY <1>0
  <2> HIDE DEF K, last
  <2> QED
    BY <1>0, <1>10, <1>11, <2>1, UpTo
<1>13. <<id, n>> \in X /\ <<id, n>>[2] = n
  OBVIOUS
<1>14. build[last][<<id, n>>] \in Standing(g, <<id, n>>[2])
  BY <1>12, <1>13
<1> QED
  BY <1>9, <1>13, <1>14

-----------------------------------------------------------------------------
(* Binding.                                                                *)

\* The placeholders and the arguments are one for one, and no $-number is used twice.
Aligned(s) ==
  /\ Len(s.marks) = Len(s.args)
  /\ \A k \in 1..Len(s.marks) : s.marks[k].value = s.args[k]
  /\ \A j, k \in 1..Len(s.marks) :
       s.marks[j].style = "$" /\ s.marks[k].style = "$" /\ s.marks[j].n = s.marks[k].n => j = k

NoDollar(s) == \A k \in 1..Len(s.marks) : s.marks[k].style # "$"

\* What each database wants of a statement.
Fine(provider, s) ==
  /\ s \in Statements /\ s.ok
  /\ provider = "postgresql" => Numbered("$", 1, s)
  /\ provider = "mysql" => Numbered("?", 1, s)
  /\ provider = "sqlite" => Aligned(s)

\* Placeholders numbered in turn are bound to their own values.
LEMMA NumberedAligned ==
  ASSUME NEW s \in Statements, NEW style \in {"$", "?"}, NEW n \in Nat, Numbered(style, n, s)
  PROVE  Aligned(s) /\ (style = "?" => NoDollar(s))
<1>1. Len(s.marks) \in Nat
  BY DEF Statements
<1>2. ASSUME NEW j \in 1..Len(s.marks), NEW k \in 1..Len(s.marks),
             s.marks[j].style = "$", s.marks[k].style = "$", s.marks[j].n = s.marks[k].n
      PROVE  j = k
  <2>1. style = "$"
    BY <1>2 DEF Numbered
  <2>2. n + j - 1 = n + k - 1
    BY <1>2, <2>1 DEF Numbered
  <2> QED
    BY <1>1, <2>2
<1>3. style = "?" => NoDollar(s)
  BY DEF NoDollar, Numbered
<1> QED
  BY <1>2, <1>3 DEF Aligned, Numbered

\* With distinct numbers a placeholder of SQLite has the index of its place.
LEMMA IndexesInOrder ==
  ASSUME NEW s \in Statements, Aligned(s)
  PROVE  SQLiteIndexes(s.marks) = [k \in 1..Len(s.marks) |-> k]
<1> DEFINE marks == s.marks
           n == Len(marks)
           same(k) == {j \in 1..k : marks[j].style = "$" /\ marks[j].n = marks[k].n}
           first == [k \in DOMAIN marks |-> IF marks[k].style = "$" THEN Min(same(k)) ELSE k]
<1>1. n \in Nat /\ DOMAIN marks = 1..n
  BY DEF Statements
<1>2. ASSUME NEW k \in 1..n, marks[k].style = "$" PROVE Min(same(k)) = k
  <2>1. ASSUME NEW j \in same(k) PROVE j = k
    <3>1. j \in 1..n /\ marks[j].style = "$" /\ marks[j].n = marks[k].n
      BY <1>1
    <3> QED
      BY <1>2, <3>1 DEF Aligned
  <2>2. k \in same(k)
    BY <1>1, <1>2
  <2>3. same(k) = {k}
    BY <2>1, <2>2
  <2> HIDE DEF same, marks, n
  <2>4. k \in Nat
    BY <1>1
  <2>5. \E x \in {k} : \A y \in {k} : x <= y
    BY <2>4
  <2>6. Min({k}) \in {k}
    BY <2>5 DEF Min
  <2> QED
    BY <2>3, <2>6
<1>3. ASSUME NEW k \in 1..n PROVE first[k] = k
  <2>1. first[k] = IF marks[k].style = "$" THEN Min(same(k)) ELSE k
    <3> HIDE DEF same, marks, n
    <3> QED
      BY <1>1
  <2> HIDE DEF first, same, marks, n
  <2> QED
    BY <1>2, <2>1
<1>4. ASSUME NEW k \in 1..n PROVE Cardinality({first[j] : j \in 1..first[k]}) = k
  <2>0. first[k] = k
    BY <1>3
  <2>1. 1..k \subseteq 1..n
    <3> HIDE DEF n
    <3> QED
      BY <1>1
  <2>2. {first[j] : j \in 1..k} = 1..k
    <3> HIDE DEF first, n
    <3> QED
      BY <1>3, <2>1
  <2>3. Cardinality(1..k) = k
    <3>1. k \in Int /\ 1 \in Int /\ k - 1 + 1 = k /\ ~(1 > k)
      BY <1>1
    <3> HIDE DEF n
    <3> QED
      BY <3>1, FS_Interval
  <2> HIDE DEF first
  <2> QED
    BY <2>0, <2>2, <2>3
<1>5. SQLiteIndexes(marks) = [k \in DOMAIN marks |-> Cardinality({first[j] : j \in 1..first[k]})]
  <2> HIDE DEF marks
  <2> QED
    BY DEF SQLiteIndexes
<1> HIDE DEF first, marks, n
<1>6. SQLiteIndexes(marks) = [k \in 1..n |-> k]
  BY <1>1, <1>4, <1>5
<1> QED
  BY <1>6 DEF marks, n

\* The database accepts a fine statement and binds every placeholder to its value.
LEMMA FineBinds ==
  ASSUME NEW provider \in Databases, NEW s, Fine(provider, s)
  PROVE  Accepts(provider, s) /\ BoundRight(provider, s)
<1>1. s.marks \in Seq(Marks) /\ Len(s.marks) \in Nat /\ DOMAIN s.marks = 1..Len(s.marks) /\ s.ok /\ s \in Statements
  BY DEF Fine, Statements
<1>2. CASE provider = "postgresql"
  <2>1. /\ Len(s.marks) = Len(s.args)
        /\ \A k \in 1..Len(s.marks) : s.marks[k].value = s.args[k] /\ s.marks[k].style = "$" /\ s.marks[k].n = 1 + k - 1
    BY <1>2 DEF Fine, Numbered
  <2>2. \A k \in 1..Len(s.marks) : s.marks[k].n = k
    BY <1>1, <2>1
  <2>3. {s.marks[k].n : k \in DOMAIN s.marks} = 1..Len(s.args)
    BY <1>1, <2>1, <2>2
  <2> QED
    BY <1>1, <1>2, <2>1, <2>2, <2>3 DEF Accepts, BoundRight
<1>3. CASE provider = "mysql"
  <2>1. /\ Len(s.marks) = Len(s.args)
        /\ \A k \in 1..Len(s.marks) : s.marks[k].value = s.args[k] /\ s.marks[k].style = "?"
    BY <1>3 DEF Fine, Numbered
  <2> QED
    BY <1>1, <1>3, <2>1 DEF Accepts, BoundRight
<1>4. CASE provider = "sqlite"
  <2>1. Aligned(s)
    BY <1>4 DEF Fine
  <2>2. /\ Len(s.marks) = Len(s.args)
        /\ \A k \in 1..Len(s.marks) : s.marks[k].value = s.args[k]
    BY <2>1 DEF Aligned
  <2>3. SQLiteIndexes(s.marks) = [k \in 1..Len(s.marks) |-> k]
    BY <1>1, <2>1, IndexesInOrder
  <2>4. \A x \in Range(SQLiteIndexes(s.marks)) : x <= Len(s.args)
    BY <1>1, <2>2, <2>3 DEF Range
  <2> QED
    BY <1>1, <1>4, <2>2, <2>3, <2>4 DEF Accepts, BoundRight
<1> QED
  BY <1>2, <1>3, <1>4 DEF Databases

-----------------------------------------------------------------------------
(* The parts of statements.                                                *)

\* Placing values keeps a statement in order.
LEMMA PlaceStands ==
  ASSUME NEW g \in Generators, NEW n \in Nat, NEW s \in Standing(g, n), NEW values \in Seq(Vals)
  PROVE  Place(s, g.style, values) \in Standing(g, n)
<1> DEFINE t == Place(s, g.style, values)
<1>1. s \in Statements /\ s.ok /\ Numbered(g.style, n, s) /\ g.style \in {"$", "?"}
  BY DEF Standing, Generators
<1>2. s.marks \in Seq(Marks) /\ s.args \in Seq(Vals) /\ s.next \in Nat
  BY <1>1 DEF Statements
<1>3. /\ t \in Statements /\ t.ok = s.ok
      /\ t.marks = s.marks \o Placed(s.next, g.style, values) /\ t.args = s.args \o values
      /\ t.next = IF g.style = "?" THEN s.next ELSE s.next + Len(values)
  BY <1>1, Placing
<1> HIDE DEF t
<1>4. Numbered(g.style, n, t)
  <2>1. g.style = "$" => t.next = s.next + Len(values)
    BY <1>3
  <2> QED
    BY <1>1, <1>2, <1>3, <2>1, PlacedNumbered
<1>5. t \in Standing(g, n)
  BY <1>1, <1>3, <1>4 DEF Standing
<1> QED
  BY <1>5 DEF t

\* Named values are values.
LEMMA ValuesOf ==
  \A a, b \in Names : /\ <<>> \in Seq(Vals) /\ Value(a) \in Vals
                      /\ <<Value(a)>> \in Seq(Vals) /\ <<Value(a), Value(b)>> \in Seq(Vals)
<1>1. \A a \in Names : Value(a) \in Vals
  BY ConditionsAssumption DEF Value, Vals
<1>2. <<>> \in Seq(Vals) /\ \A x, y \in Vals : <<x>> \in Seq(Vals) /\ <<x, y>> \in Seq(Vals)
  OBVIOUS
<1> QED
  BY <1>1, <1>2

\* So does the LIMIT and OFFSET of it.
LEMMA TailStands ==
  ASSUME NEW g \in Generators, NEW n \in Nat, NEW s \in Standing(g, n), NEW tail
  PROVE  LimitOffset(s, g.style, tail) \in Standing(g, n)
<1> DEFINE limit == IF tail \in {"limit", "both"} THEN <<Value("limit")>> ELSE <<>>
           offset == IF tail \in {"offset", "both"} THEN <<Value("offset")>> ELSE <<>>
<1>1. limit \in Seq(Vals) /\ offset \in Seq(Vals)
  BY ValuesOf DEF Names
<1>2. LimitOffset(s, g.style, tail) = Place(Place(s, g.style, limit), g.style, offset)
  BY DEF LimitOffset
<1> HIDE DEF limit, offset
<1> QED
  BY <1>1, <1>2, PlaceStands

\* So does its HAVING.
LEMMA HavingStands ==
  ASSUME NEW g \in Generators, NEW n \in Nat, NEW s \in Standing(g, n), NEW having
  PROVE  buildHaving(s, g.style, having) \in Standing(g, n)
<1> DEFINE values == IF having = "value" THEN <<Value("having")>> ELSE <<>>
<1>1. values \in Seq(Vals)
  BY ValuesOf DEF Names
<1>2. buildHaving(s, g.style, having) = Place(s, g.style, values)
  BY DEF buildHaving
<1> HIDE DEF values
<1> QED
  BY <1>1, <1>2, PlaceStands

\* A query that its clauses and kinds make sense of.
IsQuery(q) ==
  /\ q.kinds \in Seq(Kinds) /\ Len(q.kinds) <= MaxConditions
  /\ Len(q.clauses) \in Nat /\ Referring(q.clauses, q.kinds)
  /\ q.id = 0 \/ q.id \in DOMAIN q.clauses

\* The text of every clause of the tree is in order, wherever its numbering starts.
LEMMA PieceStands ==
  ASSUME NEW g \in Generators, NEW n \in Nat, NEW q, IsQuery(q), Fits(q.kinds, g), q.id # 0
  PROVE  buildWhereRecursive(q, g)[<<q.id, n>>] \in Standing(g, n)
<1> DEFINE ks == q.kinds
           cs == q.clauses
           id == q.id
<1>1. /\ ks \in Seq(Kinds) /\ Len(ks) <= MaxConditions /\ Fits(ks, g) /\ Len(cs) \in Nat /\ Referring(cs, ks)
      /\ q.clauses = cs /\ q.kinds = ks /\ id \in DOMAIN cs
  BY DEF IsQuery
<1> HIDE DEF ks, cs, id
<1>2. buildWhereRecursive(q, g)[<<id, n>>] \in Standing(g, n)
  BY <1>1, ClausesStand
<1> QED
  BY <1>2 DEF id

\* So is the statement the tree is written to.
LEMMA WhereStands ==
  ASSUME NEW g \in Generators, NEW n \in Nat, NEW s \in Standing(g, n), NEW q, IsQuery(q), Fits(q.kinds, g)
  PROVE  Where(s, q, g) \in Standing(g, n)
<1>1. CASE q.id = 0
  BY <1>1 DEF Where
<1>2. CASE q.id # 0
  <2>1. s.next \in Nat
    BY DEF Standing, Statements
  <2>2. buildWhereRecursive(q, g)[<<q.id, s.next>>] \in Standing(g, s.next)
    BY <1>2, <2>1, PieceStands
  <2>3. Where(s, q, g) = Add(s, buildWhereRecursive(q, g)[<<q.id, s.next>>])
    BY <1>2 DEF Where
  <2> QED
    BY <2>2, <2>3, AddStands
<1> QED
  BY <1>1, <1>2

\* On SQLite numbers and question marks are mixed.
Straight == {s \in Statements : s.ok /\ Aligned(s)}

\* A statement in order is bound right, and one with ? holds no $.
LEMMA StandingStraight ==
  ASSUME NEW g \in Generators, NEW n \in Nat, NEW s \in Standing(g, n)
  PROVE  s \in Straight /\ (g.style = "?" => NoDollar(s))
<1>1. s \in Statements /\ s.ok /\ Numbered(g.style, n, s) /\ g.style \in {"$", "?"}
  BY DEF Standing, Generators
<1> QED
  BY <1>1, NumberedAligned DEF Straight

\* Two statements bound right, only one of them with $, are bound right together.
LEMMA AlignedParts ==
  ASSUME NEW s \in Statements, NEW t \in Statements, Aligned(s), Aligned(t), NoDollar(s) \/ NoDollar(t),
         NEW u, u.marks = s.marks \o t.marks, u.args = s.args \o t.args
  PROVE  Aligned(u)
<1> DEFINE a == s.marks
           b == t.marks
           c == s.args
           d == t.args
<1>1. /\ a \in Seq(Marks) /\ b \in Seq(Marks) /\ c \in Seq(Vals) /\ d \in Seq(Vals) /\ u.marks = a \o b /\ u.args = c \o d
  BY DEF Statements
<1>2. /\ Len(a) = Len(c) /\ Len(b) = Len(d)
      /\ \A k \in 1..Len(a) : a[k].value = c[k]
      /\ \A k \in 1..Len(b) : b[k].value = d[k]
      /\ \A j, k \in 1..Len(a) : a[j].style = "$" /\ a[k].style = "$" /\ a[j].n = a[k].n => j = k
      /\ \A j, k \in 1..Len(b) : b[j].style = "$" /\ b[k].style = "$" /\ b[j].n = b[k].n => j = k
      /\ (\A k \in 1..Len(a) : a[k].style # "$") \/ (\A k \in 1..Len(b) : b[k].style # "$")
  BY DEF Aligned, NoDollar
<1> HIDE DEF a, b, c, d
<1>3. /\ Len(u.marks) = Len(a) + Len(b) /\ Len(a) \in Nat /\ Len(b) \in Nat
      /\ \A k \in 1..Len(a) : u.marks[k] = a[k]
      /\ \A k \in 1..Len(b) : u.marks[Len(a) + k] = b[k]
      /\ \A k \in 1..Len(u.marks) : k \in 1..Len(a) \/ \E i \in 1..Len(b) : k = Len(a) + i
  <2>1. /\ Len(a \o b) = Len(a) + Len(b) /\ Len(a) \in Nat /\ Len(b) \in Nat
        /\ \A k \in 1..Len(a) : (a \o b)[k] = a[k]
        /\ \A k \in 1..Len(b) : (a \o b)[Len(a) + k] = b[k]
        /\ \A k \in 1..Len(a \o b) : k \in 1..Len(a) \/ \E i \in 1..Len(b) : k = Len(a) + i
    BY <1>1, Concatenation
  <2> QED
    BY <1>1, <2>1
<1>4. /\ Len(u.args) = Len(c) + Len(d)
      /\ \A k \in 1..Len(c) : u.args[k] = c[k]
      /\ \A k \in 1..Len(d) : u.args[Len(c) + k] = d[k]
  <2>1. /\ Len(c \o d) = Len(c) + Len(d)
        /\ \A k \in 1..Len(c) : (c \o d)[k] = c[k]
        /\ \A k \in 1..Len(d) : (c \o d)[Len(c) + k] = d[k]
    BY <1>1, Concatenation
  <2> QED
    BY <1>1, <2>1
<1>5. ASSUME NEW k \in 1..Len(u.marks) PROVE u.marks[k].value = u.args[k]
  <2>1. CASE k \in 1..Len(a)
    BY <1>2, <1>3, <1>4, <2>1
  <2>2. ASSUME NEW i \in 1..Len(b), k = Len(a) + i PROVE u.marks[k].value = u.args[k]
    <3>1. u.marks[k] = b[i]
      BY <1>3, <2>2
    <3>2. i \in 1..Len(d) /\ k = Len(c) + i
      BY <1>2, <2>2
    <3>3. u.args[k] = d[i]
      BY <1>4, <3>2
    <3> QED
      BY <1>2, <3>1, <3>3
  <2> QED
    BY <1>3, <2>1, <2>2
<1>6. ASSUME NEW j \in 1..Len(u.marks), NEW k \in 1..Len(u.marks),
             u.marks[j].style = "$", u.marks[k].style = "$", u.marks[j].n = u.marks[k].n
      PROVE  j = k
  <2>1. CASE j \in 1..Len(a) /\ k \in 1..Len(a)
    <3>1. u.marks[j] = a[j] /\ u.marks[k] = a[k]
      BY <1>3, <2>1
    <3> QED
      BY <1>2, <1>6, <2>1, <3>1
  <2>2. ASSUME j \in 1..Len(a), NEW i \in 1..Len(b), k = Len(a) + i PROVE FALSE
    <3>1. u.marks[j] = a[j] /\ u.marks[k] = b[i]
      BY <1>3, <2>2
    <3> QED
      BY <1>2, <1>6, <2>2, <3>1
  <2>3. ASSUME k \in 1..Len(a), NEW i \in 1..Len(b), j = Len(a) + i PROVE FALSE
    <3>1. u.marks[k] = a[k] /\ u.marks[j] = b[i]
      BY <1>3, <2>3
    <3> QED
      BY <1>2, <1>6, <2>3, <3>1
  <2>4. ASSUME NEW h \in 1..Len(b), NEW i \in 1..Len(b), j = Len(a) + h, k = Len(a) + i PROVE j = k
    <3>1. u.marks[j] = b[h] /\ u.marks[k] = b[i]
      BY <1>3, <2>4
    <3> QED
      BY <1>2, <1>6, <2>4, <3>1
  <2> QED
    BY <1>3, <2>1, <2>2, <2>3, <2>4
<1> QED
  BY <1>2, <1>3, <1>4, <1>5, <1>6 DEF Aligned

\* Question marks, whatever is before them.
LEMMA PlaceStraight ==
  ASSUME NEW s \in Straight, NEW values \in Seq(Vals)
  PROVE  Place(s, "?", values) \in Straight
<1> DEFINE t == Place(s, "?", values)
           more == [marks |-> Placed(s.next, "?", values), args |-> values, next |-> s.next, parts |-> <<>>, ok |-> TRUE]
<1>1. s \in Statements /\ s.ok /\ Aligned(s) /\ s.next \in Nat
  BY DEF Straight, Statements
<1>2. /\ t \in Statements /\ t.ok = s.ok
      /\ t.marks = s.marks \o Placed(s.next, "?", values) /\ t.args = s.args \o values
  BY <1>1, Placing
<1>3. /\ Placed(s.next, "?", values) \in Seq(Marks) /\ Len(Placed(s.next, "?", values)) = Len(values)
      /\ \A k \in 1..Len(values) :
           Placed(s.next, "?", values)[k] = [style |-> "?", n |-> s.next + k - 1, value |-> values[k]]
  BY <1>1, PlacedMarks
<1>4. /\ more.marks = Placed(s.next, "?", values) /\ more.args = values
      /\ more \in [marks : Seq(Marks), args : Seq(Vals), next : Nat, parts : Seq(SUBSET Rows), ok : BOOLEAN]
  <2>1. <<>> \in Seq(SUBSET Rows)
    OBVIOUS
  <2> QED
    BY <1>1, <1>3, <2>1
<1> HIDE DEF t, more
<1>5. Len(more.marks) = Len(values) /\ \A k \in 1..Len(values) : more.marks[k].style = "?" /\ more.marks[k].value = values[k]
  <2>1. ASSUME NEW k \in 1..Len(values) PROVE more.marks[k].style = "?" /\ more.marks[k].value = values[k]
    <3>1. more.marks[k] = [style |-> "?", n |-> s.next + k - 1, value |-> values[k]]
      BY <1>3, <1>4
    <3> QED
      BY <3>1
  <2> QED
    BY <1>3, <1>4, <2>1
<1>6. Aligned(more) /\ NoDollar(more)
  BY <1>4, <1>5 DEF Aligned, NoDollar
<1>7. Aligned(t)
  <2>1. more \in Statements /\ t.marks = s.marks \o more.marks /\ t.args = s.args \o more.args
    BY <1>2, <1>4 DEF Statements
  <2> QED
    BY <1>1, <1>6, <2>1, AlignedParts
<1> QED
  BY <1>1, <1>2, <1>7 DEF Straight, t

\* A WHERE behind what has no numbers, or one that has none.
LEMMA WhereStraight ==
  ASSUME NEW g \in Generators, NEW s \in Straight, NoDollar(s) \/ g.style = "?", NEW q, IsQuery(q), Fits(q.kinds, g)
  PROVE  Where(s, q, g) \in Straight
<1>1. CASE q.id = 0
  BY <1>1 DEF Where
<1>2. CASE q.id # 0
  <2> DEFINE piece == buildWhereRecursive(q, g)[<<q.id, s.next>>]
             t == [marks |-> s.marks \o piece.marks, args |-> s.args \o piece.args, next |-> piece.next,
                   parts |-> s.parts \o piece.parts, ok |-> TRUE]
  <2>1. s.next \in Nat /\ s \in Statements /\ s.ok = TRUE /\ Aligned(s)
    BY DEF Straight, Statements
  <2>2. piece \in Standing(g, s.next)
    BY <1>2, <2>1, PieceStands
  <2>3. Where(s, q, g) = Add(s, piece)
    BY <1>2 DEF Where
  <2> HIDE DEF piece
  <2>4. piece \in Straight /\ (g.style = "?" => NoDollar(piece))
    BY <2>1, <2>2, StandingStraight
  <2>5. piece \in Statements /\ piece.ok = TRUE /\ Aligned(piece)
    BY <2>4 DEF Straight, Statements
  <2>6. Add(s, piece) = t
    <3>1. Add(s, piece) = [s EXCEPT !.marks = @ \o piece.marks, !.args = @ \o piece.args, !.next = piece.next,
                                    !.parts = @ \o piece.parts, !.ok = TRUE]
      BY <2>1, <2>5 DEF Add
    <3> QED
      BY <2>1, <3>1 DEF Statements
  <2>7. t \in Statements /\ t.ok /\ t.marks = s.marks \o piece.marks /\ t.args = s.args \o piece.args
    <3>1. /\ s.marks \in Seq(Marks) /\ piece.marks \in Seq(Marks) /\ s.args \in Seq(Vals) /\ piece.args \in Seq(Vals)
          /\ s.parts \in Seq(SUBSET Rows) /\ piece.parts \in Seq(SUBSET Rows) /\ piece.next \in Nat
      BY <2>1, <2>5 DEF Statements
    <3>2. /\ s.marks \o piece.marks \in Seq(Marks) /\ s.args \o piece.args \in Seq(Vals)
          /\ s.parts \o piece.parts \in Seq(SUBSET Rows)
      BY <3>1, ConcatProperties
    <3> QED
      BY <3>1, <3>2 DEF Statements
  <2> HIDE DEF t
  <2>8. Aligned(t)
    BY <2>1, <2>4, <2>5, <2>7, AlignedParts
  <2> QED
    BY <2>3, <2>6, <2>7, <2>8 DEF Straight
<1> QED
  BY <1>1, <1>2

\* The empty statement is in order.
LEMMA Starting ==
  ASSUME NEW g \in Generators
  PROVE  Start \in Standing(g, 1)
<1>1. From(1) \in Standing(g, 1) /\ 1 \in Nat
  BY StartStands
<1>2. From(1) = Start
  BY DEF From, Start
<1> QED
  BY <1>1, <1>2

\* A statement that is not refused stays in order.
LEMMA RefusedStands ==
  ASSUME NEW g \in Generators, NEW n \in Nat, NEW s \in Standing(g, n)
  PROVE  Refused(s, FALSE) \in Standing(g, n)
<1>1. s \in Statements /\ s.ok /\ Numbered(g.style, n, s)
  BY DEF Standing
<1>2. /\ Refused(s, FALSE) \in Statements /\ Refused(s, FALSE).marks = s.marks /\ Refused(s, FALSE).args = s.args
      /\ Refused(s, FALSE).next = s.next /\ Refused(s, FALSE).ok
  BY <1>1, RefusedStatement
<1>3. Numbered(g.style, n, Refused(s, FALSE))
  BY <1>1, <1>2 DEF Numbered
<1> QED
  BY <1>2, <1>3 DEF Standing

\* A statement that is not refused stays bound right.
LEMMA RefusedStraight ==
  ASSUME NEW s \in Straight
  PROVE  Refused(s, FALSE) \in Straight
<1>1. s \in Statements /\ s.ok /\ Aligned(s)
  BY DEF Straight
<1>2. /\ Refused(s, FALSE) \in Statements /\ Refused(s, FALSE).marks = s.marks /\ Refused(s, FALSE).args = s.args
      /\ Refused(s, FALSE).ok
  BY <1>1, RefusedStatement
<1> QED
  BY <1>1, <1>2 DEF Straight, Aligned

\* With ? the LIMIT and OFFSET keep it bound right.
LEMMA TailStraight ==
  ASSUME NEW s \in Straight, NEW tail
  PROVE  LimitOffset(s, "?", tail) \in Straight
<1> DEFINE limit == IF tail \in {"limit", "both"} THEN <<Value("limit")>> ELSE <<>>
           offset == IF tail \in {"offset", "both"} THEN <<Value("offset")>> ELSE <<>>
<1>1. limit \in Seq(Vals) /\ offset \in Seq(Vals)
  BY ValuesOf DEF Names
<1>2. LimitOffset(s, "?", tail) = Place(Place(s, "?", limit), "?", offset)
  BY DEF LimitOffset
<1> HIDE DEF limit, offset
<1> QED
  BY <1>1, <1>2, PlaceStraight

\* The four generators and the placeholders they write.
LEMMA TheGenerators ==
  /\ Postgres \in Generators /\ MySQL \in Generators /\ SQLite \in Generators /\ SQLiteAsPostgres \in Generators
  /\ Postgres.style = "$" /\ MySQL.style = "?" /\ SQLite.style = "?" /\ SQLiteAsPostgres.style = "$"
BY DEF Postgres, MySQL, SQLite, SQLiteAsPostgres, For, Generators, Databases

\* The values of a SET and of a CTE.
LEMMA TheValues == Set \in Seq(Vals) /\ CTE \in Seq(Vals)
BY ValuesOf DEF Set, CTE, Names

\* A DELETE of nothing.
LEMMA NoRowStands ==
  ASSUME NEW g \in Generators
  PROVE  [Start EXCEPT !.parts = <<{}>>] \in Standing(g, 1)
<1> DEFINE t == [Start EXCEPT !.parts = <<{}>>]
<1>1. Start \in Statements /\ Start.ok /\ Numbered(g.style, 1, Start)
  BY Starting DEF Standing
<1>2. <<{}>> \in Seq(SUBSET Rows)
  OBVIOUS
<1>3. t \in Statements /\ t.marks = Start.marks /\ t.args = Start.args /\ t.next = Start.next /\ t.ok = Start.ok
  BY <1>1, <1>2 DEF Statements
<1> HIDE DEF t
<1>4. Numbered(g.style, 1, t)
  BY <1>1, <1>3 DEF Numbered
<1>5. t \in Standing(g, 1)
  BY <1>1, <1>3, <1>4 DEF Standing
<1> QED
  BY <1>5 DEF t

\* What PostgreSQL is sent, but for CTEs and subqueries.
LEMMA PostgresFine ==
  ASSUME NEW q, IsQuery(q), \A i \in DOMAIN q.kinds : q.kinds[i] # "subquery",
         NEW c \in Calls, c.verb # "cte", ~(c.verb = "aggregate" /\ c.having = "in")
  PROVE  Fine("postgresql", GeneratePostgres(q, c))
<1> DEFINE S == Standing(Postgres, 1)
           where == Where(Start, q, Postgres)
<1>1. Fits(q.kinds, Postgres) /\ Postgres \in Generators /\ Postgres.style = "$" /\ 1 \in Nat
  BY TheGenerators DEF Fits, Postgres, For
<1>2. Start \in S /\ where \in S
  BY <1>1, Starting, WhereStands
<1>3. \A s \in S : \A tail : LimitOffset(s, "$", tail) \in S
  BY <1>1, TailStands
<1>4. \A s \in S : \A having : buildHaving(s, "$", having) \in S
  BY <1>1, HavingStands
<1>5. Place(Start, "$", Set) \in S
  BY <1>1, <1>2, TheValues, PlaceStands
<1>6. Where(Place(Start, "$", Set), q, Postgres) \in S
  BY <1>1, <1>5, WhereStands
<1>7. \A s \in S : Refused(s, FALSE) \in S
  BY <1>1, RefusedStands
<1>8. [Start EXCEPT !.parts = <<{}>>] \in S
  BY <1>1, NoRowStands
<1>9. c.verb \in {"select", "joins", "windows", "aggregates", "aggregate", "insert", "upsert", "update", "delete"}
  BY DEF Calls
<1> HIDE DEF S, where
<1>10. GeneratePostgres(q, c) \in S
  <2>1. CASE c.verb \in {"select", "joins", "windows"}
    BY <1>2, <1>3, <2>1 DEF GeneratePostgres, PostgresSelect, PostgresSelectWithJoins, PostgresSelectWithWindows, where
  <2>2. CASE c.verb = "aggregates"
    BY <1>2, <1>3, <1>4, <2>2 DEF GeneratePostgres, PostgresSelectWithAggregates, where
  <2>3. CASE c.verb = "aggregate"
    <3>1. (c.having = "in") = FALSE
      BY <2>3
    <3>2. GeneratePostgres(q, c) = Refused(buildHaving(where, "$", c.having), FALSE)
      BY <2>3, <3>1 DEF GeneratePostgres, PostgresAggregate, where
    <3> QED
      BY <1>2, <1>4, <1>7, <3>2
  <2>4. CASE c.verb \in {"insert", "upsert"}
    BY <1>5, <2>4 DEF GeneratePostgres, PostgresInsert, PostgresUpsert
  <2>5. CASE c.verb = "update"
    BY <1>6, <2>5 DEF GeneratePostgres, PostgresUpdate
  <2>6. CASE c.verb = "delete"
    BY <1>2, <1>8, <2>6 DEF GeneratePostgres, PostgresDelete, where
  <2> QED
    BY <1>9, <2>1, <2>2, <2>3, <2>4, <2>5, <2>6
<1> QED
  BY <1>1, <1>10 DEF Fine, S, Standing

\* What MySQL is sent, but for windows, writes with conditions and an OFFSET of joins on its own.
LEMMA MySQLFine ==
  ASSUME NEW q, IsQuery(q), NEW c \in Calls, c.verb \notin {"windows", "update", "delete"},
         ~(c.verb = "joins" /\ c.tail = "offset"), ~(c.verb = "aggregate" /\ c.having = "in")
  PROVE  Fine("mysql", GenerateMySQL(q, c))
<1> DEFINE S == Standing(MySQL, 1)
           where == Where(Start, q, MySQL)
<1>1. Fits(q.kinds, MySQL) /\ MySQL \in Generators /\ MySQL.style = "?" /\ 1 \in Nat
  BY TheGenerators DEF Fits, MySQL, For
<1>2. Start \in S /\ where \in S
  BY <1>1, Starting, WhereStands
<1>3. \A s \in S : \A tail : LimitOffset(s, "?", tail) \in S
  BY <1>1, TailStands
<1>4. \A s \in S : \A having : buildHaving(s, "?", having) \in S
  BY <1>1, HavingStands
<1>5. Place(Start, "?", Set) \in S
  BY <1>1, <1>2, TheValues, PlaceStands
<1>6. Where(Embed(Start, Own("mysql"), CTE), q, MySQL) \in S
  <2> DEFINE s == Embed(Start, Own("mysql"), CTE)
  <2>1. Start \in Statements /\ Start.ok /\ Numbered("?", 1, Start)
    BY <1>1, <1>2 DEF Standing
  <2>2. Own("mysql") = "?" /\ CTE \in Seq(Vals)
    BY TheValues DEF Own
  <2>3. s \in Statements /\ s.ok = Start.ok /\ s.marks = Start.marks \o Placed(1, "?", CTE) /\ s.args = Start.args \o CTE
    <3>1. s = Embed(Start, "?", CTE)
      BY <2>2
    <3> DEFINE e == Embed(Start, "?", CTE)
    <3>2. e \in Statements /\ e.ok = Start.ok /\ e.marks = Start.marks \o Placed(1, "?", CTE) /\ e.args = Start.args \o CTE
      BY <2>1, <2>2, Embedding
    <3> QED
      BY <3>1, <3>2
  <2> HIDE DEF s
  <2>4. Start.marks \in Seq(Marks) /\ Start.args \in Seq(Vals) /\ Start.next \in Nat
    BY <2>1 DEF Statements
  <2>5. Numbered("?", 1, s)
    BY <2>1, <2>2, <2>3, <2>4, PlacedNumbered
  <2>6. s \in S
    BY <1>1, <2>1, <2>3, <2>5 DEF Standing
  <2>7. Where(s, q, MySQL) \in S
    BY <1>1, <2>6, WhereStands
  <2> QED
    BY <2>7 DEF s
<1>7. \A s \in S : Refused(s, FALSE) \in S
  BY <1>1, RefusedStands
<1>8. c.verb \in {"select", "joins", "cte", "aggregates", "aggregate", "insert", "upsert"}
  BY DEF Calls
<1> HIDE DEF S, where
<1>9. GenerateMySQL(q, c) \in S
  <2>1. CASE c.verb = "select"
    BY <1>2, <1>3, <2>1 DEF GenerateMySQL, MySQLSelect, where
  <2>2. CASE c.verb = "joins"
    <3>1. (c.tail = "offset") = FALSE
      BY <2>2
    <3>2. GenerateMySQL(q, c) = Refused(LimitOffset(where, "?", c.tail), FALSE)
      BY <2>2, <3>1 DEF GenerateMySQL, MySQLSelectWithJoins, where
    <3> QED
      BY <1>2, <1>3, <1>7, <3>2
  <2>3. CASE c.verb = "cte"
    BY <1>3, <1>6, <2>3 DEF GenerateMySQL, MySQLSelectWithCTE
  <2>4. CASE c.verb = "aggregates"
    BY <1>2, <1>3, <1>4, <2>4 DEF GenerateMySQL, MySQLSelectWithAggregates, where
  <2>5. CASE c.verb = "aggregate"
    <3>1. (c.having = "in") = FALSE
      BY <2>5
    <3>2. GenerateMySQL(q, c) = Refused(buildHaving(where, "?", c.having), FALSE)
      BY <2>5, <3>1 DEF GenerateMySQL, MySQLAggregate, where
    <3> QED
      BY <1>2, <1>4, <1>7, <3>2
  <2>6. CASE c.verb \in {"insert", "upsert"}
    BY <1>5, <2>6 DEF GenerateMySQL, MySQLInsert, MySQLUpsert
  <2> QED
    BY <1>8, <2>1, <2>2, <2>3, <2>4, <2>5, <2>6
<1> QED
  BY <1>1, <1>9 DEF Fine, S, Standing

\* What SQLite is sent, but for subqueries, array_contains and OFFSET on its own.
LEMMA SQLiteFine ==
  ASSUME NEW q, IsQuery(q), \A i \in DOMAIN q.kinds : q.kinds[i] \notin {"subquery", "jsonArray"},
         NEW c \in Calls, c.tail # "offset", ~(c.verb = "aggregate" /\ c.having = "in")
  PROVE  Fine("sqlite", GenerateSQLite(q, c))
<1> DEFINE where == Where(Start, q, SQLite)
           numbered == Where(Start, q, SQLiteAsPostgres)
<1>1. /\ Fits(q.kinds, SQLite) /\ SQLite \in Generators /\ SQLite.style = "?"
      /\ Fits(q.kinds, SQLiteAsPostgres) /\ SQLiteAsPostgres \in Generators /\ SQLiteAsPostgres.style = "$" /\ 1 \in Nat
  BY TheGenerators DEF Fits
<1>2. where \in Standing(SQLite, 1) /\ Start \in Standing(SQLite, 1)
  BY <1>1, Starting, WhereStands
<1>3. numbered \in Standing(SQLiteAsPostgres, 1)
  BY <1>1, Starting, WhereStands
<1>4. where \in Straight /\ numbered \in Straight /\ Start \in Straight
  BY <1>1, <1>2, <1>3, StandingStraight
<1>5. \A s \in Straight : \A tail : LimitOffset(s, "?", tail) \in Straight
  BY TailStraight
<1>6. \A tail : LimitOffset(numbered, "$", tail) \in Straight
  BY <1>1, <1>3, TailStands, StandingStraight
<1>7. \A having : buildHaving(where, "?", having) \in Straight
  BY <1>1, <1>2, HavingStands, StandingStraight
<1>8. Place(Start, "?", Set) \in Straight /\ NoDollar(Place(Start, "?", Set))
  BY <1>1, <1>2, TheValues, PlaceStands, StandingStraight
<1>9. Where(Place(Start, "?", Set), q, SQLiteAsPostgres) \in Straight
  BY <1>1, <1>8, WhereStraight
<1>10. Where(Embed(Start, Own("sqlite"), CTE), q, SQLite) \in Straight
  <2> DEFINE s == Embed(Start, Own("sqlite"), CTE)
  <2>1. Start \in Statements /\ Start.ok /\ Numbered("$", 1, Start)
    BY <1>1, Starting DEF Standing
  <2>2. Own("sqlite") = "$" /\ CTE \in Seq(Vals)
    BY TheValues DEF Own
  <2>3. Embed(Start, "$", CTE) = [Place(Start, "$", CTE) EXCEPT !.next = 1]
    <3> DEFINE e == Embed(Start, "$", CTE)
               p == Place(Start, "$", CTE)
    <3>1. /\ e \in Statements /\ e.parts = Start.parts /\ e.ok = Start.ok /\ e.next = Start.next
          /\ e.marks = Start.marks \o Placed(1, "$", CTE) /\ e.args = Start.args \o CTE
      BY <2>1, <2>2, Embedding
    <3>2. /\ p \in Statements /\ p.parts = Start.parts /\ p.ok = Start.ok
          /\ p.marks = Start.marks \o Placed(Start.next, "$", CTE) /\ p.args = Start.args \o CTE
      BY <2>1, <2>2, Placing
    <3>3. Start.next = 1
      BY DEF Start
    <3> HIDE DEF e, p
    <3>4. e = [p EXCEPT !.next = 1]
      BY <3>1, <3>2, <3>3 DEF Statements
    <3> QED
      BY <3>4 DEF e, p
  <2> DEFINE p == Place(Start, "$", CTE)
  <2>4. p \in Straight
    BY <1>1, <2>2, Starting, PlaceStands, StandingStraight
  <2> HIDE DEF p
  <2>5. [p EXCEPT !.next = 1] \in Straight
    BY <2>4 DEF Straight, Statements, Aligned
  <2>6. s \in Straight
    BY <2>2, <2>3, <2>5 DEF p
  <2> HIDE DEF s
  <2>7. Where(s, q, SQLite) \in Straight
    BY <1>1, <2>6, WhereStraight
  <2> QED
    BY <2>7 DEF s
<1>11. \A s \in Straight : Refused(s, FALSE) \in Straight
  BY RefusedStraight
<1>12. [Start EXCEPT !.parts = <<{}>>] \in Straight
  BY <1>1, NoRowStands, StandingStraight
<1>13. c.verb \in {"select", "joins", "cte", "windows", "aggregates", "aggregate", "insert", "upsert", "update", "delete"}
  BY DEF Calls
<1>14. (c.tail = "offset") = FALSE
  OBVIOUS
<1> HIDE DEF where, numbered
<1>15. GenerateSQLite(q, c) \in Straight
  <2>1. CASE c.verb = "select"
    <3>1. GenerateSQLite(q, c) = Refused(LimitOffset(numbered, "?", c.tail), FALSE)
      BY <1>14, <2>1 DEF GenerateSQLite, SQLiteSelect, numbered
    <3> QED
      BY <1>4, <1>5, <1>11, <3>1
  <2>2. CASE c.verb = "joins"
    <3>1. GenerateSQLite(q, c) = Refused(LimitOffset(where, "?", c.tail), FALSE)
      BY <1>14, <2>2 DEF GenerateSQLite, SQLiteSelectWithJoins, where
    <3> QED
      BY <1>4, <1>5, <1>11, <3>1
  <2>3. CASE c.verb = "cte"
    <3>1. GenerateSQLite(q, c) =
            Refused(LimitOffset(Where(Embed(Start, Own("sqlite"), CTE), q, SQLite), "?", c.tail), FALSE)
      BY <1>14, <2>3 DEF GenerateSQLite, SQLiteSelectWithCTE
    <3> QED
      BY <1>5, <1>10, <1>11, <3>1
  <2>4. CASE c.verb = "windows"
    <3>1. GenerateSQLite(q, c) = Refused(LimitOffset(numbered, "$", c.tail), FALSE)
      BY <1>14, <2>4 DEF GenerateSQLite, SQLiteSelectWithWindows, PostgresSelectWithWindows, numbered
    <3> QED
      BY <1>6, <1>11, <3>1
  <2>5. CASE c.verb = "aggregates"
    <3>1. GenerateSQLite(q, c) = Refused(LimitOffset(buildHaving(where, "?", c.having), "?", c.tail), FALSE)
      BY <1>14, <2>5 DEF GenerateSQLite, SQLiteSelectWithAggregates, where
    <3> QED
      BY <1>5, <1>7, <1>11, <3>1
  <2>6. CASE c.verb = "aggregate"
    <3>1. (c.having = "in") = FALSE
      BY <2>6
    <3>2. GenerateSQLite(q, c) = Refused(buildHaving(where, "?", c.having), FALSE)
      BY <2>6, <3>1 DEF GenerateSQLite, SQLiteAggregate, where
    <3> QED
      BY <1>7, <1>11, <3>2
  <2>7. CASE c.verb \in {"insert", "upsert"}
    BY <1>8, <2>7 DEF GenerateSQLite, SQLiteInsert, SQLiteUpsert
  <2>8. CASE c.verb = "update"
    BY <1>9, <2>8 DEF GenerateSQLite, SQLiteUpdate
  <2>9. CASE c.verb = "delete"
    BY <1>4, <1>12, <2>9 DEF GenerateSQLite, SQLiteDelete, numbered
  <2> QED
    BY <1>13, <2>1, <2>2, <2>3, <2>4, <2>5, <2>6, <2>7, <2>8, <2>9
<1> QED
  BY <1>15 DEF Fine, Straight

-----------------------------------------------------------------------------
(* The clauses of builders.                                                *)

Clauses(ks, n) == [conditions : Seq(DOMAIN ks), groups : Seq(1..n), operator : {"AND", "OR"}, isNot : BOOLEAN]
AreClauses(cs, ks) == Len(cs) \in Nat /\ cs \in Seq(Clauses(ks, Len(cs)))

\* Every condition is one of the program's, every clause one that there is.
BuilderInv ==
  /\ kinds \in Mixes
  /\ conditions \in [Builders -> Seq(DOMAIN kinds)] /\ operator \in [Builders -> {"AND", "OR"}]
  /\ clause \in [Builders -> Nat] /\ \A b \in Builders : clause[b] \in 0..Len(clauses)
  /\ AreClauses(clauses, kinds)
  /\ StatementsBind

\* A sequence over a set is one over a larger set.
LEMMA SeqOfMore ==
  ASSUME NEW S, NEW T, \A x \in S : x \in T, NEW s \in Seq(S)
  PROVE  s \in Seq(T)
OBVIOUS

\* A clause stays a clause when clauses are added.
LEMMA MoreClauses ==
  ASSUME NEW ks, NEW n \in Nat, NEW m \in Nat, n <= m, NEW c \in Clauses(ks, n)
  PROVE  c \in Clauses(ks, m)
<1>1. c.groups \in Seq(1..m)
  <2>1. c.groups \in Seq(1..n)
    BY DEF Clauses
  <2>2. \A k \in 1..n : k \in 1..m
    OBVIOUS
  <2> QED
    BY <2>1, <2>2, SeqOfMore
<1> QED
  BY <1>1 DEF Clauses

\* Adding a clause leaves clauses.
LEMMA OneMoreClause ==
  ASSUME NEW ks, NEW cs, AreClauses(cs, ks), NEW c \in Clauses(ks, Len(cs))
  PROVE  /\ AreClauses(Append(cs, c), ks) /\ Len(Append(cs, c)) = Len(cs) + 1
         /\ Len(cs) + 1 \in 1..Len(Append(cs, c)) /\ Len(cs) \in Nat
<1> DEFINE n == Len(cs)
           C == Clauses(ks, n + 1)
<1>1. n \in Nat /\ cs \in Seq(Clauses(ks, n))
  BY DEF AreClauses
<1>2. \A d \in Clauses(ks, n) : d \in C
  BY <1>1, MoreClauses
<1>3. cs \in Seq(C) /\ c \in C
  <2> HIDE DEF n, C
  <2>1. cs \in Seq(C)
    BY <1>1, <1>2
  <2>2. c \in Clauses(ks, n)
    BY DEF n
  <2> QED
    BY <1>2, <2>1, <2>2
<1>4. Append(cs, c) \in Seq(C) /\ Len(Append(cs, c)) = n + 1
  <2> HIDE DEF C
  <2> QED
    BY <1>3, AppendProperties
<1> QED
  BY <1>1, <1>4 DEF AreClauses

\* So does replacing one.
LEMMA ClauseReplaced ==
  ASSUME NEW ks, NEW cs, AreClauses(cs, ks), NEW id \in 1..Len(cs), NEW c \in Clauses(ks, Len(cs))
  PROVE  AreClauses([cs EXCEPT ![id] = c], ks) /\ Len([cs EXCEPT ![id] = c]) = Len(cs)
<1> DEFINE C == Clauses(ks, Len(cs))
<1>1. Len(cs) \in Nat /\ cs \in Seq(C) /\ c \in C
  BY DEF AreClauses
<1>2. [cs EXCEPT ![id] = c] \in Seq(C) /\ Len([cs EXCEPT ![id] = c]) = Len(cs)
  <2> HIDE DEF C
  <2> QED
    BY <1>1
<1> QED
  BY <1>1, <1>2 DEF AreClauses

\* What Build makes of a builder, whatever clauses came to these in the meantime.
LEMMA BuildKeeps ==
  ASSUME BuilderInv, NEW b \in Builders, NEW before, AreClauses(before, kinds), Len(clauses) <= Len(before)
  PROVE  LET built == Build(b, before)
         IN  /\ AreClauses(built.clauses, kinds) /\ Len(before) <= Len(built.clauses)
             /\ built.id \in 0..Len(built.clauses)
             /\ clause[b] # Nil => built.id = clause[b] /\ Len(built.clauses) = Len(before)
<1> DEFINE built == Build(b, before)
<1>1. /\ conditions[b] \in Seq(DOMAIN kinds) /\ operator[b] \in {"AND", "OR"} /\ clause[b] \in 0..Len(before)
      /\ Len(before) \in Nat /\ before \in Seq(Clauses(kinds, Len(before)))
  BY DEF BuilderInv, AreClauses
<1>2. CASE clause[b] # Nil
  <2> DEFINE id == clause[b]
             c == [before[id] EXCEPT !.conditions = @ \o conditions[b]]
  <2>1. id \in 1..Len(before)
    BY <1>1, <1>2 DEF Nil
  <2>2. before[id] \in Clauses(kinds, Len(before))
    BY <1>1, <2>1
  <2>3. c \in Clauses(kinds, Len(before))
    <3>1. before[id].conditions \in Seq(DOMAIN kinds)
      BY <2>2 DEF Clauses
    <3> DEFINE more == before[id].conditions \o conditions[b]
    <3>2. more \in Seq(DOMAIN kinds)
      BY <1>1, <3>1, ConcatProperties
    <3>3. c = [before[id] EXCEPT !.conditions = more]
      OBVIOUS
    <3> HIDE DEF more, c
    <3> QED
      BY <2>2, <3>2, <3>3 DEF Clauses
  <2>4. built = [id |-> id, clauses |-> [before EXCEPT ![id] = c]]
    BY <1>2 DEF Build
  <2> HIDE DEF c, built
  <2>5. AreClauses([before EXCEPT ![id] = c], kinds) /\ Len([before EXCEPT ![id] = c]) = Len(before)
    BY <2>1, <2>3, ClauseReplaced
  <2>6. built.id = id /\ built.clauses = [before EXCEPT ![id] = c]
    BY <2>4
  <2>7. /\ AreClauses(built.clauses, kinds) /\ Len(before) <= Len(built.clauses)
        /\ built.id \in 0..Len(built.clauses) /\ built.id = clause[b] /\ Len(built.clauses) = Len(before)
    BY <1>1, <2>1, <2>5, <2>6
  <2> QED
    BY <2>7 DEF built
<1>3. CASE clause[b] = Nil /\ conditions[b] = <<>>
  <2>1. built = [id |-> Nil, clauses |-> before]
    BY <1>3 DEF Build
  <2> QED
    BY <1>1, <1>3, <2>1 DEF Nil
<1>4. CASE clause[b] = Nil /\ conditions[b] # <<>>
  <2> DEFINE c == [conditions |-> conditions[b], groups |-> <<>>, operator |-> operator[b], isNot |-> FALSE]
  <2>1. built = [id |-> Len(before) + 1, clauses |-> Append(before, c)]
    BY <1>4 DEF Build
  <2>2. c \in Clauses(kinds, Len(before))
    <3>1. <<>> \in Seq(1..Len(before))
      OBVIOUS
    <3> QED
      BY <1>1, <3>1 DEF Clauses
  <2> HIDE DEF c, built
  <2>3. /\ AreClauses(Append(before, c), kinds) /\ Len(Append(before, c)) = Len(before) + 1
    BY <2>2, OneMoreClause
  <2>4. built.id = Len(before) + 1 /\ built.clauses = Append(before, c)
    BY <2>1
  <2>5. /\ AreClauses(built.clauses, kinds) /\ Len(before) <= Len(built.clauses)
        /\ built.id \in 0..Len(built.clauses)
    BY <1>1, <2>3, <2>4
  <2> QED
    BY <1>4, <2>5 DEF built
<1> QED
  BY <1>2, <1>3, <1>4

\* A group: what is added for each of its builders.
Adding(acc, c) ==
  LET built == Build(c, acc.clauses)
  IN  [groups |-> IF built.id = Nil THEN acc.groups ELSE Append(acc.groups, built.id), clauses |-> built.clauses]

Gathered(acc, list) == FoldLeft(LAMBDA t, b : Adding(t, b), acc, list)

\* What there is of it with one builder after the other.
BuilderTurns(v, S, acc, list) ==
  /\ v \in [0..Len(list) -> S]
  /\ v[0] = acc /\ v[Len(list)] = Gathered(acc, list)
  /\ \A k \in 0..Len(list) : k < Len(list) => v[k + 1] = Adding(v[k], list[k + 1])

\* The builders of a group, one after the other.
LEMMA BuildersInTurn ==
  ASSUME NEW B, NEW list \in Seq(B), NEW S, NEW acc \in S, \A t \in S, b \in B : Adding(t, b) \in S
  PROVE  \E v : BuilderTurns(v, S, acc, list)
<1> DEFINE n == Len(list)
           step == [x \in S \X (1..n) |-> Adding(x[1], list[x[2]])]
           IsFold(h) == h = [c \in SUBSET (1..n) |->
                              IF c = {} THEN acc ELSE Adding(h[c \ {Max(c)}], list[Max(c)])]
           f == CHOOSE h : IsFold(h)
<1>0. n \in Nat /\ DOMAIN list = 1..n /\ n = Len(list)
  OBVIOUS
<1>1. \A k \in 1..n : list[k] \in B
  BY <1>0
<1> HIDE DEF n
<1>2. step \in Steps(S, n)
  BY <1>1 DEF Steps
<1>3. \A t \in S, k \in 1..n : step[<<t, k>>] = Adding(t, list[k])
  OBVIOUS
<1> HIDE DEF step
<1>m. \A c \in SUBSET (1..n) : c # {} => Max(c) \in 1..n /\ c \ {Max(c)} \in SUBSET (1..n)
  BY <1>0, Greatest
<1>4. \E h : IsFold(h)
  <2> PICK h : FoldOf(h, S, n, acc, step)
    BY <1>0, <1>2, FoldExists
  <2>1. /\ h \in [SUBSET (1..n) -> S]
        /\ h = [c \in SUBSET (1..n) |-> IF c = {} THEN acc ELSE step[<<h[c \ {Max(c)}], Max(c)>>]]
    BY DEF FoldOf
  <2> DEFINE other == [c \in SUBSET (1..n) |->
                        IF c = {} THEN acc ELSE Adding(h[c \ {Max(c)}], list[Max(c)])]
  <2>2. ASSUME NEW c \in SUBSET (1..n) PROVE h[c] = other[c]
    BY <1>3, <1>m, <2>1
  <2>3. h = other
    BY <2>1, <2>2
  <2>4. IsFold(h)
    BY <2>3
  <2> HIDE DEF IsFold
  <2> QED
    BY <2>4
<1>5. IsFold(f)
  BY <1>4
<1>6. Gathered(acc, list) = f[1..n]
  BY <1>0 DEF Gathered, FoldLeft, MapThenFoldSet
<1> HIDE DEF f
<1>7. Follows(f, S, n, acc, step)
  BY <1>3, <1>5, <1>m DEF Follows
<1> HIDE DEF IsFold
<1>8. PICK v : Turns(v, S, n, acc, step) /\ v[n] = f[1..n]
  BY <1>0, <1>2, <1>7, FoldValues
<1>9. v \in [0..n -> S] /\ v[0] = acc /\ \A k \in 0..n : k < n => v[k + 1] = step[<<v[k], k + 1>>]
  BY <1>8 DEF Turns
<1>10. ASSUME NEW k \in 0..n, k < n PROVE v[k + 1] = Adding(v[k], list[k + 1])
  <2>1. k + 1 \in 1..n /\ v[k] \in S
    BY <1>0, <1>9, <1>10, Prefix
  <2> QED
    BY <1>3, <1>9, <1>10, <2>1
<1> QED
  BY <1>0, <1>6, <1>8, <1>9, <1>10 DEF BuilderTurns

\* Groups and clauses on the way, all of them there.
Gatherings ==
  {acc \in [groups : Seq(Nat), clauses : UNION {Seq(Clauses(kinds, n)) : n \in Nat}] :
     /\ acc.groups \in Seq(1..Len(acc.clauses)) /\ AreClauses(acc.clauses, kinds)
     /\ Len(clauses) <= Len(acc.clauses)}

\* No group is one of them, and a builder more is.
LEMMA Gathers ==
  ASSUME BuilderInv
  PROVE  /\ [groups |-> <<>>, clauses |-> clauses] \in Gatherings
         /\ \A acc \in Gatherings, b \in Builders : Adding(acc, b) \in Gatherings
<1> DEFINE Some == UNION {Seq(Clauses(kinds, n)) : n \in Nat}
           S == {acc \in [groups : Seq(Nat), clauses : Some] :
                   /\ acc.groups \in Seq(1..Len(acc.clauses)) /\ AreClauses(acc.clauses, kinds)
                   /\ Len(clauses) <= Len(acc.clauses)}
           start == [groups |-> <<>>, clauses |-> clauses]
<1>1. start \in S
  <2>1. AreClauses(clauses, kinds) /\ Len(clauses) \in Nat
    BY DEF BuilderInv, AreClauses
  <2>2. <<>> \in Seq(Nat) /\ <<>> \in Seq(1..Len(clauses))
    OBVIOUS
  <2>3. clauses \in Some
    BY <2>1 DEF AreClauses
  <2> HIDE DEF Some
  <2>4. start \in [groups : Seq(Nat), clauses : Some]
    BY <2>2, <2>3
  <2>5. start.groups = <<>> /\ start.clauses = clauses /\ Len(clauses) <= Len(clauses)
    BY <2>1
  <2> HIDE DEF start
  <2>6. start.groups \in Seq(1..Len(start.clauses)) /\ AreClauses(start.clauses, kinds) /\ Len(clauses) <= Len(start.clauses)
    BY <2>1, <2>2, <2>5
  <2> QED
    BY <2>4, <2>6
<1>2. ASSUME NEW acc \in S, NEW b \in Builders PROVE Adding(acc, b) \in S
  <2> DEFINE before == acc.clauses
             built == Build(b, before)
             more == IF built.id = Nil THEN acc.groups ELSE Append(acc.groups, built.id)
  <2>1. /\ acc.groups \in Seq(1..Len(before)) /\ AreClauses(before, kinds) /\ Len(clauses) <= Len(before)
        /\ Len(before) \in Nat /\ Len(clauses) \in Nat
    BY DEF AreClauses, BuilderInv
  <2> HIDE DEF before
  <2>2. /\ AreClauses(built.clauses, kinds) /\ Len(before) <= Len(built.clauses)
        /\ built.id \in 0..Len(built.clauses)
    BY <2>1, BuildKeeps
  <2>3. Len(built.clauses) \in Nat /\ built.clauses \in Seq(Clauses(kinds, Len(built.clauses)))
    BY <2>2 DEF AreClauses
  <2> HIDE DEF built
  <2> DEFINE last == Len(built.clauses)
  <2>4. more \in Seq(1..last)
    <3>1. \A k \in 1..Len(before) : k \in 1..last
      BY <2>1, <2>2, <2>3
    <3> DEFINE gs == acc.groups
    <3>2. gs \in Seq(1..Len(before))
      BY <2>1
    <3> HIDE DEF gs, last
    <3>3. gs \in Seq(1..last)
      BY <3>1, <3>2, SeqOfMore
    <3>4. built.id # Nil => built.id \in 1..last
      BY <2>2, <2>3 DEF Nil, last
    <3>5. built.id # Nil => Append(gs, built.id) \in Seq(1..last)
      BY <3>3, <3>4, AppendProperties
    <3> QED
      BY <3>3, <3>5 DEF gs
  <2>5. more \in Seq(Nat)
    <3>1. \A k \in 1..last : k \in Nat
      BY <2>3
    <3> HIDE DEF more, last
    <3> QED
      BY <2>4, <3>1, SeqOfMore
  <2>6. Adding(acc, b) = [groups |-> more, clauses |-> built.clauses]
    BY DEF Adding, before, built
  <2> HIDE DEF more
  <2>7. Len(clauses) <= last
    BY <2>1, <2>2, <2>3
  <2>8. built.clauses \in Some
    BY <2>3
  <2> HIDE DEF Some
  <2> QED
    BY <2>2, <2>4, <2>5, <2>6, <2>7, <2>8
<1> HIDE DEF S
<1>3. start \in S /\ \A acc \in S, b \in Builders : Adding(acc, b) \in S
  BY <1>1, <1>2
<1>4. S = Gatherings
  BY DEF S, Gatherings
<1> QED
  BY <1>3, <1>4

\* And, Or leave clauses, the new one the last.
LEMMA GroupsAreClauses ==
  ASSUME BuilderInv, NEW args \in Seq(Builders), NEW op \in {"AND", "OR"}
  PROVE  /\ AreClauses(Group(args, op), kinds) /\ Len(clauses) <= Len(Group(args, op))
         /\ Len(Group(args, op)) \in 1..Len(Group(args, op))
<1> DEFINE start == [groups |-> <<>>, clauses |-> clauses]
           all == Gathered(start, args)
           whole == [conditions |-> <<>>, groups |-> all.groups, operator |-> op, isNot |-> FALSE]
<1>3. all \in Gatherings
  <2>1. start \in Gatherings /\ \A acc \in Gatherings, b \in Builders : Adding(acc, b) \in Gatherings
    BY Gathers
  <2> HIDE DEF start
  <2>2. PICK v : BuilderTurns(v, Gatherings, start, args)
    BY <2>1, BuildersInTurn
  <2>3. Len(args) \in 0..Len(args)
    OBVIOUS
  <2> QED
    BY <2>2, <2>3 DEF BuilderTurns
<1>4. Group(args, op) = Append(all.clauses, whole)
  BY DEF Group, Gathered, Adding
<1> HIDE DEF all
<1>5. /\ all.groups \in Seq(1..Len(all.clauses)) /\ AreClauses(all.clauses, kinds) /\ Len(clauses) <= Len(all.clauses)
      /\ Len(clauses) \in Nat /\ Len(all.clauses) \in Nat
  BY <1>3 DEF Gatherings, AreClauses, BuilderInv
<1>6. whole \in Clauses(kinds, Len(all.clauses))
  <2>1. <<>> \in Seq(DOMAIN kinds)
    OBVIOUS
  <2> QED
    BY <1>5, <2>1 DEF Clauses
<1> DEFINE cs == all.clauses
<1> HIDE DEF whole
<1>7. /\ AreClauses(Append(cs, whole), kinds) /\ Len(Append(cs, whole)) = Len(cs) + 1
  <2>1. AreClauses(cs, kinds) /\ whole \in Clauses(kinds, Len(cs))
    BY <1>5, <1>6
  <2> HIDE DEF cs
  <2> QED
    BY <2>1, OneMoreClause
<1> QED
  BY <1>4, <1>5, <1>7

-----------------------------------------------------------------------------
(* The calls of a program.                                                 *)

\* What a generator makes of a query, but for the named flaws.
LEMMA GeneratedFine ==
  ASSUME NEW q, IsQuery(q), NEW provider \in Databases, NEW c \in Calls,
         ~\/ (\E i \in DOMAIN q.kinds : q.kinds[i] = "subquery") /\ provider # "mysql"
          \/ provider = "postgresql" /\ c.verb = "cte"
          \/ provider = "mysql" /\ c.verb \in Writes \cup {"windows"}
          \/ provider = "mysql" /\ c.verb = "joins" /\ c.tail = "offset"
          \/ provider = "sqlite" /\ ((\E i \in DOMAIN q.kinds : q.kinds[i] = "jsonArray") \/ c.tail = "offset")
          \/ c.verb = "aggregate" /\ c.having = "in"
  PROVE  Accepts(provider, Generate(provider, q, c)) /\ BoundRight(provider, Generate(provider, q, c))
<1>1. CASE provider = "postgresql"
  <2>1. /\ \A i \in DOMAIN q.kinds : q.kinds[i] # "subquery"
        /\ c.verb # "cte" /\ ~(c.verb = "aggregate" /\ c.having = "in")
    BY <1>1
  <2>2. Fine("postgresql", GeneratePostgres(q, c))
    BY <2>1, PostgresFine
  <2>3. Generate(provider, q, c) = GeneratePostgres(q, c)
    BY <1>1 DEF Generate
  <2> QED
    BY <1>1, <2>2, <2>3, FineBinds
<1>2. CASE provider = "mysql"
  <2>1. /\ c.verb \notin {"windows", "update", "delete"} /\ ~(c.verb = "joins" /\ c.tail = "offset")
        /\ ~(c.verb = "aggregate" /\ c.having = "in")
    BY <1>2 DEF Writes
  <2>2. Fine("mysql", GenerateMySQL(q, c))
    BY <2>1, MySQLFine
  <2>3. Generate(provider, q, c) = GenerateMySQL(q, c)
    BY <1>2 DEF Generate
  <2> QED
    BY <1>2, <2>2, <2>3, FineBinds
<1>3. CASE provider = "sqlite"
  <2>1. /\ \A i \in DOMAIN q.kinds : q.kinds[i] \notin {"subquery", "jsonArray"}
        /\ c.tail # "offset" /\ ~(c.verb = "aggregate" /\ c.having = "in")
    BY <1>3
  <2>2. Fine("sqlite", GenerateSQLite(q, c))
    BY <2>1, SQLiteFine
  <2>3. Generate(provider, q, c) = GenerateSQLite(q, c)
    BY <1>3 DEF Generate
  <2> QED
    BY <1>3, <2>2, <2>3, FineBinds
<1> QED
  BY <1>1, <1>2, <1>3 DEF Databases

\* A clause refers to clauses that there are.
LEMMA ClausesRefer ==
  ASSUME NEW ks, NEW cs, AreClauses(cs, ks)
  PROVE  Referring(cs, ks) /\ DOMAIN cs = 1..Len(cs) /\ Len(cs) \in Nat
<1>1. Len(cs) \in Nat /\ cs \in Seq(Clauses(ks, Len(cs)))
  BY DEF AreClauses
<1>2. DOMAIN cs = 1..Len(cs) /\ \A c \in 1..Len(cs) : cs[c] \in Clauses(ks, Len(cs))
  BY <1>1
<1> QED
  BY <1>1, <1>2 DEF Referring, Clauses

\* Statements are sent right.
LEMMA Sends ==
  ASSUME BuilderInv, NEW b \in Builders, NEW what \in Queries[kinds], Send(b, what[1], what[2])
  PROVE  BuilderInv'
<1> DEFINE provider == what[1]
           c == what[2]
           built == Build(b, clauses)
           q == [id |-> built.id, clauses |-> built.clauses, kinds |-> kinds]
           s == Generate(provider, q, c)
           accepted == Accepts(provider, s)
           kept == IF clause[b] # Nil THEN built.clauses ELSE clauses
<1>1. /\ clauses' = kept /\ UNCHANGED <<kinds, conditions, operator, clause>>
      /\ sent' = [verb |-> c.verb, tail |-> c.tail, having |-> c.having, by |-> b, provider |-> provider,
                  accepted |-> accepted, bound |-> accepted /\ BoundRight(provider, s),
                  rows |-> IF Misreads(provider) THEN Untold ELSE RowsOf(s)]
  BY DEF Send, AtDatabase
<1>2. kinds \in Mixes /\ kinds \in Seq(Kinds) /\ Len(kinds) <= MaxConditions /\ provider \in Databases /\ c \in Calls
  BY MixesAssumption, QueriesAssumption DEF BuilderInv, Databases
<1>3. AreClauses(clauses, kinds) /\ Len(clauses) <= Len(clauses)
  BY DEF BuilderInv, AreClauses
<1>4. /\ AreClauses(built.clauses, kinds) /\ built.id \in 0..Len(built.clauses)
      /\ clause[b] # Nil => built.id = clause[b] /\ Len(built.clauses) = Len(clauses)
  BY <1>3, BuildKeeps
<1>5. IsQuery(q)
  <2>1. /\ Referring(built.clauses, kinds) /\ DOMAIN built.clauses = 1..Len(built.clauses)
        /\ Len(built.clauses) \in Nat
    BY <1>4, ClausesRefer
  <2> HIDE DEF built
  <2>2. q.id = 0 \/ q.id \in DOMAIN q.clauses
    BY <1>4, <2>1
  <2> QED
    BY <1>2, <2>1, <2>2 DEF IsQuery
<1> HIDE DEF provider, c, built
<1>6. StatementsBind'
  <2> SUFFICES ASSUME (~Misgenerated)' PROVE sent'.accepted /\ sent'.bound
    BY DEF StatementsBind
  <2>1. /\ sent'.verb = c.verb /\ sent'.tail = c.tail /\ sent'.having = c.having /\ sent'.provider = provider
        /\ sent'.accepted = accepted /\ sent'.bound = (accepted /\ BoundRight(provider, s)) /\ kinds' = kinds
        /\ q.kinds = kinds
    BY <1>1
  <2> HIDE DEF q
  <2>2. ~\/ (\E i \in DOMAIN q.kinds : q.kinds[i] = "subquery") /\ provider # "mysql"
         \/ provider = "postgresql" /\ c.verb = "cte"
         \/ provider = "mysql" /\ c.verb \in Writes \cup {"windows"}
         \/ provider = "mysql" /\ c.verb = "joins" /\ c.tail = "offset"
         \/ provider = "sqlite" /\ ((\E i \in DOMAIN q.kinds : q.kinds[i] = "jsonArray") \/ c.tail = "offset")
         \/ c.verb = "aggregate" /\ c.having = "in"
    BY <2>1 DEF Misgenerated, Has, Writes
  <2>3. Accepts(provider, s) /\ BoundRight(provider, s)
    BY <1>2, <1>5, <2>2, GeneratedFine
  <2> HIDE DEF s
  <2> QED
    BY <2>1, <2>3
<1>7. AreClauses(kept, kinds) /\ Len(kept) = Len(clauses)
  BY <1>3, <1>4
<1> HIDE DEF kept
<1>8. /\ (kinds \in Mixes)' /\ (conditions \in [Builders -> Seq(DOMAIN kinds)])'
      /\ (operator \in [Builders -> {"AND", "OR"}])' /\ (clause \in [Builders -> Nat])'
      /\ (\A x \in Builders : clause[x] \in 0..Len(clauses))' /\ AreClauses(clauses, kinds)'
  BY <1>1, <1>7 DEF BuilderInv, Builders, AreClauses
<1> QED
  BY <1>6, <1>8 DEF BuilderInv

\* Nothing is at the database when a builder is called.
LEMMA NothingSent ==
  ASSUME sent' = NoStatement
  PROVE  StatementsBind'
<1>1. ~Sent'
  BY DEF Sent, NoStatement
<1> QED
  BY <1>1 DEF StatementsBind

\* Adding a group to a builder leaves clauses and builders.
LEMMA AddsGroup ==
  ASSUME BuilderInv, NEW b \in Builders, NEW before, AreClauses(before, kinds), Len(clauses) <= Len(before),
         NEW id \in 1..Len(before), AddGroup(b, id, before)
  PROVE  /\ AreClauses(clauses', kinds) /\ clause' \in [Builders -> Nat]
         /\ \A x \in Builders : clause'[x] \in 0..Len(clauses')
<1>1. /\ clause \in [Builders -> Nat] /\ \A x \in Builders : clause[x] \in 0..Len(before)
      /\ Len(before) \in Nat /\ before \in Seq(Clauses(kinds, Len(before))) /\ Len(clauses) \in Nat
  BY DEF BuilderInv, AreClauses
<1>2. CASE clause[b] # Nil
  <2> DEFINE at == clause[b]
             c == [before[at] EXCEPT !.groups = Append(@, id)]
  <2>1. at \in 1..Len(before)
    BY <1>1, <1>2 DEF Nil
  <2>2. before[at] \in Clauses(kinds, Len(before))
    BY <1>1, <2>1
  <2>3. c \in Clauses(kinds, Len(before))
    <3>1. before[at].groups \in Seq(1..Len(before))
      BY <2>2 DEF Clauses
    <3> DEFINE more == Append(before[at].groups, id)
    <3>2. more \in Seq(1..Len(before))
      BY <3>1, AppendProperties
    <3>3. c = [before[at] EXCEPT !.groups = more]
      OBVIOUS
    <3> HIDE DEF more, c
    <3> QED
      BY <2>2, <3>2, <3>3 DEF Clauses
  <2>4. clauses' = [before EXCEPT ![at] = c] /\ clause' = clause
    BY <1>2 DEF AddGroup
  <2> HIDE DEF c
  <2>5. AreClauses([before EXCEPT ![at] = c], kinds) /\ Len([before EXCEPT ![at] = c]) = Len(before)
    BY <2>1, <2>3, ClauseReplaced
  <2> QED
    BY <1>1, <2>4, <2>5
<1>3. CASE clause[b] = Nil
  <2> DEFINE c == [conditions |-> <<>>, groups |-> <<id>>, operator |-> "AND", isNot |-> FALSE]
  <2>1. clauses' = Append(before, c) /\ clause' = [clause EXCEPT ![b] = Len(before) + 1]
    BY <1>3 DEF AddGroup
  <2>2. c \in Clauses(kinds, Len(before))
    <3>1. <<>> \in Seq(DOMAIN kinds) /\ <<id>> \in Seq(1..Len(before))
      OBVIOUS
    <3> QED
      BY <3>1 DEF Clauses
  <2> HIDE DEF c
  <2>3. AreClauses(Append(before, c), kinds) /\ Len(Append(before, c)) = Len(before) + 1
    BY <2>2, OneMoreClause
  <2>4. \A x \in Builders : clause'[x] = IF x = b THEN Len(before) + 1 ELSE clause[x]
    BY <1>1, <2>1
  <2>5. Len(clauses') = Len(before) + 1
    BY <2>1, <2>3
  <2> QED
    BY <1>1, <2>1, <2>3, <2>4, <2>5
<1> QED
  BY <1>2, <1>3

\* The invariant from its parts, of a step that leaves the kinds alone.
LEMMA Kept ==
  ASSUME BuilderInv, kinds' = kinds, sent' = NoStatement, conditions' \in [Builders -> Seq(DOMAIN kinds)],
         operator' \in [Builders -> {"AND", "OR"}], clause' \in [Builders -> Nat],
         \A x \in Builders : clause'[x] \in 0..Len(clauses'), AreClauses(clauses', kinds)
  PROVE  BuilderInv'
BY NothingSent DEF BuilderInv, Builders, AreClauses

\* Every step of the builders keeps their types.
LEMMA BuilderStep ==
  ASSUME BuilderInv, [Next]_builderVars
  PROVE  BuilderInv'
<1>0. /\ kinds \in Mixes /\ conditions \in [Builders -> Seq(DOMAIN kinds)] /\ operator \in [Builders -> {"AND", "OR"}]
      /\ clause \in [Builders -> Nat] /\ \A b \in Builders : clause[b] \in 0..Len(clauses)
      /\ AreClauses(clauses, kinds) /\ Len(clauses) \in Nat
  BY DEF BuilderInv, AreClauses
<1>1. ASSUME NEW b \in Builders, AddCondition(b) PROVE BuilderInv'
  <2> DEFINE i == 1 + Cardinality(UNION {Range(conditions[c]) : c \in Builders})
  <2>1. /\ i \in DOMAIN kinds /\ conditions' = [conditions EXCEPT ![b] = Append(@, i)] /\ sent' = NoStatement
        /\ UNCHANGED <<kinds, operator, clause, clauses>>
    BY <1>1 DEF AddCondition
  <2> HIDE DEF i
  <2>2. Append(conditions[b], i) \in Seq(DOMAIN kinds)
    BY <1>0, <2>1, AppendProperties
  <2>3. conditions' \in [Builders -> Seq(DOMAIN kinds)]
    BY <1>0, <2>1, <2>2
  <2> QED
    BY <1>0, <2>1, <2>3, Kept
<1>2. ASSUME NEW b \in Builders, SetOperator(b) PROVE BuilderInv'
  <2>1. /\ operator' = [operator EXCEPT ![b] = "OR"] /\ sent' = NoStatement
        /\ UNCHANGED <<kinds, conditions, clause, clauses>>
    BY <1>2 DEF SetOperator, Counted
  <2>2. operator' \in [Builders -> {"AND", "OR"}]
    BY <1>0, <2>1
  <2> QED
    BY <1>0, <2>1, <2>2, Kept
<1>3. ASSUME NEW b \in Builders, NEW args \in Seq(Builders), NEW op \in {"AND", "OR"}, ANDOR(b, args, op)
      PROVE  BuilderInv'
  <2> DEFINE after == Group(args, op)
  <2>1. AddGroup(b, Len(after), after) /\ sent' = NoStatement /\ UNCHANGED <<kinds, conditions, operator>>
    BY <1>3 DEF ANDOR, Counted, PutInto
  <2>2. AreClauses(after, kinds) /\ Len(clauses) <= Len(after) /\ Len(after) \in 1..Len(after)
    BY GroupsAreClauses
  <2> HIDE DEF after
  <2>3. /\ AreClauses(clauses', kinds) /\ clause' \in [Builders -> Nat]
        /\ \A x \in Builders : clause'[x] \in 0..Len(clauses')
    BY <2>1, <2>2, AddsGroup
  <2> QED
    BY <1>0, <2>1, <2>3, Kept
<1>4. ASSUME NEW b \in Builders, NEW c \in Builders, NOT(b, c) PROVE BuilderInv'
  <2> DEFINE built == Build(c, clauses)
             after == [built.clauses EXCEPT ![built.id].isNot = TRUE]
  <2>1. /\ IF built.id = Nil THEN UNCHANGED <<clause, clauses>> ELSE AddGroup(b, built.id, after)
        /\ sent' = NoStatement /\ UNCHANGED <<kinds, conditions, operator>>
    BY <1>4 DEF NOT, Counted, PutInto
  <2>2. /\ AreClauses(built.clauses, kinds) /\ Len(clauses) <= Len(built.clauses)
        /\ built.id \in 0..Len(built.clauses)
    BY <1>0, BuildKeeps
  <2> HIDE DEF built
  <2>3. CASE built.id = Nil
    BY <1>0, <2>1, <2>3, Kept
  <2>4. CASE built.id # Nil
    <3> DEFINE d == [built.clauses[built.id] EXCEPT !.isNot = TRUE]
               cs == built.clauses
               id == built.id
    <3>1. id \in 1..Len(cs) /\ AreClauses(cs, kinds)
      BY <2>2, <2>4 DEF Nil, AreClauses
    <3>2. cs[id] \in Clauses(kinds, Len(cs))
      <4> HIDE DEF cs, id
      <4> QED
        BY <3>1 DEF AreClauses
    <3>3. d \in Clauses(kinds, Len(cs))
      BY <3>2 DEF Clauses
    <3>4. after = [cs EXCEPT ![id] = d]
      OBVIOUS
    <3> HIDE DEF d, after
    <3>5. AreClauses(after, kinds) /\ Len(after) = Len(cs)
      <4> HIDE DEF cs, id
      <4> QED
        <5>1. AreClauses([cs EXCEPT ![id] = d], kinds) /\ Len([cs EXCEPT ![id] = d]) = Len(cs)
          BY <3>1, <3>3, ClauseReplaced
        <5> QED
          BY <3>4, <5>1
    <3>6. AddGroup(b, id, after) /\ id \in 1..Len(after) /\ Len(clauses) <= Len(after)
      BY <2>1, <2>2, <2>4, <3>1, <3>5
    <3> HIDE DEF cs, id
    <3>7. /\ AreClauses(clauses', kinds) /\ clause' \in [Builders -> Nat]
          /\ \A x \in Builders : clause'[x] \in 0..Len(clauses')
      BY <3>5, <3>6, AddsGroup
    <3> QED
      BY <1>0, <2>1, <3>7, Kept
  <2> QED
    BY <2>3, <2>4
<1>5. ASSUME Answered PROVE BuilderInv'
  BY <1>0, <1>5, Kept DEF Answered, clauseVars
<1>6. CASE UNCHANGED builderVars
  BY <1>6 DEF builderVars, clauseVars, BuilderInv, Builders, AreClauses, StatementsBind, Sent, NoStatement,
              Misgenerated, Has
<1>7. CASE Next
  <2>2. ASSUME NEW b \in Created, NEW n \in 0..2, NEW args \in Distinct(Created, n), NEW op \in {"AND", "OR"},
               ANDOR(b, args, op)
        PROVE  BuilderInv'
    <3>1. b \in Builders /\ args \in [1..n -> Builders] /\ n \in Nat
      BY DEF Created, Distinct
    <3>2. args \in Seq(Builders)
      BY <3>1, IsASeq
    <3> QED
      BY <1>3, <2>2, <3>1, <3>2
  <2>3. Created \subseteq Builders
    BY DEF Created
  <2> QED
    BY <1>1, <1>2, <1>4, <1>5, <1>7, <2>2, <2>3, Sends DEF Next
<1> QED
  BY <1>6, <1>7

\* The types hold at the start.
LEMMA BuilderStart ==
  ASSUME Init
  PROVE  BuilderInv
<1>1. AreClauses(<<>>, kinds) /\ Len(<<>>) = 0 /\ <<>> \in Seq(DOMAIN kinds)
  BY DEF AreClauses
<1>2. ~Sent
  BY DEF Init, Sent, NoStatement
<1>3. clauses = <<>> /\ \A b \in Builders : clause[b] = 0
  BY DEF Init, Nil
<1>4. 0 \in 0..Len(clauses)
  BY <1>1, <1>3
<1> QED
  BY <1>1, <1>2, <1>3, <1>4 DEF Init, BuilderInv, StatementsBind, Nil

-----------------------------------------------------------------------------
(* The theorem about the generators.                                       *)

\* Whatever clauses a program builds and whichever query it sends, through whichever generator:
\* apart from the named flaws, the database accepts the statement, and each placeholder is
\* bound to the value that belongs there.
THEOREM StatementsBound == LibrarySpec => []StatementsBind
<1>1. LibraryInit => BuilderInv
  BY BuilderStart DEF LibraryInit
<1>2. BuilderInv /\ [LibraryNext]_libraryVars => BuilderInv'
  <2>1. [LibraryNext]_libraryVars => [Next]_builderVars
    BY DEF LibraryNext, libraryVars
  <2> QED
    BY <2>1, BuilderStep
<1>3. BuilderInv => StatementsBind
  BY DEF BuilderInv
<1> QED
  BY <1>1, <1>2, <1>3, PTL DEF LibrarySpec

-----------------------------------------------------------------------------
(* What a WHERE leaves: the text of every clause, as a set with one element*)
(* or none, is what its conditions and its groups say.                     *)

\* What conditions say, and groups whose texts are given: the rows of each of them.
MeaningsOf(list, ks) == {Meant(i, ks[i]) : i \in Range(list)}
TextsOf(list, texts) == UNION {texts[d] : d \in Range(list)}

\* What a clause says.
Says(w, ks, texts) == MeaningsOf(w.conditions, ks) \cup TextsOf(w.groups, texts)

\* All of it, joined.
AllOf(w, said) == IF w.isNot THEN Rows \ Joined(said, w.operator) ELSE Joined(said, w.operator)

\* Its text; none where nothing is said.
Clear(w, ks, texts) == IF Says(w, ks, texts) = {} THEN {} ELSE {AllOf(w, Says(w, ks, texts))}

\* No list is empty.
Full(ks) == \A i \in DOMAIN ks : ks[i] \notin {"inEmpty", "notInEmpty"}

\* The parts of two texts.
LEMMA PartsOfBoth ==
  ASSUME NEW S, NEW a \in Seq(S), NEW b \in Seq(S)
  PROVE  Range(a \o b) = Range(a) \cup Range(b)
<1>1. /\ a \o b \in Seq(S) /\ Len(a) \in Nat /\ Len(b) \in Nat /\ Len(a \o b) = Len(a) + Len(b)
      /\ \A k \in 1..Len(a) : (a \o b)[k] = a[k]
      /\ \A k \in 1..Len(b) : (a \o b)[Len(a) + k] = b[k]
      /\ \A k \in 1..Len(a \o b) : k \in 1..Len(a) \/ \E i \in 1..Len(b) : k = Len(a) + i
  BY Concatenation
<1> DEFINE c == a \o b
<1>2. DOMAIN c = 1..Len(c) /\ DOMAIN a = 1..Len(a) /\ DOMAIN b = 1..Len(b) /\ Len(c) = Len(a) + Len(b)
  BY <1>1
<1>3. /\ \A k \in 1..Len(a) : c[k] = a[k] /\ k \in 1..Len(c)
      /\ \A k \in 1..Len(b) : c[Len(a) + k] = b[k] /\ Len(a) + k \in 1..Len(c)
      /\ \A k \in 1..Len(c) : k \in 1..Len(a) \/ \E i \in 1..Len(b) : k = Len(a) + i
  BY <1>1
<1> HIDE DEF c
<1>4. ASSUME NEW x \in Range(c) PROVE x \in Range(a) \cup Range(b)
  <2>1. PICK k \in 1..Len(c) : x = c[k]
    BY <1>2, <1>4 DEF Range
  <2>2. CASE k \in 1..Len(a)
    BY <1>2, <1>3, <2>1, <2>2 DEF Range
  <2>3. CASE \E i \in 1..Len(b) : k = Len(a) + i
    <3>1. PICK i \in 1..Len(b) : k = Len(a) + i
      BY <2>3
    <3>2. x = b[i]
      BY <1>3, <2>1, <3>1
    <3> QED
      BY <1>2, <3>2 DEF Range
  <2> QED
    BY <1>3, <2>2, <2>3
<1>5. ASSUME NEW x \in Range(a) PROVE x \in Range(c)
  BY <1>2, <1>3, <1>5 DEF Range
<1>6. ASSUME NEW x \in Range(b) PROVE x \in Range(c)
  BY <1>2, <1>3, <1>6 DEF Range
<1> QED
  BY <1>4, <1>5, <1>6 DEF c

\* The parts of a text with one more.
LEMMA OnePartMore ==
  ASSUME NEW S, NEW a \in Seq(S), NEW x \in S
  PROVE  Range(Append(a, x)) = Range(a) \cup {x}
<1> DEFINE c == Append(a, x)
<1>1. /\ Len(a) \in Nat /\ DOMAIN a = 1..Len(a) /\ DOMAIN c = 1..(Len(a) + 1) /\ c[Len(a) + 1] = x
      /\ \A k \in 1..Len(a) : c[k] = a[k]
  OBVIOUS
<1> HIDE DEF c
<1>2. \A k \in 1..(Len(a) + 1) : k \in 1..Len(a) \/ k = Len(a) + 1
  BY <1>1
<1>3. \A k \in 1..Len(a) : k \in 1..(Len(a) + 1)
  BY <1>1
<1>4. Len(a) + 1 \in 1..(Len(a) + 1)
  BY <1>1
<1>5. ASSUME NEW y \in Range(c) PROVE y \in Range(a) \cup {x}
  BY <1>1, <1>2, <1>5 DEF Range
<1>6. ASSUME NEW y \in Range(a) PROVE y \in Range(c)
  BY <1>1, <1>3, <1>6 DEF Range
<1>7. x \in Range(c)
  BY <1>1, <1>4 DEF Range
<1> QED
  BY <1>5, <1>6, <1>7 DEF c

\* A statement with a piece behind it.
LEMMA AddKeeps ==
  ASSUME NEW s \in Statements, NEW piece \in Statements
  PROVE  Add(s, piece) \in Statements /\ Add(s, piece).parts = s.parts \o piece.parts /\ Add(s, piece).next \in Nat
<1> DEFINE t == [marks |-> s.marks \o piece.marks, args |-> s.args \o piece.args, next |-> piece.next,
                 parts |-> s.parts \o piece.parts, ok |-> s.ok /\ piece.ok]
<1>1. /\ s.marks \in Seq(Marks) /\ piece.marks \in Seq(Marks) /\ s.args \in Seq(Vals) /\ piece.args \in Seq(Vals)
      /\ s.parts \in Seq(SUBSET Rows) /\ piece.parts \in Seq(SUBSET Rows) /\ piece.next \in Nat
  BY DEF Statements
<1>2. Add(s, piece) = t
  <2> DEFINE ok == s.ok /\ piece.ok
  <2>1. Add(s, piece) = [s EXCEPT !.marks = @ \o piece.marks, !.args = @ \o piece.args, !.next = piece.next,
                                  !.parts = @ \o piece.parts, !.ok = ok]
    BY DEF Add
  <2>2. t = [marks |-> s.marks \o piece.marks, args |-> s.args \o piece.args, next |-> piece.next,
             parts |-> s.parts \o piece.parts, ok |-> ok]
    OBVIOUS
  <2> HIDE DEF ok, t
  <2> QED
    BY <2>1, <2>2 DEF Statements
<1>3. s.marks \o piece.marks \in Seq(Marks) /\ s.args \o piece.args \in Seq(Vals) /\ s.parts \o piece.parts \in Seq(SUBSET Rows)
  BY <1>1, ConcatProperties
<1>4. t \in Statements
  <2>1. (s.ok /\ piece.ok) \in BOOLEAN
    OBVIOUS
  <2> QED
    BY <1>1, <1>3, <2>1 DEF Statements
<1>5. t.parts = s.parts \o piece.parts /\ t.next = piece.next
  OBVIOUS
<1> HIDE DEF t
<1> QED
  BY <1>1, <1>2, <1>4, <1>5

\* The conditions of a clause say what each of them means.
LEMMA ConditionsSay ==
  ASSUME NEW ks \in Seq(Kinds), Len(ks) <= MaxConditions, Full(ks), NEW g \in Generators, ~NameIsString(g),
         NEW n \in Nat, NEW list \in Seq(DOMAIN ks)
  PROVE  /\ Conditioned(From(n), list, ks, g) \in Statements
         /\ Range(Conditioned(From(n), list, ks, g).parts) = MeaningsOf(list, ks)
<1> DEFINE last == Len(list)
           D == DOMAIN ks
           t == Conditioned(From(n), list, ks, g)
<1>1. From(n) \in Statements /\ From(n).parts = <<>>
  BY StartStands DEF Standing
<1>2. ASSUME NEW s \in Statements, NEW i \in D
      PROVE  /\ buildCondition(s, i, ks[i], g) \in Statements
             /\ buildCondition(s, i, ks[i], g).parts = Append(s.parts, Meant(i, ks[i]))
  <2> DEFINE kind == ks[i]
  <2>1. i \in 1..MaxConditions /\ kind \in Kinds /\ kind \notin {"inEmpty", "notInEmpty"}
    BY ConditionsAssumption DEF Full
  <2>2. Leaves(i, kind, g) = Meant(i, kind)
    BY DEF Leaves
  <2> HIDE DEF kind
  <2>3. /\ buildCondition(s, i, kind, g) \in Statements
        /\ buildCondition(s, i, kind, g).parts = Append(s.parts, Leaves(i, kind, g))
    BY <2>1, ConditionBuilt
  <2> QED
    BY <2>2, <2>3 DEF kind
<1>3. PICK v : ConditionTurns(v, Statements, From(n), list, ks, g)
  <2>1. \A s \in Statements, i \in D : buildCondition(s, i, ks[i], g) \in Statements
    BY <1>2
  <2> DEFINE start == From(n)
  <2>2. start \in Statements
    BY <1>1
  <2>3. list \in Seq(D)
    OBVIOUS
  <2> HIDE DEF start, D
  <2>4. \E v : ConditionTurns(v, Statements, start, list, ks, g)
    BY <2>1, <2>2, <2>3, ConditionsInTurn
  <2> QED
    BY <2>4 DEF start
<1>t. /\ v \in [0..last -> Statements] /\ v[0] = From(n) /\ v[last] = t
      /\ \A k \in 0..last : k < last => v[k + 1] = buildCondition(v[k], list[k + 1], ks[list[k + 1]], g)
  BY <1>3 DEF ConditionTurns
<1> HIDE DEF t
<1> DEFINE M(j) == Meant(list[j], ks[list[j]])
           K == {k \in 0..last : Range(v[k].parts) = {M(j) : j \in 1..k}}
<1>4. last \in Nat /\ DOMAIN list = 1..last /\ \A j \in 1..last : list[j] \in D
  OBVIOUS
<1>5. 0 \in K
  <2>1. Range(<<>>) = {}
    BY DEF Range
  <2>2. {M(j) : j \in 1..0} = {}
    OBVIOUS
  <2>3. Range(v[0].parts) = {M(j) : j \in 1..0}
    BY <1>1, <1>t, <2>1, <2>2
  <2> QED
    BY <1>4, <2>3
<1>6. ASSUME NEW k \in 0..last, k \in K, k < last PROVE k + 1 \in K
  <2>1. k + 1 \in 1..last /\ k + 1 \in 0..last /\ k \in Nat /\ v[k] \in Statements
    BY <1>t, <1>4, <1>6
  <2>2. list[k + 1] \in D
    BY <1>4, <2>1
  <2>3. v[k + 1].parts = Append(v[k].parts, M(k + 1))
    BY <1>2, <1>t, <1>6, <2>1, <2>2
  <2>4. v[k].parts \in Seq(SUBSET Rows) /\ M(k + 1) \in SUBSET Rows
    BY <2>1 DEF Statements, Meant
  <2>5. Range(v[k + 1].parts) = Range(v[k].parts) \cup {M(k + 1)}
    <3> DEFINE a == v[k].parts
               x == M(k + 1)
               S == SUBSET Rows
    <3>1. a \in Seq(S) /\ x \in S /\ v[k + 1].parts = Append(a, x)
      BY <2>3, <2>4
    <3> HIDE DEF a, x, S
    <3>2. Range(v[k + 1].parts) = Range(a) \cup {x}
      BY <3>1, OnePartMore
    <3> QED
      BY <3>2 DEF a, x
  <2> HIDE DEF M
  <2>6. \A j : j \in 1..(k + 1) <=> j \in 1..k \/ j = k + 1
    BY <2>1
  <2>7. {M(j) : j \in 1..(k + 1)} = {M(j) : j \in 1..k} \cup {M(k + 1)}
    BY <2>6
  <2> QED
    BY <1>6, <2>1, <2>5, <2>7
<1>7. last \in K
  <2>1. last \in 0..last
    BY <1>4
  <2> HIDE DEF K
  <2> QED
    BY <1>4, <1>5, <1>6, <2>1, UpTo
<1>8. {M(j) : j \in 1..last} = MeaningsOf(list, ks)
  BY <1>4 DEF Range, MeaningsOf
<1>9. t \in Statements /\ Range(t.parts) = MeaningsOf(list, ks)
  <2>1. last \in 0..last
    BY <1>4
  <2> QED
    BY <1>t, <1>7, <1>8, <2>1
<1> QED
  BY <1>9 DEF t

\* What is built of each of some clauses has its text, wherever its numbering starts.
Telling(groups, G, texts) ==
  \A d \in G, next \in Nat : groups[<<d, next>>] \in Statements /\ Range(groups[<<d, next>>].parts) = texts[d]

\* Its groups say what their texts are.
LEMMA GroupsSay ==
  ASSUME NEW s \in Statements, NEW G, NEW list \in Seq(G), NEW groups, NEW texts,
         Telling(groups, G, texts)
  PROVE  /\ Grouped(s, list, groups) \in Statements
         /\ Range(Grouped(s, list, groups).parts) = Range(s.parts) \cup TextsOf(list, texts)
<1> DEFINE last == Len(list)
           t == Grouped(s, list, groups)
<1>1. ASSUME NEW u \in Statements, NEW d \in G
      PROVE  /\ Add(u, groups[<<d, u.next>>]) \in Statements
             /\ Range(Add(u, groups[<<d, u.next>>]).parts) = Range(u.parts) \cup texts[d]
  <2> DEFINE piece == groups[<<d, u.next>>]
             S == SUBSET Rows
  <2>1. u.next \in Nat /\ u.parts \in Seq(S)
    BY DEF Statements
  <2>2. piece \in Statements /\ Range(piece.parts) = texts[d] /\ piece.parts \in Seq(S)
    BY <2>1 DEF Statements, Telling
  <2> HIDE DEF piece, S
  <2>3. Add(u, piece) \in Statements /\ Add(u, piece).parts = u.parts \o piece.parts
    BY <2>2, AddKeeps
  <2>4. Range(u.parts \o piece.parts) = Range(u.parts) \cup Range(piece.parts)
    BY <2>1, <2>2, PartsOfBoth
  <2> QED
    BY <2>2, <2>3, <2>4 DEF piece
<1>2. PICK v : GroupTurns(v, Statements, s, list, groups)
  <2>1. \A u \in Statements, d \in G : Add(u, groups[<<d, u.next>>]) \in Statements
    BY <1>1
  <2> QED
    BY <2>1, GroupsInTurn
<1>3. /\ v \in [0..last -> Statements] /\ v[0] = s /\ v[last] = t
      /\ \A k \in 0..last : k < last => v[k + 1] = Add(v[k], groups[<<list[k + 1], v[k].next>>])
  BY <1>2 DEF GroupTurns
<1> HIDE DEF t
<1> DEFINE U(k) == UNION {texts[list[j]] : j \in 1..k}
           K == {k \in 0..last : Range(v[k].parts) = Range(s.parts) \cup U(k)}
<1>4. last \in Nat /\ DOMAIN list = 1..last /\ \A j \in 1..last : list[j] \in G
  OBVIOUS
<1>5. 0 \in K
  <2>1. U(0) = {}
    OBVIOUS
  <2> HIDE DEF U
  <2> QED
    BY <1>3, <1>4, <2>1
<1>6. ASSUME NEW k \in 0..last, k \in K, k < last PROVE k + 1 \in K
  <2>1. k + 1 \in 1..last /\ k + 1 \in 0..last /\ k \in Nat /\ v[k] \in Statements
    BY <1>3, <1>4, <1>6
  <2>2. list[k + 1] \in G
    BY <1>4, <2>1
  <2>3. Range(v[k + 1].parts) = Range(v[k].parts) \cup texts[list[k + 1]]
    BY <1>1, <1>3, <1>6, <2>1, <2>2
  <2>4. \A j : j \in 1..(k + 1) <=> j \in 1..k \/ j = k + 1
    BY <2>1
  <2>5. U(k + 1) = U(k) \cup texts[list[k + 1]]
    <3>1. ASSUME NEW x \in U(k + 1) PROVE x \in U(k) \cup texts[list[k + 1]]
      <4>1. PICK j \in 1..(k + 1) : x \in texts[list[j]]
        BY <3>1
      <4> QED
        BY <2>4, <4>1
    <3>2. ASSUME NEW x \in U(k) \cup texts[list[k + 1]] PROVE x \in U(k + 1)
      BY <2>4, <3>2
    <3> QED
      BY <3>1, <3>2
  <2> HIDE DEF U
  <2> QED
    BY <1>6, <2>1, <2>3, <2>5
<1>7. last \in K
  <2>1. last \in 0..last
    BY <1>4
  <2> HIDE DEF K
  <2> QED
    BY <1>4, <1>5, <1>6, <2>1, UpTo
<1>8. U(last) = TextsOf(list, texts)
  BY <1>4 DEF Range, TextsOf
<1> HIDE DEF U
<1>9. t \in Statements /\ Range(t.parts) = Range(s.parts) \cup TextsOf(list, texts)
  <2>1. last \in 0..last
    BY <1>4
  <2> QED
    BY <1>3, <1>7, <1>8, <2>1
<1> QED
  BY <1>9 DEF t

\* The parts of a clause become one.
Closed(w, whole) == [whole EXCEPT !.parts = IF @ = <<>> THEN <<>> ELSE <<Whole(w, @)>>]

\* That is all of them, joined.
LEMMA PartsClosed ==
  ASSUME NEW whole \in Statements, NEW w
  PROVE  /\ Closed(w, whole) \in Statements
         /\ Range(Closed(w, whole).parts) = IF Range(whole.parts) = {} THEN {} ELSE {AllOf(w, Range(whole.parts))}
<1> DEFINE parts == whole.parts
           new == IF parts = <<>> THEN <<>> ELSE <<Whole(w, parts)>>
           t == [whole EXCEPT !.parts = new]
<1>1. parts \in Seq(SUBSET Rows)
  BY DEF Statements
<1>2. Whole(w, parts) = AllOf(w, Range(parts))
  BY DEF Whole, AllOf
<1>3. AllOf(w, Range(parts)) \in SUBSET Rows
  <2>1. Range(parts) \subseteq SUBSET Rows
    <3> HIDE DEF parts
    <3> QED
      BY <1>1 DEF Range
  <2> HIDE DEF parts
  <2>2. UNION Range(parts) \in SUBSET Rows
    BY <2>1
  <2> QED
    BY <2>2 DEF AllOf, Joined
<1>4. (parts = <<>> <=> Range(parts) = {}) /\ Range(<<>>) = {} /\ \A x : Range(<<x>>) = {x}
  <2>1. Range(<<>>) = {} /\ \A x : Range(<<x>>) = {x}
    BY DEF Range
  <2>2. parts # <<>> => Range(parts) # {}
    <3> HIDE DEF parts
    <3>1. parts # <<>> => 1 \in DOMAIN parts
      BY <1>1, EmptySeq
    <3> QED
      BY <3>1 DEF Range
  <2> QED
    BY <2>1, <2>2
<1> HIDE DEF parts
<1>5. new \in Seq(SUBSET Rows) /\ Range(new) = IF Range(parts) = {} THEN {} ELSE {AllOf(w, Range(parts))}
  <2>1. <<>> \in Seq(SUBSET Rows) /\ \A r \in SUBSET Rows : <<r>> \in Seq(SUBSET Rows)
    OBVIOUS
  <2> QED
    BY <1>2, <1>3, <1>4, <2>1
<1> HIDE DEF new
<1>6. t \in Statements /\ t.parts = new
  BY <1>5 DEF Statements
<1> HIDE DEF t
<1>7. t = Closed(w, whole)
  BY DEF t, new, parts, Closed
<1> QED
  BY <1>5, <1>6, <1>7 DEF parts

\* What is built of a clause is a statement, whatever there is of its groups.
LEMMA ClauseBuilds ==
  ASSUME NEW ks \in Seq(Kinds), Len(ks) <= MaxConditions, Full(ks), NEW g \in Generators, ~NameIsString(g),
         NEW n \in Nat, NEW G, NEW w, w.conditions \in Seq(DOMAIN ks), w.groups \in Seq(G),
         NEW groups, \A d \in G, next \in Nat : groups[<<d, next>>] \in Statements
  PROVE  buildClause(w, groups, n, ks, g) \in Statements
<1> DEFINE direct == Conditioned(From(n), w.conditions, ks, g)
           whole == Grouped(direct, w.groups, groups)
<1>1. direct \in Statements
  <2> DEFINE list == w.conditions
  <2>1. list \in Seq(DOMAIN ks)
    OBVIOUS
  <2> HIDE DEF list
  <2>2. Conditioned(From(n), list, ks, g) \in Statements
    BY <2>1, ConditionsSay
  <2> QED
    BY <2>2 DEF list
<1> HIDE DEF direct
<1>2. whole \in Statements
  <2> DEFINE list == w.groups
  <2>1. \A u \in Statements, d \in G : Add(u, groups[<<d, u.next>>]) \in Statements
    BY AddKeeps DEF Statements
  <2>2. list \in Seq(G)
    OBVIOUS
  <2> HIDE DEF list
  <2>3. Grouped(direct, list, groups) \in Statements
    BY <1>1, <2>1, <2>2, GroupsKeep
  <2> QED
    BY <2>3 DEF list
<1>3. buildClause(w, groups, n, ks, g) = Closed(w, whole)
  BY DEF buildClause, direct, Conditioned, Grouped, Closed
<1> HIDE DEF whole
<1> QED
  BY <1>2, <1>3, PartsClosed

\* Its text is what it says.
ClauseTells(w, groups, n, ks, g, texts) == Range(buildClause(w, groups, n, ks, g).parts) = Clear(w, ks, texts)

\* That is so where the texts of its groups are what they say.
LEMMA ClauseSays ==
  ASSUME NEW ks \in Seq(Kinds), Len(ks) <= MaxConditions, Full(ks), NEW g \in Generators, ~NameIsString(g),
         NEW n \in Nat, NEW G, NEW w, w.conditions \in Seq(DOMAIN ks), w.groups \in Seq(G), NEW groups, NEW texts,
         Telling(groups, G, texts)
  PROVE  ClauseTells(w, groups, n, ks, g, texts)
<1> DEFINE direct == Conditioned(From(n), w.conditions, ks, g)
           whole == Grouped(direct, w.groups, groups)
<1>1. direct \in Statements /\ Range(direct.parts) = MeaningsOf(w.conditions, ks)
  <2> DEFINE list == w.conditions
  <2>1. list \in Seq(DOMAIN ks)
    OBVIOUS
  <2> HIDE DEF list
  <2>2. /\ Conditioned(From(n), list, ks, g) \in Statements
        /\ Range(Conditioned(From(n), list, ks, g).parts) = MeaningsOf(list, ks)
    BY <2>1, ConditionsSay
  <2> QED
    BY <2>2 DEF list
<1> HIDE DEF direct
<1>2. whole \in Statements /\ Range(whole.parts) = Says(w, ks, texts)
  <2> DEFINE list == w.groups
  <2>1. list \in Seq(G)
    OBVIOUS
  <2> HIDE DEF list
  <2>2. /\ Grouped(direct, list, groups) \in Statements
        /\ Range(Grouped(direct, list, groups).parts) = Range(direct.parts) \cup TextsOf(list, texts)
    BY <1>1, <2>1, GroupsSay
  <2> QED
    BY <1>1, <2>2 DEF list, Says
<1>3. buildClause(w, groups, n, ks, g) = Closed(w, whole)
  BY DEF buildClause, direct, Conditioned, Grouped, Closed
<1> HIDE DEF whole
<1> QED
  BY <1>2, <1>3, PartsClosed DEF Clear, ClauseTells

\* What is built of the clauses cs level by level.
Levels(v, cs, ks, g) ==
  /\ \A k \in 0..Len(cs), x \in (DOMAIN cs) \X Nat : v[k][x] \in Statements
  /\ \A k \in 0..Len(cs), x \in (DOMAIN cs) \X Nat :
       k < Len(cs) => v[k + 1][x] = buildClause(cs[x[1]], v[k], x[2], ks, g)

\* The recursion has its levels, and the last of them is what it is.
LEMMA LevelsBuilt ==
  ASSUME NEW ks \in Seq(Kinds), Len(ks) <= MaxConditions, Full(ks), NEW g \in Generators, ~NameIsString(g),
         NEW cs, Len(cs) \in Nat, Referring(cs, ks), NEW q, q.clauses = cs, q.kinds = ks
  PROVE  \E v : Levels(v, cs, ks, g) /\ v[Len(cs)] = buildWhereRecursive(q, g)
<1> DEFINE last == Len(cs)
           X == (DOMAIN cs) \X Nat
           S == [X -> Statements]
           Above(h) == [x \in X |-> buildClause(cs[x[1]], h, x[2], ks, g)]
           base == [x \in X |-> From(x[2])]
           step == [y \in S \X (1..last) |-> Above(y[1])]
           IsBuild(h) == h = [levels \in 0..last |->
                                [x \in X |-> IF levels = 0 THEN From(x[2])
                                             ELSE buildClause(cs[x[1]], h[levels - 1], x[2], ks, g)]]
           build == CHOOSE h : IsBuild(h)
<1>0. last \in Nat
  OBVIOUS
<1>1. base \in S
  <2>1. \A x \in X : From(x[2]) \in Statements
    BY StartStands DEF Standing
  <2> QED
    BY <2>1
<1>2. ASSUME NEW h \in S PROVE Above(h) \in S
  <2>1. ASSUME NEW x \in X PROVE buildClause(cs[x[1]], h, x[2], ks, g) \in Statements
    <3> DEFINE w == cs[x[1]]
               G == DOMAIN cs
    <3>1. w.conditions \in Seq(DOMAIN ks) /\ w.groups \in Seq(G) /\ x[2] \in Nat
      BY DEF Referring
    <3>2. \A d \in G, next \in Nat : h[<<d, next>>] \in Statements
      <4>1. \A d \in G, next \in Nat : <<d, next>> \in X
        OBVIOUS
      <4> QED
        BY <4>1
    <3> HIDE DEF w, G, X, S
    <3>3. buildClause(w, h, x[2], ks, g) \in Statements
      BY <3>1, <3>2, ClauseBuilds
    <3> QED
      BY <3>3 DEF w
  <2> QED
    BY <2>1
<1>3. step \in Steps(S, last)
  <2> HIDE DEF S, Above, last
  <2> QED
    BY <1>2 DEF Steps
<1>4. \A h \in S, k \in 1..last : step[<<h, k>>] = Above(h)
  <2> HIDE DEF S, Above, last
  <2> QED
    OBVIOUS
<1> HIDE DEF step
<1>5. PICK v : Turns(v, S, last, base, step)
  <2> HIDE DEF S, base, last
  <2> QED
    BY <1>0, <1>1, <1>3, TurnsExist
<1>6. v \in [0..last -> S] /\ v[0] = base /\ \A k \in 0..last : k < last => v[k + 1] = step[<<v[k], k + 1>>]
  BY <1>5 DEF Turns
<1>7. \E h : IsBuild(h)
  <2>1. ASSUME NEW k \in 0..last
        PROVE  v[k] = [x \in X |-> IF k = 0 THEN From(x[2]) ELSE buildClause(cs[x[1]], v[k - 1], x[2], ks, g)]
    <3>1. CASE k = 0
      BY <1>6, <3>1
    <3>2. CASE k # 0
      <4>1. k - 1 \in 0..last /\ k - 1 < last /\ (k - 1) + 1 = k /\ k \in 1..last
        BY <1>0, <3>2
      <4> HIDE DEF last, S, X
      <4>2. v[k] = Above(v[k - 1])
        <5>1. v[k - 1] \in S
          BY <1>6, <4>1
        <5>2. v[k] = step[<<v[k - 1], k>>]
          BY <1>6, <4>1
        <5> HIDE DEF Above
        <5> QED
          BY <1>4, <4>1, <5>1, <5>2
      <4> QED
        BY <3>2, <4>2
    <3> QED
      BY <3>1, <3>2
  <2> DEFINE other == [levels \in 0..last |->
                         [x \in X |-> IF levels = 0 THEN From(x[2])
                                      ELSE buildClause(cs[x[1]], v[levels - 1], x[2], ks, g)]]
  <2>2. v = other
    <3> HIDE DEF last, X, S
    <3> QED
      BY <1>6, <2>1
  <2>3. IsBuild(v)
    BY <2>2
  <2> HIDE DEF IsBuild
  <2> QED
    BY <2>3
<1>8. IsBuild(build)
  BY <1>7
<1>9. buildWhereRecursive(q, g) = build[last]
  BY DEF buildWhereRecursive
<1> HIDE DEF build
<1>10. build[0] = base /\ 0 \in 0..last
  BY <1>0, <1>8
<1>11. ASSUME NEW k \in 0..last, k < last PROVE k + 1 \in 0..last /\ build[k + 1] = Above(build[k])
  <2>1. k + 1 \in 0..last /\ k + 1 # 0 /\ (k + 1) - 1 = k
    BY <1>0, <1>11
  <2>2. build[k + 1] = [x \in X |-> IF k + 1 = 0 THEN From(x[2])
                                    ELSE buildClause(cs[x[1]], build[(k + 1) - 1], x[2], ks, g)]
    <3> HIDE DEF X, last
    <3> QED
      BY <1>8, <2>1
  <2> QED
    BY <2>1, <2>2
<1> HIDE DEF IsBuild
<1> DEFINE K == {k \in 0..last : build[k] \in S}
<1>12. \A k \in 0..last : k \in K
  <2>1. 0 \in K
    BY <1>1, <1>10
  <2>2. ASSUME NEW k \in 0..last, k \in K, k < last PROVE k + 1 \in K
    <3> HIDE DEF Above, S
    <3> QED
      BY <1>2, <1>11, <2>2
  <2> HIDE DEF K, last
  <2> QED
    BY <1>0, <2>1, <2>2, UpTo
<1>13. \A k \in 0..last, x \in X : build[k][x] \in Statements
  BY <1>12
<1>14. \A k \in 0..last, x \in X : k < last => build[k + 1][x] = buildClause(cs[x[1]], build[k], x[2], ks, g)
  BY <1>11
<1>15. Levels(build, cs, ks, g)
  BY <1>13, <1>14 DEF Levels
<1> QED
  BY <1>9, <1>15

\* The texts of clauses, each what the clause says, and ranks that show that no clause is
\* below itself.
Sound(cs, ks, texts, rank) ==
  /\ \A d \in 1..Len(cs) : texts[d] = Clear(cs[d], ks, texts)
  /\ rank \in [1..Len(cs) -> 1..Len(cs)]
  /\ \A d, e \in 1..Len(cs) : rank[d] = rank[e] => d = e
  /\ \A d \in 1..Len(cs) : \A e \in Range(cs[d].groups) : e \in 1..Len(cs) /\ rank[e] < rank[d]

\* The built clauses have these texts.
TextBuilt(built, cs, texts) ==
  \A id \in 1..Len(cs), n \in Nat : built[<<id, n>>] \in Statements /\ Range(built[<<id, n>>].parts) = texts[id]

\* Whatever the number its placeholders start at, what is built of a clause has its text.
LEMMA ClauseText ==
  ASSUME NEW ks \in Seq(Kinds), Len(ks) <= MaxConditions, Full(ks), NEW g \in Generators, ~NameIsString(g),
         NEW cs, AreClauses(cs, ks), NEW q, q.clauses = cs, q.kinds = ks,
         NEW texts, NEW rank, Sound(cs, ks, texts, rank)
  PROVE  TextBuilt(buildWhereRecursive(q, g), cs, texts)
<1> DEFINE last == Len(cs)
           X == (DOMAIN cs) \X Nat
<1>0. Referring(cs, ks) /\ DOMAIN cs = 1..last /\ last \in Nat
  BY ClausesRefer
<1>1. PICK v : Levels(v, cs, ks, g) /\ v[last] = buildWhereRecursive(q, g)
  BY <1>0, LevelsBuilt
<1>2. /\ \A k \in 0..last, x \in X : v[k][x] \in Statements
      /\ \A k \in 0..last, x \in X : k < last => v[k + 1][x] = buildClause(cs[x[1]], v[k], x[2], ks, g)
  BY <1>1 DEF Levels
<1>3. /\ \A d \in 1..last : texts[d] = Clear(cs[d], ks, texts)
      /\ rank \in [1..last -> 1..last]
      /\ \A d \in 1..last : \A e \in Range(cs[d].groups) : e \in 1..last /\ rank[e] < rank[d]
  BY DEF Sound
<1> DEFINE K == {k \in 0..last : \A d \in 1..last, next \in Nat : rank[d] <= k => Range(v[k][<<d, next>>].parts) = texts[d]}
<1> HIDE DEF last
<1>4. 0 \in K
  <2>1. \A d \in 1..last : ~(rank[d] <= 0)
    BY <1>0, <1>3
  <2> QED
    BY <1>0, <2>1
<1>5. ASSUME NEW k \in 0..last, k \in K, k < last PROVE k + 1 \in K
  <2>1. k + 1 \in 0..last /\ k \in Nat
    BY <1>0, <1>5
  <2>2. ASSUME NEW d \in 1..last, NEW next \in Nat, rank[d] <= k + 1
        PROVE  Range(v[k + 1][<<d, next>>].parts) = texts[d]
    <3> DEFINE w == cs[d]
               G == Range(w.groups)
               h == v[k]
    <3>1. <<d, next>> \in X /\ <<d, next>>[1] = d /\ <<d, next>>[2] = next
      BY <1>0
    <3>2. v[k + 1][<<d, next>>] = buildClause(w, h, next, ks, g)
      BY <1>2, <1>5, <3>1
    <3>3. w.conditions \in Seq(DOMAIN ks) /\ w.groups \in Seq(DOMAIN cs)
      BY <1>0 DEF Referring
    <3>4. w.groups \in Seq(G)
      <4> DEFINE list == w.groups
      <4>1. list \in Seq(DOMAIN cs)
        BY <3>3
      <4> HIDE DEF list
      <4>2. list \in Seq(Range(list))
        BY <4>1 DEF Range
      <4> QED
        BY <4>2 DEF list
    <3>5. Telling(h, G, texts)
      <4> SUFFICES ASSUME NEW e \in G, NEW m \in Nat
                   PROVE  h[<<e, m>>] \in Statements /\ Range(h[<<e, m>>].parts) = texts[e]
        BY DEF Telling
      <4>1. e \in 1..last /\ rank[e] < rank[d]
        BY <1>3
      <4>2. rank[e] \in 1..last /\ rank[d] \in 1..last
        BY <1>3, <4>1
      <4>3. rank[e] <= k
        BY <1>0, <2>1, <2>2, <4>1, <4>2
      <4>4. <<e, m>> \in X
        BY <1>0, <4>1
      <4>5. Range(v[k][<<e, m>>].parts) = texts[e]
        BY <1>5, <4>1, <4>3
      <4> QED
        BY <1>2, <4>4, <4>5
    <3> HIDE DEF w, G, h
    <3>6. ClauseTells(w, h, next, ks, g, texts)
      BY <3>3, <3>4, <3>5, ClauseSays
    <3>7. texts[d] = Clear(w, ks, texts)
      BY <1>3 DEF w
    <3> QED
      BY <3>2, <3>6, <3>7 DEF ClauseTells
  <2> QED
    BY <2>1, <2>2
<1>6. last \in K /\ last \in 0..last
  <2>1. last \in 0..last
    BY <1>0
  <2> HIDE DEF K
  <2> QED
    BY <1>0, <1>4, <1>5, <2>1, UpTo
<1>7. ASSUME NEW id \in 1..Len(cs), NEW n \in Nat
      PROVE  v[last][<<id, n>>] \in Statements /\ Range(v[last][<<id, n>>].parts) = texts[id]
  <2>1. id \in 1..last /\ <<id, n>> \in X
    BY <1>0 DEF last
  <2>2. rank[id] <= last
    BY <1>0, <1>3, <2>1
  <2> QED
    BY <1>2, <1>6, <2>1, <2>2
<1> DEFINE built == v[last]
<1>8. TextBuilt(built, cs, texts)
  BY <1>7 DEF TextBuilt
<1>9. built = buildWhereRecursive(q, g)
  BY <1>1
<1> HIDE DEF built
<1> QED
  BY <1>8, <1>9

-----------------------------------------------------------------------------
(* What the statements of the generators leave.                            *)

\* The statements whose WHERE has the text T, or none if that is empty.
Tells(T) == {s \in Statements : Range(s.parts) = T}

\* Placeholders behind the WHERE leave it as it is.
LEMMA PlaceTells ==
  ASSUME NEW T, NEW s \in Tells(T), NEW style \in {"$", "?"}, NEW values \in Seq(Vals)
  PROVE  Place(s, style, values) \in Tells(T)
<1>1. s \in Statements /\ Range(s.parts) = T
  BY DEF Tells
<1>2. Place(s, style, values) \in Statements /\ Place(s, style, values).parts = s.parts
  BY <1>1, Placing
<1> QED
  BY <1>1, <1>2 DEF Tells

\* So do LIMIT and OFFSET,
LEMMA TailTells ==
  ASSUME NEW T, NEW s \in Tells(T), NEW style \in {"$", "?"}, NEW tail
  PROVE  LimitOffset(s, style, tail) \in Tells(T)
<1> DEFINE limit == IF tail \in {"limit", "both"} THEN <<Value("limit")>> ELSE <<>>
           offset == IF tail \in {"offset", "both"} THEN <<Value("offset")>> ELSE <<>>
<1>1. limit \in Seq(Vals) /\ offset \in Seq(Vals)
  BY ValuesOf DEF Names
<1>2. LimitOffset(s, style, tail) = Place(Place(s, style, limit), style, offset)
  BY DEF LimitOffset
<1> HIDE DEF limit, offset
<1> QED
  BY <1>1, <1>2, PlaceTells

\* HAVING,
LEMMA HavingTells ==
  ASSUME NEW T, NEW s \in Tells(T), NEW style \in {"$", "?"}, NEW having
  PROVE  buildHaving(s, style, having) \in Tells(T)
<1> DEFINE values == IF having = "value" THEN <<Value("having")>> ELSE <<>>
<1>1. values \in Seq(Vals)
  BY ValuesOf DEF Names
<1>2. buildHaving(s, style, having) = Place(s, style, values)
  BY DEF buildHaving
<1> HIDE DEF values
<1> QED
  BY <1>1, <1>2, PlaceTells

\* and a refusal.
LEMMA RefusedTells ==
  ASSUME NEW T, NEW s \in Tells(T), NEW refused \in BOOLEAN
  PROVE  Refused(s, refused) \in Tells(T)
<1>1. s \in Statements /\ Range(s.parts) = T
  BY DEF Tells
<1>2. Refused(s, refused) \in Statements /\ Refused(s, refused).parts = s.parts
  BY <1>1, RefusedStatement
<1> QED
  BY <1>1, <1>2 DEF Tells

\* What goes before the WHERE has none.
LEMMA BeforeWhere ==
  /\ Start \in Tells({}) /\ [Start EXCEPT !.parts = <<{}>>] \in Tells({{}})
  /\ \A style \in {"$", "?"} : Place(Start, style, Set) \in Tells({}) /\ Embed(Start, style, CTE) \in Tells({})
<1>1. Start \in Statements /\ Start.parts = <<>>
  <2>1. Postgres \in Generators
    BY TheGenerators
  <2> QED
    BY <2>1, Starting DEF Standing, Start
<1>2. Range(<<>>) = {} /\ Range(<<{}>>) = {{}}
  BY DEF Range
<1>3. Start \in Tells({})
  BY <1>1, <1>2 DEF Tells
<1>4. [Start EXCEPT !.parts = <<{}>>] \in Tells({{}})
  <2> DEFINE t == [Start EXCEPT !.parts = <<{}>>]
  <2>1. <<{}>> \in Seq(SUBSET Rows)
    OBVIOUS
  <2>2. t \in Statements /\ t.parts = <<{}>>
    BY <1>1, <2>1 DEF Statements
  <2> HIDE DEF t
  <2>3. t \in Tells({{}})
    BY <1>2, <2>2 DEF Tells
  <2> QED
    BY <2>3 DEF t
<1>5. ASSUME NEW style \in {"$", "?"}
      PROVE  Place(Start, style, Set) \in Tells({}) /\ Embed(Start, style, CTE) \in Tells({})
  <2>1. Set \in Seq(Vals) /\ CTE \in Seq(Vals)
    BY TheValues
  <2>2. Embed(Start, style, CTE) \in Statements /\ Embed(Start, style, CTE).parts = Start.parts
    BY <1>1, <2>1, Embedding
  <2>3. Embed(Start, style, CTE) \in Tells({})
    BY <1>1, <1>2, <2>2 DEF Tells
  <2> QED
    BY <1>3, <2>1, <2>3, PlaceTells
<1> QED
  BY <1>3, <1>4, <1>5

\* A query of clauses that have texts.
HasTexts(q, texts) ==
  /\ q.kinds \in Seq(Kinds) /\ Len(q.kinds) <= MaxConditions /\ Full(q.kinds)
  /\ AreClauses(q.clauses, q.kinds) /\ q.id \in 0..Len(q.clauses)
  /\ \E rank : Sound(q.clauses, q.kinds, texts, rank)

\* The text of its WHERE.
TextOfQuery(q, texts) == IF q.id = 0 THEN {} ELSE texts[q.id]

\* Where writes it.
LEMMA WhereTells ==
  ASSUME NEW q, NEW texts, HasTexts(q, texts), NEW g \in Generators, ~NameIsString(g), NEW s \in Tells({})
  PROVE  Where(s, q, g) \in Tells(TextOfQuery(q, texts))
<1>1. s \in Statements /\ Range(s.parts) = {} /\ s.next \in Nat /\ s.parts \in Seq(SUBSET Rows)
  BY DEF Tells, Statements
<1>2. CASE q.id = 0
  BY <1>2 DEF Where, TextOfQuery
<1>3. CASE q.id # 0
  <2> DEFINE ks == q.kinds
             cs == q.clauses
             built == buildWhereRecursive(q, g)
             piece == built[<<q.id, s.next>>]
             S == SUBSET Rows
  <2>1. PICK rank : Sound(cs, ks, texts, rank)
    BY DEF HasTexts
  <2>2. /\ ks \in Seq(Kinds) /\ Len(ks) <= MaxConditions /\ Full(ks) /\ AreClauses(cs, ks)
        /\ q.clauses = cs /\ q.kinds = ks /\ q.id \in 1..Len(cs)
    BY <1>3 DEF HasTexts, AreClauses
  <2> HIDE DEF ks, cs
  <2>3. TextBuilt(buildWhereRecursive(q, g), cs, texts)
    BY <2>1, <2>2, ClauseText
  <2>4. piece \in Statements /\ Range(piece.parts) = texts[q.id]
    BY <1>1, <2>2, <2>3 DEF TextBuilt
  <2>5. Where(s, q, g) = Add(s, piece)
    BY <1>3 DEF Where
  <2> HIDE DEF built, piece
  <2>6. Add(s, piece) \in Statements /\ Add(s, piece).parts = s.parts \o piece.parts
    BY <1>1, <2>4, AddKeeps
  <2>7. Range(s.parts \o piece.parts) = Range(s.parts) \cup Range(piece.parts)
    <3>1. piece.parts \in Seq(S) /\ s.parts \in Seq(S)
      BY <1>1, <2>4 DEF Statements
    <3> HIDE DEF S
    <3> QED
      BY <3>1, PartsOfBoth
  <2>8. Range(Add(s, piece).parts) = texts[q.id]
    BY <1>1, <2>4, <2>6, <2>7
  <2> QED
    BY <1>3, <2>5, <2>6, <2>8 DEF Tells, TextOfQuery
<1> QED
  BY <1>2, <1>3

\* What a statement of a query with these texts tells.
Told(q, texts, c) == IF c.verb = "delete" /\ q.id = 0 THEN {{}} ELSE TextOfQuery(q, texts)

\* PostgreSQL is told the text of the query.
LEMMA PostgresTells ==
  ASSUME NEW q, NEW texts, HasTexts(q, texts), NEW c \in Calls, c.verb \notin {"insert", "upsert"}
  PROVE  GeneratePostgres(q, c) \in Tells(Told(q, texts, c))
<1> DEFINE T == TextOfQuery(q, texts)
           where == Where(Start, q, Postgres)
<1>1. Postgres \in Generators /\ ~NameIsString(Postgres)
  BY TheGenerators DEF NameIsString, Postgres, For
<1>2. where \in Tells(T)
  BY <1>1, BeforeWhere, WhereTells
<1>3. Where(Place(Start, "$", Set), q, Postgres) \in Tells(T)
  BY <1>1, BeforeWhere, WhereTells
<1>4. Where(Embed(Start, Own("postgresql"), CTE), q, Postgres) \in Tells(T)
  <2>1. Own("postgresql") \in {"$", "?"}
    BY DEF Own
  <2> QED
    BY <1>1, <2>1, BeforeWhere, WhereTells
<1>5. /\ \A s \in Tells(T) : \A tail : LimitOffset(s, "$", tail) \in Tells(T)
      /\ \A s \in Tells(T) : \A having : buildHaving(s, "$", having) \in Tells(T)
      /\ \A s \in Tells(T) : \A refused \in BOOLEAN : Refused(s, refused) \in Tells(T)
  BY TailTells, HavingTells, RefusedTells
<1>6. c.verb \in {"select", "joins", "cte", "windows", "aggregates", "aggregate", "update", "delete"}
  BY DEF Calls
<1> HIDE DEF T, where
<1>7. CASE c.verb \in {"select", "joins", "windows"}
  <2>1. GeneratePostgres(q, c) = LimitOffset(where, "$", c.tail)
    BY <1>7 DEF GeneratePostgres, PostgresSelect, PostgresSelectWithJoins, PostgresSelectWithWindows, where
  <2> QED
    BY <1>2, <1>5, <1>7, <2>1 DEF Told, T
<1>8. CASE c.verb = "cte"
  <2>1. GeneratePostgres(q, c) = LimitOffset(Where(Embed(Start, Own("postgresql"), CTE), q, Postgres), "$", c.tail)
    BY <1>8 DEF GeneratePostgres, PostgresSelectWithCTE
  <2> QED
    BY <1>4, <1>5, <1>8, <2>1 DEF Told, T
<1>9. CASE c.verb = "aggregates"
  <2>1. GeneratePostgres(q, c) = LimitOffset(buildHaving(where, "$", c.having), "$", c.tail)
    BY <1>9 DEF GeneratePostgres, PostgresSelectWithAggregates, where
  <2> QED
    BY <1>2, <1>5, <1>9, <2>1 DEF Told, T
<1>10. CASE c.verb = "aggregate"
  <2> DEFINE refused == c.having = "in"
  <2>1. GeneratePostgres(q, c) = Refused(buildHaving(where, "$", c.having), refused) /\ refused \in BOOLEAN
    BY <1>10 DEF GeneratePostgres, PostgresAggregate, where
  <2> HIDE DEF refused
  <2> QED
    BY <1>2, <1>5, <1>10, <2>1 DEF Told, T
<1>11. CASE c.verb = "update"
  BY <1>3, <1>11 DEF GeneratePostgres, PostgresUpdate, Told, T
<1>12. CASE c.verb = "delete"
  BY <1>2, <1>12, BeforeWhere DEF GeneratePostgres, PostgresDelete, Told, T, where
<1> QED
  BY <1>6, <1>7, <1>8, <1>9, <1>10, <1>11, <1>12

\* So is SQLite, whichever style its placeholders have.
LEMMA SQLiteTells ==
  ASSUME NEW q, NEW texts, HasTexts(q, texts), NEW c \in Calls, c.verb \notin {"insert", "upsert"}
  PROVE  GenerateSQLite(q, c) \in Tells(Told(q, texts, c))
<1> DEFINE T == TextOfQuery(q, texts)
           where == Where(Start, q, SQLite)
           numbered == Where(Start, q, SQLiteAsPostgres)
           refused == c.tail = "offset"
           dropped == c.having = "in"
<1>1. /\ SQLite \in Generators /\ ~NameIsString(SQLite)
      /\ SQLiteAsPostgres \in Generators /\ ~NameIsString(SQLiteAsPostgres)
  BY TheGenerators DEF NameIsString, SQLite, SQLiteAsPostgres, For
<1>2. where \in Tells(T) /\ numbered \in Tells(T)
  BY <1>1, BeforeWhere, WhereTells
<1>3. Where(Place(Start, "?", Set), q, SQLiteAsPostgres) \in Tells(T)
  BY <1>1, BeforeWhere, WhereTells
<1>4. Where(Embed(Start, Own("sqlite"), CTE), q, SQLite) \in Tells(T)
  <2>1. Own("sqlite") \in {"$", "?"}
    BY DEF Own
  <2> QED
    BY <1>1, <2>1, BeforeWhere, WhereTells
<1>5. /\ \A s \in Tells(T) : \A style \in {"$", "?"}, tail \in Tails : LimitOffset(s, style, tail) \in Tells(T)
      /\ \A s \in Tells(T) : \A having : buildHaving(s, "?", having) \in Tells(T)
      /\ \A s \in Tells(T) : Refused(s, refused) \in Tells(T) /\ Refused(s, dropped) \in Tells(T)
  <2>1. refused \in BOOLEAN /\ dropped \in BOOLEAN
    OBVIOUS
  <2> HIDE DEF refused, dropped
  <2> QED
    BY <2>1, TailTells, HavingTells, RefusedTells
<1>6. /\ c.verb \in {"select", "joins", "cte", "windows", "aggregates", "aggregate", "update", "delete"}
      /\ c.tail \in Tails
  BY DEF Calls, Tails
<1> HIDE DEF T, where, numbered
<1>7. CASE c.verb = "select"
  <2>1. GenerateSQLite(q, c) = Refused(LimitOffset(numbered, "?", c.tail), refused)
    BY <1>7 DEF GenerateSQLite, SQLiteSelect, numbered
  <2> HIDE DEF refused
  <2> QED
    BY <1>2, <1>5, <1>6, <1>7, <2>1 DEF Told, T
<1>8. CASE c.verb = "joins"
  <2>1. GenerateSQLite(q, c) = Refused(LimitOffset(where, "?", c.tail), refused)
    BY <1>8 DEF GenerateSQLite, SQLiteSelectWithJoins, where
  <2> HIDE DEF refused
  <2> QED
    BY <1>2, <1>5, <1>6, <1>8, <2>1 DEF Told, T
<1>9. CASE c.verb = "cte"
  <2>1. GenerateSQLite(q, c) =
          Refused(LimitOffset(Where(Embed(Start, Own("sqlite"), CTE), q, SQLite), "?", c.tail), refused)
    BY <1>9 DEF GenerateSQLite, SQLiteSelectWithCTE
  <2> HIDE DEF refused
  <2> QED
    BY <1>4, <1>5, <1>6, <1>9, <2>1 DEF Told, T
<1>10. CASE c.verb = "windows"
  <2>1. GenerateSQLite(q, c) = Refused(LimitOffset(numbered, "$", c.tail), refused)
    BY <1>10 DEF GenerateSQLite, SQLiteSelectWithWindows, PostgresSelectWithWindows, numbered
  <2> HIDE DEF refused
  <2> QED
    BY <1>2, <1>5, <1>6, <1>10, <2>1 DEF Told, T
<1>11. CASE c.verb = "aggregates"
  <2>1. GenerateSQLite(q, c) = Refused(LimitOffset(buildHaving(where, "?", c.having), "?", c.tail), refused)
    BY <1>11 DEF GenerateSQLite, SQLiteSelectWithAggregates, where
  <2> HIDE DEF refused
  <2> QED
    BY <1>2, <1>5, <1>6, <1>11, <2>1 DEF Told, T
<1>12. CASE c.verb = "aggregate"
  <2>1. GenerateSQLite(q, c) = Refused(buildHaving(where, "?", c.having), dropped)
    BY <1>12 DEF GenerateSQLite, SQLiteAggregate, where
  <2> HIDE DEF dropped
  <2> QED
    BY <1>2, <1>5, <1>12, <2>1 DEF Told, T
<1>13. CASE c.verb = "update"
  BY <1>3, <1>13 DEF GenerateSQLite, SQLiteUpdate, Told, T
<1>14. CASE c.verb = "delete"
  BY <1>2, <1>14, BeforeWhere DEF GenerateSQLite, SQLiteDelete, Told, T, numbered
<1> QED
  BY <1>6, <1>7, <1>8, <1>9, <1>10, <1>11, <1>12, <1>13, <1>14

\* The rows that a statement leaves are those of its text.
LEMMA RowsTold ==
  ASSUME NEW T, NEW s \in Tells(T)
  PROVE  /\ T = {} => RowsOf(s) = Rows
         /\ \A R : T = {R} => RowsOf(s) = R
<1>1. s.parts \in Seq(SUBSET Rows) /\ Range(s.parts) = T
  BY DEF Tells, Statements
<1> DEFINE parts == s.parts
<1>2. RowsOf(s) = IF parts = <<>> THEN Rows ELSE parts[1]
  BY DEF RowsOf
<1>3. parts \in Seq(SUBSET Rows) /\ Range(parts) = T
  BY <1>1
<1> HIDE DEF parts
<1>4. parts # <<>> => 1 \in DOMAIN parts
  BY <1>3, EmptySeq
<1>5. parts # <<>> => parts[1] \in T
  BY <1>3, <1>4 DEF Range
<1>6. parts = <<>> => T = {}
  BY <1>3 DEF Range
<1> QED
  BY <1>2, <1>5, <1>6

-----------------------------------------------------------------------------
(* Clauses that are added and replaced.                                    *)

\* A clause that is in no other.
Root(id, cs) == \A d \in 1..Len(cs) : id \notin Range(cs[d].groups)

\* Texts with a new one, and ranks with one clause above all others.
Retold(texts, n, r, text) == [d \in 1..n |-> IF d = r THEN text ELSE texts[d]]
Raised(rank, n, r) ==
  [d \in 1..n |-> IF d = r THEN n ELSE IF rank[d] > rank[r] THEN rank[d] - 1 ELSE rank[d]]
Topped(rank, n) == [d \in 1..(n + 1) |-> IF d = n + 1 THEN n + 1 ELSE rank[d]]

\* The text of a clause is that of its groups' texts.
LEMMA SameClear ==
  ASSUME NEW w, NEW ks, NEW texts, NEW others, \A d \in Range(w.groups) : others[d] = texts[d]
  PROVE  TextsOf(w.groups, others) = TextsOf(w.groups, texts) /\ Clear(w, ks, others) = Clear(w, ks, texts)
<1>1. TextsOf(w.groups, others) = TextsOf(w.groups, texts)
  BY DEF TextsOf
<1>2. Says(w, ks, others) = Says(w, ks, texts)
  BY <1>1 DEF Says
<1> QED
  BY <1>1, <1>2 DEF Clear

\* The groups of a clause are there.
LEMMA GroupsThere ==
  ASSUME NEW ks, NEW n \in Nat, NEW w \in Clauses(ks, n)
  PROVE  \A e \in Range(w.groups) : e \in 1..n
<1> DEFINE list == w.groups
           S == 1..n
<1>1. list \in Seq(S)
  BY DEF Clauses
<1> HIDE DEF list, S
<1>2. \A e \in Range(list) : e \in S
  BY <1>1 DEF Range
<1> QED
  BY <1>2 DEF list, S

\* The clauses after one is replaced.
LEMMA Replacing ==
  ASSUME NEW ks, NEW cs, AreClauses(cs, ks), NEW r \in 1..Len(cs), NEW w
  PROVE  \A d \in 1..Len(cs) : [cs EXCEPT ![r] = w][d] = IF d = r THEN w ELSE cs[d]
BY ClausesRefer

\* The clauses after one is added.
LEMMA Appending ==
  ASSUME NEW ks, NEW cs, AreClauses(cs, ks), NEW w
  PROVE  \A d \in 1..(Len(cs) + 1) : Append(cs, w)[d] = IF d = Len(cs) + 1 THEN w ELSE cs[d]
<1> DEFINE C == Clauses(ks, Len(cs))
<1>1. cs \in Seq(C) /\ Len(cs) \in Nat
  BY DEF AreClauses
<1> HIDE DEF C
<1> QED
  BY <1>1

\* A clause that is in no other can be replaced, its groups being others.
LEMMA SoundReplaced ==
  ASSUME NEW ks, NEW cs, AreClauses(cs, ks), NEW texts, NEW rank, Sound(cs, ks, texts, rank),
         NEW r \in 1..Len(cs), Root(r, cs), NEW w \in Clauses(ks, Len(cs)), r \notin Range(w.groups)
  PROVE  Sound([cs EXCEPT ![r] = w], ks, Retold(texts, Len(cs), r, Clear(w, ks, texts)), Raised(rank, Len(cs), r))
<1> DEFINE n == Len(cs)
           new == [cs EXCEPT ![r] = w]
           retold == Retold(texts, n, r, Clear(w, ks, texts))
           raised == Raised(rank, n, r)
<1>1. /\ n \in Nat /\ DOMAIN cs = 1..n /\ Len(new) = n /\ r \in 1..n
      /\ \A d \in 1..n : new[d] = IF d = r THEN w ELSE cs[d]
  BY ClausesRefer, ClauseReplaced, Replacing
<1>2. /\ \A d \in 1..n : texts[d] = Clear(cs[d], ks, texts)
      /\ rank \in [1..n -> 1..n]
      /\ \A d, e \in 1..n : rank[d] = rank[e] => d = e
      /\ \A d \in 1..n : \A e \in Range(cs[d].groups) : e \in 1..n /\ rank[e] < rank[d]
  BY DEF Sound
<1>3. /\ \A d \in 1..n : retold[d] = IF d = r THEN Clear(w, ks, texts) ELSE texts[d]
      /\ \A d \in 1..n : raised[d] = IF d = r THEN n ELSE IF rank[d] > rank[r] THEN rank[d] - 1 ELSE rank[d]
      /\ DOMAIN raised = 1..n
  BY DEF Retold, Raised
<1>r. raised = [d \in 1..n |-> raised[d]]
  BY DEF Raised
<1>4. \A e \in Range(w.groups) : e \in 1..n /\ e # r
  BY <1>1, GroupsThere
<1>5. \A d \in 1..n : \A e \in Range(cs[d].groups) : e \in 1..n /\ e # r
  BY <1>2 DEF Root
<1> HIDE DEF n, new, retold, raised
<1>6. ASSUME NEW d \in 1..n PROVE retold[d] = Clear(new[d], ks, retold)
  <2>1. CASE d = r
    <3>1. \A e \in Range(w.groups) : retold[e] = texts[e]
      BY <1>3, <1>4
    <3> QED
      BY <1>1, <1>3, <2>1, <3>1, SameClear
  <2>2. CASE d # r
    <3> DEFINE c == cs[d]
    <3>1. \A e \in Range(c.groups) : retold[e] = texts[e]
      BY <1>3, <1>5
    <3>2. new[d] = c /\ retold[d] = Clear(c, ks, texts)
      BY <1>1, <1>2, <1>3, <2>2
    <3> HIDE DEF c
    <3> QED
      BY <3>1, <3>2, SameClear
  <2> QED
    BY <2>1, <2>2
<1>7. \A d \in 1..n : rank[d] \in 1..n /\ (d # r => rank[d] # rank[r])
  BY <1>1, <1>2
<1>8. \A d \in 1..n : raised[d] \in 1..n /\ (d # r => raised[d] < n)
  BY <1>1, <1>3, <1>7
<1>9. \A d, e \in 1..n : raised[d] = raised[e] => d = e
  <2> SUFFICES ASSUME NEW d \in 1..n, NEW e \in 1..n, raised[d] = raised[e], d # r, e # r PROVE d = e
    BY <1>1, <1>3, <1>8
  <2>1. rank[d] = rank[e]
    BY <1>1, <1>3, <1>7
  <2> QED
    BY <1>2, <2>1
<1>10. ASSUME NEW d \in 1..n, NEW e \in Range(new[d].groups) PROVE e \in 1..n /\ raised[e] < raised[d]
  <2>1. CASE d = r
    <3>1. e \in Range(w.groups)
      BY <1>1, <1>10, <2>1
    <3>2. e \in 1..n /\ e # r
      BY <1>4, <3>1
    <3>3. raised[e] < n /\ raised[d] = n
      BY <1>3, <1>8, <2>1, <3>2
    <3> QED
      BY <3>2, <3>3
  <2>2. CASE d # r
    <3>1. e \in Range(cs[d].groups)
      BY <1>1, <1>10, <2>2
    <3>2. e \in 1..n /\ e # r /\ rank[e] < rank[d]
      BY <1>2, <1>5, <3>1
    <3>3. raised[e] < raised[d]
      BY <1>1, <1>3, <1>7, <2>2, <3>2
    <3> QED
      BY <3>2, <3>3
  <2> QED
    BY <2>1, <2>2
<1>11. raised \in [1..n -> 1..n]
  BY <1>8, <1>r
<1>12. Sound(new, ks, retold, raised)
  BY <1>1, <1>6, <1>9, <1>10, <1>11 DEF Sound
<1> QED
  BY <1>12 DEF n, new, retold, raised

\* A clause can be added, its groups being there.
LEMMA SoundAppended ==
  ASSUME NEW ks, NEW cs, AreClauses(cs, ks), NEW texts, NEW rank, Sound(cs, ks, texts, rank),
         NEW w \in Clauses(ks, Len(cs))
  PROVE  Sound(Append(cs, w), ks, Retold(texts, Len(cs) + 1, Len(cs) + 1, Clear(w, ks, texts)), Topped(rank, Len(cs)))
<1> DEFINE n == Len(cs)
           new == Append(cs, w)
           retold == Retold(texts, n + 1, n + 1, Clear(w, ks, texts))
           topped == Topped(rank, n)
<1>1. /\ n \in Nat /\ DOMAIN cs = 1..n /\ Len(new) = n + 1
      /\ \A d \in 1..(n + 1) : new[d] = IF d = n + 1 THEN w ELSE cs[d]
  BY ClausesRefer, OneMoreClause, Appending
<1>2. /\ \A d \in 1..n : texts[d] = Clear(cs[d], ks, texts)
      /\ rank \in [1..n -> 1..n]
      /\ \A d, e \in 1..n : rank[d] = rank[e] => d = e
      /\ \A d \in 1..n : \A e \in Range(cs[d].groups) : e \in 1..n /\ rank[e] < rank[d]
  BY DEF Sound
<1>3. /\ \A d \in 1..(n + 1) : retold[d] = IF d = n + 1 THEN Clear(w, ks, texts) ELSE texts[d]
      /\ \A d \in 1..(n + 1) : topped[d] = IF d = n + 1 THEN n + 1 ELSE rank[d]
      /\ topped = [d \in 1..(n + 1) |-> topped[d]]
  BY DEF Retold, Topped
<1>4. \A e \in Range(w.groups) : e \in 1..n
  BY <1>1, GroupsThere
<1> HIDE DEF n, new, retold, topped
<1>5. \A e \in 1..n : e \in 1..(n + 1) /\ e # n + 1
  BY <1>1
<1>6. \A d \in 1..(n + 1) : d = n + 1 \/ d \in 1..n
  BY <1>1
<1>7. ASSUME NEW d \in 1..(n + 1) PROVE retold[d] = Clear(new[d], ks, retold)
  <2>1. CASE d = n + 1
    <3>1. \A e \in Range(w.groups) : retold[e] = texts[e]
      BY <1>3, <1>4, <1>5
    <3> QED
      BY <1>1, <1>3, <2>1, <3>1, SameClear
  <2>2. CASE d \in 1..n
    <3> DEFINE c == cs[d]
    <3>1. \A e \in Range(c.groups) : retold[e] = texts[e]
      BY <1>2, <1>3, <1>5, <2>2
    <3>2. new[d] = c /\ retold[d] = Clear(c, ks, texts)
      BY <1>1, <1>2, <1>3, <1>5, <2>2
    <3> HIDE DEF c
    <3> QED
      BY <3>1, <3>2, SameClear
  <2> QED
    BY <1>6, <2>1, <2>2
<1>8. \A d \in 1..n : rank[d] \in 1..n /\ topped[d] = rank[d]
  BY <1>2, <1>3, <1>5
<1>9. topped[n + 1] = n + 1 /\ n + 1 \in 1..(n + 1)
  BY <1>1, <1>3
<1>10. \A d, e \in 1..(n + 1) : topped[d] = topped[e] => d = e
  BY <1>1, <1>2, <1>5, <1>6, <1>8, <1>9
<1>11. ASSUME NEW d \in 1..(n + 1), NEW e \in Range(new[d].groups) PROVE e \in 1..(n + 1) /\ topped[e] < topped[d]
  <2>1. CASE d = n + 1
    <3>1. e \in 1..n
      BY <1>1, <1>4, <1>11, <2>1
    <3> QED
      BY <1>1, <1>5, <1>8, <1>9, <2>1, <3>1
  <2>2. CASE d \in 1..n
    <3>1. e \in Range(cs[d].groups)
      BY <1>1, <1>5, <1>11, <2>2
    <3>2. e \in 1..n /\ rank[e] < rank[d]
      BY <1>2, <2>2, <3>1
    <3> QED
      BY <1>5, <1>8, <2>2, <3>2
  <2> QED
    BY <1>6, <2>1, <2>2
<1>12. topped \in [1..(n + 1) -> 1..(n + 1)]
  BY <1>3, <1>5, <1>6, <1>8, <1>9
<1>13. Sound(new, ks, retold, topped)
  BY <1>1, <1>7, <1>10, <1>11, <1>12 DEF Sound
<1> QED
  BY <1>13 DEF n, new, retold, topped

-----------------------------------------------------------------------------
(* Builders and their clauses.                                             *)

MeantBy(b) == MeaningsOf(conditions[b], kinds)

\* A builder and its clause, with what its calls meant: the conditions mean some of it, each
\* group of the clause the rest.  The clause belongs to no other builder and to no clause.
\* (cl: the clauses of builders, cs: the clauses, said: what calls meant.)
Owned(x, cl, cs, said, texts) ==
  IF cl[x] = Nil THEN said[x] = MeantBy(x)
  ELSE LET w == cs[cl[x]]
       IN  /\ said[x] = MeantBy(x) \cup TextsOf(w.groups, texts)
           /\ Range(w.conditions) \subseteq Range(conditions[x])
           /\ w.operator = "AND" /\ ~w.isNot
           /\ Root(cl[x], cs)
           /\ \A y \in Builders : cl[y] = cl[x] => y = x

\* The clauses have texts, and builders own theirs, but for those that are gone.
Linked(cl, cs, said, gone, texts, rank) ==
  /\ Sound(cs, kinds, texts, rank)
  /\ \A x \in Builders \ gone : Owned(x, cl, cs, said, texts)

\* The groups of a clause that there is.
LEMMA GroupsOfClause ==
  ASSUME NEW ks, NEW cs, AreClauses(cs, ks), NEW d \in 1..Len(cs)
  PROVE  \A e \in Range(cs[d].groups) : e \in 1..Len(cs)
<1> DEFINE n == Len(cs)
           c == cs[d]
<1>1. n \in Nat /\ c \in Clauses(ks, n)
  BY DEF AreClauses
<1> HIDE DEF n, c
<1>2. \A e \in Range(c.groups) : e \in 1..n
  BY <1>1, GroupsThere
<1> QED
  BY <1>2 DEF n, c

\* A builder keeps its clause when another is replaced.
LEMMA OwnedReplaced ==
  ASSUME NEW cs, AreClauses(cs, kinds), NEW cl, NEW said, NEW texts, NEW x \in Builders, cl[x] \in 0..Len(cs),
         Owned(x, cl, cs, said, texts), NEW r \in 1..Len(cs), Root(r, cs), cl[x] # r,
         NEW w \in Clauses(kinds, Len(cs)), cl[x] \notin Range(w.groups), NEW text
  PROVE  Owned(x, cl, [cs EXCEPT ![r] = w], said, Retold(texts, Len(cs), r, text))
<1>1. CASE cl[x] = Nil
  BY <1>1 DEF Owned
<1>2. CASE cl[x] # Nil
  <2> DEFINE n == Len(cs)
             id == cl[x]
             new == [cs EXCEPT ![r] = w]
             retold == Retold(texts, n, r, text)
             c == cs[id]
  <2>1. /\ n \in Nat /\ Len(new) = n /\ \A d \in 1..n : new[d] = IF d = r THEN w ELSE cs[d]
    BY ClausesRefer, ClauseReplaced, Replacing
  <2>2. id \in 1..n /\ id # r /\ id \notin Range(w.groups)
    BY <1>2, <2>1 DEF Nil
  <2>3. /\ said[x] = MeantBy(x) \cup TextsOf(c.groups, texts) /\ Range(c.conditions) \subseteq Range(conditions[x])
        /\ c.operator = "AND" /\ ~c.isNot /\ \A y \in Builders : cl[y] = cl[x] => y = x
        /\ Root(id, cs)
    BY <1>2 DEF Owned
  <2>4. \A e \in Range(c.groups) : e \in 1..n /\ e # r
    BY <2>2, GroupsOfClause DEF Root
  <2>5. \A e \in Range(c.groups) : retold[e] = texts[e]
    BY <2>4 DEF Retold
  <2> HIDE DEF n, new, retold, c, id
  <2>6. TextsOf(c.groups, retold) = TextsOf(c.groups, texts)
    BY <2>5, SameClear
  <2>7. new[id] = c
    BY <2>1, <2>2 DEF c
  <2>8. Root(id, new)
    BY <2>1, <2>2, <2>3 DEF Root, n
  <2>9. Owned(x, cl, new, said, retold)
    BY <1>2, <2>3, <2>6, <2>7, <2>8 DEF Owned, id
  <2> QED
    BY <2>9 DEF new, retold, n
<1> QED
  BY <1>1, <1>2

\* So it does when one is added.
LEMMA OwnedAppended ==
  ASSUME NEW cs, AreClauses(cs, kinds), NEW cl, NEW said, NEW texts, NEW x \in Builders, cl[x] \in 0..Len(cs),
         Owned(x, cl, cs, said, texts), NEW w \in Clauses(kinds, Len(cs)), cl[x] \notin Range(w.groups), NEW text
  PROVE  Owned(x, cl, Append(cs, w), said, Retold(texts, Len(cs) + 1, Len(cs) + 1, text))
<1>1. CASE cl[x] = Nil
  BY <1>1 DEF Owned
<1>2. CASE cl[x] # Nil
  <2> DEFINE n == Len(cs)
             id == cl[x]
             new == Append(cs, w)
             retold == Retold(texts, n + 1, n + 1, text)
             c == cs[id]
  <2>1. /\ n \in Nat /\ Len(new) = n + 1 /\ \A d \in 1..(n + 1) : new[d] = IF d = n + 1 THEN w ELSE cs[d]
    BY ClausesRefer, OneMoreClause, Appending
  <2>2. id \in 1..n /\ id \notin Range(w.groups)
    BY <1>2, <2>1 DEF Nil
  <2>3. /\ said[x] = MeantBy(x) \cup TextsOf(c.groups, texts) /\ Range(c.conditions) \subseteq Range(conditions[x])
        /\ c.operator = "AND" /\ ~c.isNot /\ \A y \in Builders : cl[y] = cl[x] => y = x
        /\ Root(id, cs)
    BY <1>2 DEF Owned
  <2>4. \A e \in Range(c.groups) : e \in 1..n
    BY <2>2, GroupsOfClause
  <2>d. \A d \in 1..(n + 1) : d = n + 1 \/ d \in 1..n
    BY <2>1
  <2>e. \A d \in 1..n : d \in 1..(n + 1) /\ d # n + 1
    BY <2>1
  <2>5. \A e \in Range(c.groups) : retold[e] = texts[e]
    BY <2>4, <2>e DEF Retold
  <2> HIDE DEF n, new, retold, c, id
  <2>6. TextsOf(c.groups, retold) = TextsOf(c.groups, texts)
    BY <2>5, SameClear
  <2>7. new[id] = c
    BY <2>1, <2>2, <2>e DEF c
  <2>8. Root(id, new)
    BY <2>1, <2>2, <2>3, <2>d, <2>e DEF Root, n
  <2>9. Owned(x, cl, new, said, retold)
    BY <1>2, <2>3, <2>6, <2>7, <2>8 DEF Owned, id
  <2> QED
    BY <2>9 DEF new, retold, n
<1> QED
  BY <1>1, <1>2

\* And when others get clauses, or calls that mean something.
LEMMA OwnedOther ==
  ASSUME NEW cs, NEW cl, NEW said, NEW texts, NEW x \in Builders, Owned(x, cl, cs, said, texts),
         NEW more, NEW meaning, more[x] = cl[x], meaning[x] = said[x],
         cl[x] # Nil => \A y \in Builders : more[y] = cl[x] => y = x
  PROVE  Owned(x, more, cs, meaning, texts)
BY DEF Owned

\* The clause of a builder is in none of the others' clauses.
LEMMA OwnedApart ==
  ASSUME NEW cs, AreClauses(cs, kinds), NEW cl, NEW said, NEW texts, NEW x \in Builders, cl[x] \in 0..Len(cs),
         Owned(x, cl, cs, said, texts), NEW d \in 1..Len(cs)
  PROVE  cl[x] \notin Range(cs[d].groups)
<1>1. CASE cl[x] = Nil
  <2>1. \A e \in Range(cs[d].groups) : e \in 1..Len(cs)
    BY GroupsOfClause
  <2> QED
    BY <1>1, <2>1 DEF Nil
<1>2. CASE cl[x] # Nil
  BY <1>2 DEF Owned, Root
<1> QED
  BY <1>1, <1>2

-----------------------------------------------------------------------------
(* What Build hands out.                                                   *)

\* The text of what a builder was asked for.
TextsAsked(b) == IF asked[b] = {} THEN {} ELSE {Asked(b)}

\* The clause that Build returned has that text; it is the builder's or a new one, and the
\* texts of the others stay.
Hands(b, built, before, texts, others) ==
  /\ built.id = Nil <=> asked[b] = {} /\ clause[b] = Nil
  /\ built.id # Nil => /\ others[built.id] = TextsAsked(b)
                       /\ Root(built.id, built.clauses) /\ ~built.clauses[built.id].isNot
                       /\ IF clause[b] = Nil THEN built.id = Len(before) + 1 ELSE built.id = clause[b]
  /\ \A d \in 1..Len(before) : d # clause[b] => others[d] = texts[d]

\* A clause with more conditions.
WithConditions(c, list) == [c EXCEPT !.conditions = @ \o list]

LEMMA MoreConditions ==
  ASSUME NEW ks, NEW n \in Nat, NEW c \in Clauses(ks, n), NEW list \in Seq(DOMAIN ks)
  PROVE  /\ WithConditions(c, list) \in Clauses(ks, n)
         /\ Range(WithConditions(c, list).conditions) = Range(c.conditions) \cup Range(list)
         /\ WithConditions(c, list).groups = c.groups /\ WithConditions(c, list).operator = c.operator
         /\ WithConditions(c, list).isNot = c.isNot
<1> DEFINE own == c.conditions
           more == own \o list
           w == [c EXCEPT !.conditions = more]
           S == DOMAIN ks
<1>1. own \in Seq(S) /\ list \in Seq(S)
  BY DEF Clauses
<1>2. more \in Seq(S) /\ Range(more) = Range(own) \cup Range(list)
  <2> HIDE DEF own, S
  <2> QED
    BY <1>1, ConcatProperties, PartsOfBoth
<1> HIDE DEF more
<1>3. /\ w \in Clauses(ks, n) /\ w.conditions = more
      /\ w.groups = c.groups /\ w.operator = c.operator /\ w.isNot = c.isNot
  BY <1>2 DEF Clauses
<1>4. WithConditions(c, list) = w
  BY DEF WithConditions, more
<1> HIDE DEF w
<1> QED
  BY <1>2, <1>3, <1>4 DEF own

\* Build keeps builders and clauses together.
LEMMA BuildLinks ==
  ASSUME BuilderInv, NEW gone, NEW b \in Builders \ gone, clause[b] # Nil => operator[b] = "AND",
         NEW before, AreClauses(before, kinds), Len(clauses) <= Len(before),
         NEW texts, NEW rank, Linked(clause, before, asked, gone, texts, rank)
  PROVE  \E others, ranks : /\ Linked(clause, Build(b, before).clauses, asked, gone, others, ranks)
                            /\ Hands(b, Build(b, before), before, texts, others)
<1> DEFINE n == Len(before)
           built == Build(b, before)
<1>1. /\ conditions[b] \in Seq(DOMAIN kinds) /\ operator[b] \in {"AND", "OR"} /\ n \in Nat
      /\ \A x \in Builders : clause[x] \in 0..n
      /\ \A d \in 1..n : before[d] \in Clauses(kinds, n)
  BY DEF BuilderInv, AreClauses
<1>2. Sound(before, kinds, texts, rank) /\ \A x \in Builders \ gone : Owned(x, clause, before, asked, texts)
  BY DEF Linked
<1>3. CASE clause[b] # Nil
  <2> DEFINE r == clause[b]
             c == before[r]
             list == conditions[b]
             w == WithConditions(c, list)
             text == Clear(w, kinds, texts)
             new == [before EXCEPT ![r] = w]
             others == Retold(texts, n, r, text)
             ranks == Raised(rank, n, r)
  <2>1. /\ built = [id |-> r, clauses |-> new]
        /\ r \in 1..n /\ c \in Clauses(kinds, n) /\ list \in Seq(DOMAIN kinds)
    <3>1. built = [id |-> r, clauses |-> [before EXCEPT ![r].conditions = @ \o list]]
      BY <1>3 DEF Build
    <3>2. new = [before EXCEPT ![r].conditions = @ \o list]
      BY DEF WithConditions
    <3> HIDE DEF new
    <3> QED
      BY <1>1, <1>3, <3>1, <3>2 DEF Nil
  <2>2. /\ asked[b] = MeantBy(b) \cup TextsOf(c.groups, texts) /\ Range(c.conditions) \subseteq Range(list)
        /\ c.operator = "AND" /\ ~c.isNot /\ Root(r, before)
        /\ \A y \in Builders : clause[y] = r => y = b
    BY <1>2, <1>3 DEF Owned
  <2> HIDE DEF c
  <2>3. /\ w \in Clauses(kinds, n) /\ Range(w.conditions) = Range(c.conditions) \cup Range(list)
        /\ w.groups = c.groups /\ w.operator = "AND" /\ ~w.isNot
    <3>1. n \in Nat /\ c \in Clauses(kinds, n) /\ list \in Seq(DOMAIN kinds)
      BY <1>1, <2>1
    <3> HIDE DEF n, list
    <3>2. /\ w \in Clauses(kinds, n) /\ Range(w.conditions) = Range(c.conditions) \cup Range(list)
          /\ w.groups = c.groups /\ w.operator = c.operator /\ w.isNot = c.isNot
      BY <3>1, MoreConditions
    <3> HIDE DEF w
    <3> QED
      BY <2>2, <3>2
  <2> HIDE DEF w
  <2>4. Range(w.conditions) = Range(list)
    BY <2>2, <2>3
  <2>5. Says(w, kinds, texts) = asked[b]
    BY <2>2, <2>3, <2>4 DEF Says, MeantBy, MeaningsOf
  <2>6. text = TextsAsked(b)
    BY <1>3, <2>3, <2>5 DEF Clear, AllOf, TextsAsked, Asked
  <2>7. r \notin Range(w.groups)
    BY <2>1, <2>2, <2>3 DEF Root, c
  <2>8. Sound(new, kinds, others, ranks)
    <3> HIDE DEF r
    <3> QED
      BY <1>2, <2>1, <2>2, <2>3, <2>7, SoundReplaced
  <2>9. /\ Len(new) = n /\ \A d \in 1..n : new[d] = IF d = r THEN w ELSE before[d]
    <3> HIDE DEF r
    <3> QED
      BY <2>1, <2>3, ClauseReplaced, Replacing
  <2>10. /\ others[r] = text /\ \A d \in 1..n : d # r => others[d] = texts[d]
    BY <2>1 DEF Retold
  <2>11. Root(r, new)
    BY <2>2, <2>7, <2>9 DEF Root
  <2>12. Owned(b, clause, new, asked, others)
    <3>1. \A e \in Range(w.groups) : e \in 1..n /\ e # r
      BY <1>1, <2>3, <2>7, GroupsThere
    <3>2. TextsOf(w.groups, others) = TextsOf(w.groups, texts)
      BY <2>10, <3>1, SameClear
    <3>3. new[r] = w
      BY <2>1, <2>9
    <3> HIDE DEF new, others, text
    <3> QED
      BY <1>3, <2>2, <2>3, <2>4, <2>11, <3>2, <3>3 DEF Owned
  <2>13. ASSUME NEW x \in Builders \ gone PROVE Owned(x, clause, new, asked, others)
    <3>1. CASE x = b
      BY <2>12, <3>1
    <3>2. CASE x # b
      <4>1. clause[x] # r /\ clause[x] \in 0..n /\ Owned(x, clause, before, asked, texts)
        BY <1>1, <1>2, <2>2, <3>2
      <4>2. clause[x] \notin Range(w.groups)
        BY <2>1, <2>3, <4>1, OwnedApart DEF c
      <4> HIDE DEF r, text
      <4> QED
        BY <2>1, <2>2, <2>3, <4>1, <4>2, OwnedReplaced
    <3> QED
      BY <3>1, <3>2
  <2> HIDE DEF r, new, others, ranks, text
  <2>14. built.id = r /\ built.clauses = new
    BY <2>1
  <2>15. Linked(clause, new, asked, gone, others, ranks)
    BY <2>8, <2>13 DEF Linked
  <2>i. ~new[r].isNot
    BY <2>1, <2>3, <2>9
  <2> HIDE DEF built
  <2>16. Hands(b, built, before, texts, others)
    BY <1>3, <2>6, <2>10, <2>11, <2>14, <2>i DEF Hands, r
  <2> QED
    BY <2>14, <2>15, <2>16 DEF built
<1>4. CASE clause[b] = Nil /\ conditions[b] = <<>>
  <2>1. built = [id |-> Nil, clauses |-> before]
    BY <1>4 DEF Build
  <2>2. asked[b] = {}
    <3>1. asked[b] = MeantBy(b)
      BY <1>2, <1>4 DEF Owned
    <3> QED
      BY <1>4, <3>1 DEF MeantBy, MeaningsOf, Range
  <2>3. Hands(b, built, before, texts, texts)
    BY <1>4, <2>1, <2>2 DEF Hands
  <2>4. Linked(clause, built.clauses, asked, gone, texts, rank)
    BY <2>1
  <2> HIDE DEF built
  <2> QED
    BY <2>3, <2>4 DEF built
<1>5. CASE clause[b] = Nil /\ conditions[b] # <<>>
  <2> DEFINE list == conditions[b]
             w == [conditions |-> list, groups |-> <<>>, operator |-> operator[b], isNot |-> FALSE]
             text == Clear(w, kinds, texts)
             new == Append(before, w)
             others == Retold(texts, n + 1, n + 1, text)
             ranks == Topped(rank, n)
  <2>1. built = [id |-> n + 1, clauses |-> new]
    BY <1>5 DEF Build
  <2>2. w \in Clauses(kinds, n)
    <3>1. <<>> \in Seq(1..n)
      OBVIOUS
    <3> QED
      BY <1>1, <3>1 DEF Clauses
  <2>3. w.conditions = list /\ w.groups = <<>> /\ w.operator = operator[b] /\ ~w.isNot
    OBVIOUS
  <2> HIDE DEF w
  <2>4. asked[b] = MeantBy(b)
    BY <1>2, <1>5 DEF Owned
  <2>5. asked[b] # {}
    <3> HIDE DEF n, built
    <3>1. 1 \in DOMAIN list
      BY <1>1, <1>5, EmptySeq
    <3>2. list[1] \in Range(list)
      BY <3>1 DEF Range
    <3>3. Meant(list[1], kinds[list[1]]) \in MeantBy(b)
      BY <3>2 DEF MeantBy, MeaningsOf
    <3> QED
      BY <2>4, <3>3
  <2>6. Range(w.groups) = {} /\ Says(w, kinds, texts) = asked[b]
    BY <2>3, <2>4 DEF Says, MeantBy, TextsOf, Range
  <2>7. text = TextsAsked(b)
    BY <2>3, <2>5, <2>6 DEF Clear, AllOf, TextsAsked, Asked
  <2>8. Sound(new, kinds, others, ranks)
    BY <1>2, <2>2, SoundAppended
  <2>9. /\ Len(new) = n + 1 /\ \A d \in 1..(n + 1) : new[d] = IF d = n + 1 THEN w ELSE before[d]
    BY <2>2, OneMoreClause, Appending
  <2>10. /\ others[n + 1] = text /\ \A d \in 1..n : others[d] = texts[d] /\ d \in 1..(n + 1)
    BY <1>1 DEF Retold
  <2>11. Root(n + 1, new)
    <3>1. ASSUME NEW d \in 1..(n + 1) PROVE n + 1 \notin Range(new[d].groups)
      <4>1. CASE d = n + 1
        BY <2>6, <2>9, <4>1
      <4>2. CASE d \in 1..n
        <5>1. \A e \in Range(before[d].groups) : e \in 1..n
          BY <4>2, GroupsOfClause
        <5>2. new[d] = before[d]
          BY <1>1, <2>9, <4>2
        <5> HIDE DEF new
        <5> QED
          BY <1>1, <5>1, <5>2
      <4> QED
        BY <1>1, <4>1, <4>2
    <3> QED
      BY <2>9, <3>1 DEF Root
  <2>12. ASSUME NEW x \in Builders \ gone PROVE Owned(x, clause, new, asked, others)
    <3>1. clause[x] \in 0..n /\ Owned(x, clause, before, asked, texts) /\ clause[x] \notin Range(w.groups)
      BY <1>1, <1>2, <2>6
    <3> HIDE DEF text
    <3> QED
      BY <2>2, <3>1, OwnedAppended
  <2> HIDE DEF new, others, ranks, text
  <2>13. built.id = n + 1 /\ built.clauses = new
    BY <2>1
  <2>14. Linked(clause, new, asked, gone, others, ranks)
    BY <2>8, <2>12 DEF Linked
  <2>i. ~new[n + 1].isNot
    BY <1>1, <2>3, <2>9
  <2> HIDE DEF built
  <2>15. Hands(b, built, before, texts, others)
    BY <1>1, <1>5, <2>5, <2>7, <2>10, <2>11, <2>13, <2>i DEF Hands, Nil
  <2> QED
    BY <2>13, <2>14, <2>15 DEF built
<1> QED
  BY <1>3, <1>4, <1>5

-----------------------------------------------------------------------------
(* Groups.                                                                 *)

\* A group that a builder put there: with its text, and its clause if it has one.
InGroup(g, c, texts) ==
  /\ texts[g] = TextsAsked(c)
  /\ IF clause[c] = Nil THEN g > Len(clauses) ELSE g = clause[c]

\* The groups are those of the first k builders that were asked for something.
FromBuilders(list, k, groups, texts) ==
  /\ \A j \in 1..k : asked[list[j]] # {} => \E g \in Range(groups) : texts[g] = TextsAsked(list[j])
  /\ \A g \in Range(groups) : \E j \in 1..k : InGroup(g, list[j], texts)

\* Builders of which no one is twice, each with AND where it has a clause.
Lined(list) ==
  /\ \A i, j \in 1..Len(list) : list[i] = list[j] => i = j
  /\ \A j \in 1..Len(list) : clause[list[j]] # Nil => operator[list[j]] = "AND"

\* One builder more.
LEMMA OneMoreBuilder ==
  ASSUME BuilderInv, NEW gone, NEW list \in Seq(Builders \ gone), Lined(list), NEW k \in 0..Len(list), k < Len(list),
         NEW acc \in Gatherings, NEW texts, NEW rank, Linked(clause, acc.clauses, asked, gone, texts, rank),
         FromBuilders(list, k, acc.groups, texts)
  PROVE  \E others, ranks :
           /\ Linked(clause, Adding(acc, list[k + 1]).clauses, asked, gone, others, ranks)
           /\ FromBuilders(list, k + 1, Adding(acc, list[k + 1]).groups, others)
<1> DEFINE c == list[k + 1]
           before == acc.clauses
           n == Len(before)
           gs == acc.groups
           built == Build(c, before)
           more == IF built.id = Nil THEN gs ELSE Append(gs, built.id)
<1>1. /\ AreClauses(before, kinds) /\ Len(clauses) <= n /\ n \in Nat /\ Len(clauses) \in Nat /\ gs \in Seq(1..n)
      /\ \A x \in Builders : clause[x] \in 0..Len(clauses)
  BY DEF Gatherings, AreClauses, BuilderInv
<1>2. /\ k \in Nat /\ k + 1 \in 1..Len(list) /\ c \in Builders \ gone
      /\ \A j \in 1..k : j \in 1..Len(list) /\ j # k + 1 /\ list[j] \in Builders /\ j \in 1..(k + 1)
      /\ \A j \in 1..(k + 1) : j \in 1..k \/ j = k + 1
  OBVIOUS
<1>3. clause[c] # Nil => operator[c] = "AND"
  BY <1>2 DEF Lined
<1>4. PICK others, ranks : /\ Linked(clause, Build(c, before).clauses, asked, gone, others, ranks)
                           /\ Hands(c, Build(c, before), before, texts, others)
  <2> HIDE DEF c, before, n
  <2> QED
    BY <1>1, <1>2, <1>3, BuildLinks DEF before, n
<1>5. Adding(acc, c) = [groups |-> more, clauses |-> built.clauses]
  BY DEF Adding
<1>6. /\ built.id = Nil => asked[c] = {}
      /\ built.id # Nil => /\ others[built.id] = TextsAsked(c)
                           /\ IF clause[c] = Nil THEN built.id = n + 1 ELSE built.id = clause[c]
      /\ \A d \in 1..n : d # clause[c] => others[d] = texts[d]
  BY <1>4 DEF Hands
<1> HIDE DEF built, gs, n, before
<1>7. \A g \in Range(gs) : g \in 1..n
  BY <1>1 DEF Range
<1>8. FromBuilders(list, k, gs, texts)
  BY DEF gs
<1>9. ASSUME NEW g \in Range(gs) PROVE others[g] = texts[g]
  <2>1. PICK j \in 1..k : InGroup(g, list[j], texts)
    BY <1>8 DEF FromBuilders
  <2>2. g # clause[c]
    <3>1. CASE clause[c] = Nil
      BY <1>1, <1>7, <3>1 DEF Nil
    <3>2. CASE clause[c] # Nil /\ clause[list[j]] = Nil
      BY <1>1, <1>2, <2>1, <3>2 DEF InGroup
    <3>3. CASE clause[c] # Nil /\ clause[list[j]] # Nil
      <4>1. Owned(c, clause, built.clauses, asked, others)
        BY <1>2, <1>4 DEF Linked, built
      <4>2. clause[list[j]] = clause[c] => list[j] = c
        BY <1>2, <3>3, <4>1 DEF Owned
      <4>3. list[j] # c
        BY <1>2 DEF Lined
      <4> QED
        BY <2>1, <3>3, <4>2, <4>3 DEF InGroup
    <3> QED
      BY <3>1, <3>2, <3>3
  <2> QED
    BY <1>6, <1>7, <2>2
<1>10. Range(more) = IF built.id = Nil THEN Range(gs) ELSE Range(gs) \cup {built.id}
  <2> DEFINE id == built.id
  <2>1. gs \in Seq(Nat)
    <3>1. \A d \in 1..n : d \in Nat
      BY <1>1
    <3> QED
      BY <1>1, <3>1, SeqOfMore
  <2>2. id # Nil => id \in Nat
    BY <1>1, <1>2, <1>6
  <2> HIDE DEF id
  <2>3. id # Nil => Range(Append(gs, id)) = Range(gs) \cup {id}
    BY <2>1, <2>2, OnePartMore
  <2> QED
    BY <2>3 DEF id
<1> HIDE DEF more, c
<1>11. ASSUME NEW j \in 1..(k + 1), asked[list[j]] # {}
       PROVE  \E g \in Range(more) : others[g] = TextsAsked(list[j])
  <2>1. CASE j \in 1..k
    <3>1. PICK g \in Range(gs) : texts[g] = TextsAsked(list[j])
      BY <1>8, <1>11, <2>1 DEF FromBuilders
    <3> QED
      BY <1>9, <1>10, <3>1
  <2>2. CASE j = k + 1
    <3>1. list[j] = c
      BY <2>2 DEF c
    <3> QED
      BY <1>6, <1>10, <1>11, <3>1
  <2> QED
    BY <1>2, <2>1, <2>2
<1>12. ASSUME NEW g \in Range(more)
       PROVE  \E j \in 1..(k + 1) : InGroup(g, list[j], others)
  <2>1. CASE g \in Range(gs)
    <3>1. PICK j \in 1..k : InGroup(g, list[j], texts)
      BY <1>8, <2>1 DEF FromBuilders
    <3>2. InGroup(g, list[j], others) /\ j \in 1..(k + 1)
      BY <1>2, <1>9, <2>1, <3>1 DEF InGroup
    <3> QED
      BY <3>2
  <2>2. CASE built.id # Nil /\ g = built.id
    <3>1. InGroup(g, c, others)
      BY <1>1, <1>6, <2>2 DEF InGroup
    <3>2. k + 1 \in 1..(k + 1) /\ list[k + 1] = c
      BY <1>2 DEF c
    <3> QED
      BY <3>1, <3>2
  <2> QED
    BY <1>10, <2>1, <2>2
<1>13. FromBuilders(list, k + 1, more, others)
  BY <1>11, <1>12 DEF FromBuilders
<1>14. Linked(clause, built.clauses, asked, gone, others, ranks)
  BY <1>4 DEF built
<1>15. Adding(acc, c).groups = more /\ Adding(acc, c).clauses = built.clauses
  BY <1>5
<1> QED
  BY <1>13, <1>14, <1>15 DEF c

\* All of them.
LEMMA BuildersGather ==
  ASSUME BuilderInv, NEW gone, NEW list \in Seq(Builders \ gone), Lined(list),
         NEW texts, NEW rank, Linked(clause, clauses, asked, gone, texts, rank)
  PROVE  LET all == Gathered([groups |-> <<>>, clauses |-> clauses], list)
         IN  /\ all \in Gatherings
             /\ \E others, ranks : /\ Linked(clause, all.clauses, asked, gone, others, ranks)
                                   /\ FromBuilders(list, Len(list), all.groups, others)
<1> DEFINE start == [groups |-> <<>>, clauses |-> clauses]
           last == Len(list)
<1>1. start \in Gatherings /\ \A acc \in Gatherings, b \in Builders \ gone : Adding(acc, b) \in Gatherings
  BY Gathers
<1>2. PICK v : BuilderTurns(v, Gatherings, start, list)
  <2> HIDE DEF start
  <2> QED
    BY <1>1, BuildersInTurn
<1>3. /\ v \in [0..last -> Gatherings] /\ v[0] = start /\ v[last] = Gathered(start, list)
      /\ \A k \in 0..last : k < last => v[k + 1] = Adding(v[k], list[k + 1])
  BY <1>2 DEF BuilderTurns
<1> DEFINE Linking(acc, k) == \E others, ranks : /\ Linked(clause, acc.clauses, asked, gone, others, ranks)
                                               /\ FromBuilders(list, k, acc.groups, others)
           K == {k \in 0..last : Linking(v[k], k)}
<1>4. last \in Nat
  OBVIOUS
<1>5. 0 \in K
  <2>1. FromBuilders(list, 0, <<>>, texts)
    BY DEF FromBuilders, Range
  <2>2. v[0].groups = <<>> /\ v[0].clauses = clauses
    BY <1>3
  <2>3. Linking(v[0], 0)
    BY <2>1, <2>2
  <2> HIDE DEF Linking
  <2> QED
    BY <1>4, <2>3
<1>6. ASSUME NEW k \in 0..last, k \in K, k < last PROVE k + 1 \in K
  <2>1. PICK others, ranks : /\ Linked(clause, v[k].clauses, asked, gone, others, ranks)
                             /\ FromBuilders(list, k, v[k].groups, others)
    BY <1>6
  <2>2. v[k] \in Gatherings /\ v[k + 1] = Adding(v[k], list[k + 1]) /\ k + 1 \in 0..last
    BY <1>3, <1>4, <1>6
  <2>3. Linking(v[k + 1], k + 1)
    <3> DEFINE acc == v[k]
    <3>1. \E os, rs : /\ Linked(clause, Adding(acc, list[k + 1]).clauses, asked, gone, os, rs)
                      /\ FromBuilders(list, k + 1, Adding(acc, list[k + 1]).groups, os)
      <4> HIDE DEF acc
      <4> QED
        BY <1>6, <2>1, <2>2, OneMoreBuilder DEF acc
    <3> QED
      BY <2>2, <3>1
  <2> HIDE DEF Linking
  <2> QED
    BY <2>2, <2>3
<1>7. last \in K /\ last \in 0..last
  <2>1. last \in 0..last
    BY <1>4
  <2> HIDE DEF K
  <2> QED
    BY <1>4, <1>5, <1>6, <2>1, UpTo
<1>8. v[last] \in Gatherings /\ Linking(v[last], last)
  BY <1>3, <1>7
<1> QED
  BY <1>3, <1>8

\* The text of a group: what its builders were asked for, joined.
TextGrouped(args, op) ==
  LET parts == {Asked(c) : c \in {c \in Range(args) : asked[c] # {}}}
  IN  IF parts = {} THEN {} ELSE {Joined(parts, op)}

\* A group, a clause without conditions: its builders no longer own their clauses.
LEMMA GroupLinks ==
  ASSUME BuilderInv, NEW gone, NEW args \in Seq(Builders \ gone), Lined(args), NEW op \in {"AND", "OR"},
         NEW texts, NEW rank, Linked(clause, clauses, asked, gone, texts, rank)
  PROVE  \E others, ranks :
           /\ Linked(clause, Group(args, op), asked, gone \cup {c \in Range(args) : clause[c] # Nil}, others, ranks)
           /\ others[Len(Group(args, op))] = TextGrouped(args, op)
           /\ Len(clauses) < Len(Group(args, op))
<1> DEFINE all == Gathered([groups |-> <<>>, clauses |-> clauses], args)
           cs == all.clauses
           n == Len(cs)
           gs == all.groups
           w == [conditions |-> <<>>, groups |-> gs, operator |-> op, isNot |-> FALSE]
           new == Append(cs, w)
           parts == {Asked(c) : c \in {c \in Range(args) : asked[c] # {}}}
           away == gone \cup {c \in Range(args) : clause[c] # Nil}
<1>1. /\ all \in Gatherings
      /\ \E os, rs : /\ Linked(clause, all.clauses, asked, gone, os, rs)
                     /\ FromBuilders(args, Len(args), all.groups, os)
  BY BuildersGather
<1>2. Group(args, op) = new
  BY DEF Group, Gathered, Adding
<1> HIDE DEF all
<1>3. PICK os, rs : Linked(clause, cs, asked, gone, os, rs) /\ FromBuilders(args, Len(args), gs, os)
  BY <1>1
<1>4. /\ AreClauses(cs, kinds) /\ Len(clauses) <= n /\ n \in Nat /\ Len(clauses) \in Nat /\ gs \in Seq(1..n)
      /\ \A x \in Builders : clause[x] \in 0..Len(clauses)
  BY <1>1 DEF Gatherings, AreClauses, BuilderInv
<1>5. w \in Clauses(kinds, n) /\ w.conditions = <<>> /\ w.groups = gs /\ w.operator = op /\ ~w.isNot
  <2>1. <<>> \in Seq(DOMAIN kinds)
    OBVIOUS
  <2> HIDE DEF gs, n
  <2> QED
    BY <1>4, <2>1 DEF Clauses
<1> HIDE DEF w, cs, gs
<1>6. DOMAIN args = 1..Len(args) /\ \A j \in 1..Len(args) : args[j] \in Range(args) /\ args[j] \in Builders \ gone
  BY DEF Range
<1>7. Says(w, kinds, os) = parts
  <2>1. Says(w, kinds, os) = UNION {os[g] : g \in Range(gs)}
    BY <1>5 DEF Says, MeaningsOf, TextsOf, Range
  <2>2. ASSUME NEW g \in Range(gs), NEW x \in os[g] PROVE x \in parts
    <3>1. PICK j \in 1..Len(args) : InGroup(g, args[j], os)
      BY <1>3 DEF FromBuilders
    <3>2. os[g] = TextsAsked(args[j])
      BY <3>1 DEF InGroup
    <3>3. asked[args[j]] # {} /\ x = Asked(args[j])
      BY <2>2, <3>2 DEF TextsAsked
    <3> QED
      BY <1>6, <3>3
  <2>3. ASSUME NEW c \in Range(args), asked[c] # {} PROVE \E g \in Range(gs) : Asked(c) \in os[g]
    <3>1. PICK j \in 1..Len(args) : c = args[j]
      BY <1>6 DEF Range
    <3>2. PICK g \in Range(gs) : os[g] = TextsAsked(c)
      BY <1>3, <2>3, <3>1 DEF FromBuilders
    <3> QED
      BY <2>3, <3>2 DEF TextsAsked
  <2>4. UNION {os[g] : g \in Range(gs)} \subseteq parts
    BY <2>2
  <2>5. parts \subseteq UNION {os[g] : g \in Range(gs)}
    BY <2>3
  <2> QED
    BY <2>1, <2>4, <2>5
<1> DEFINE text == Clear(w, kinds, os)
           others == Retold(os, n + 1, n + 1, text)
           ranks == Topped(rs, n)
<1>8. text = TextGrouped(args, op)
  <2> HIDE DEF parts
  <2>1. Joined(parts, w.operator) = Joined(parts, op)
    BY <1>5
  <2>2. text = IF parts = {} THEN {} ELSE {Joined(parts, op)}
    BY <1>5, <1>7, <2>1 DEF Clear, AllOf
  <2> QED
    BY <2>2 DEF TextGrouped, parts
<1> HIDE DEF parts
<1>9. Sound(new, kinds, others, ranks)
  <2>1. Sound(cs, kinds, os, rs)
    BY <1>3 DEF Linked
  <2> QED
    BY <1>4, <1>5, <2>1, SoundAppended
<1>10. Len(new) = n + 1 /\ others[n + 1] = text
  <2>1. Len(new) = n + 1
    BY <1>4, <1>5, OneMoreClause
  <2>2. n + 1 \in 1..(n + 1)
    BY <1>4
  <2> QED
    BY <2>1, <2>2 DEF Retold
<1>11. ASSUME NEW x \in Builders \ away PROVE Owned(x, clause, new, asked, others)
  <2>1. Owned(x, clause, cs, asked, os)
    BY <1>3, <1>11 DEF Linked
  <2>2. clause[x] \in 0..n
    BY <1>4
  <2>3. ASSUME clause[x] \in Range(gs) PROVE FALSE
    <3> DEFINE g == clause[x]
    <3>1. PICK j \in 1..Len(args) : InGroup(g, args[j], os)
      BY <1>3, <2>3 DEF FromBuilders
    <3>2. g # Nil
      BY <1>4, <2>3 DEF Nil, Range
    <3>3. clause[args[j]] # Nil /\ clause[args[j]] = g
      BY <1>4, <3>1 DEF InGroup
    <3>4. args[j] = x
      BY <1>6, <2>1, <3>2, <3>3 DEF Owned
    <3> QED
      BY <1>6, <1>11, <3>2, <3>4
  <2> HIDE DEF text, n
  <2>4. clause[x] \notin Range(w.groups)
    BY <1>5, <2>3
  <2> QED
    BY <1>4, <1>5, <2>1, <2>2, <2>4, OwnedAppended DEF n
<1> HIDE DEF others, ranks, text, new
<1>12. Linked(clause, new, asked, away, others, ranks)
  BY <1>9, <1>11 DEF Linked
<1>13. others[Len(new)] = TextGrouped(args, op) /\ Len(clauses) < Len(new)
  BY <1>4, <1>8, <1>10
<1> QED
  BY <1>2, <1>12, <1>13

\* A clause with one more group.
WithGroup(c, id) == [c EXCEPT !.groups = Append(@, id)]
IsGrown(w, c, id, ks, n) ==
  /\ w \in Clauses(ks, n) /\ Range(w.groups) = Range(c.groups) \cup {id}
  /\ w.conditions = c.conditions /\ w.operator = c.operator /\ w.isNot = c.isNot

LEMMA OneMoreGroup ==
  ASSUME NEW ks, NEW n \in Nat, NEW c \in Clauses(ks, n), NEW id \in 1..n
  PROVE  IsGrown(WithGroup(c, id), c, id, ks, n)
<1> DEFINE own == c.groups
           more == Append(own, id)
           w == [c EXCEPT !.groups = more]
           S == 1..n
<1>1. own \in Seq(S) /\ id \in S
  BY DEF Clauses
<1>2. more \in Seq(S) /\ Range(more) = Range(own) \cup {id}
  <2> HIDE DEF own, S
  <2> QED
    BY <1>1, AppendProperties, OnePartMore
<1> HIDE DEF more
<1>3. /\ w \in Clauses(ks, n) /\ w.groups = more
      /\ w.conditions = c.conditions /\ w.operator = c.operator /\ w.isNot = c.isNot
  BY <1>2 DEF Clauses
<1>4. WithGroup(c, id) = w
  BY DEF WithGroup, more
<1> HIDE DEF w
<1> QED
  BY <1>2, <1>3, <1>4 DEF own, IsGrown

\* A group for a builder, with what it means.
LEMMA AddGroupLinks ==
  ASSUME BuilderInv, NEW gone, NEW b \in Builders \ gone, NEW before, AreClauses(before, kinds),
         Len(clauses) <= Len(before), NEW id \in 1..Len(before), AddGroup(b, id, before),
         NEW texts, NEW rank, Linked(clause, before, asked, gone, texts, rank),
         \A x \in Builders \ gone : clause[x] # id,
         DOMAIN asked = Builders, asked' = [asked EXCEPT ![b] = @ \cup texts[id]]
  PROVE  \E others, ranks : Linked(clause', clauses', asked', gone, others, ranks)
<1> DEFINE n == Len(before)
<1>1. /\ n \in Nat /\ DOMAIN clause = Builders /\ \A x \in Builders : clause[x] \in 0..Len(clauses) /\ clause[x] \in 0..n
      /\ \A d \in 1..n : before[d] \in Clauses(kinds, n)
      /\ Len(clauses) \in Nat
  BY DEF BuilderInv, AreClauses
<1>2. Sound(before, kinds, texts, rank) /\ \A x \in Builders \ gone : Owned(x, clause, before, asked, texts)
  BY DEF Linked
<1>3. \A x \in Builders : asked'[x] = IF x = b THEN asked[b] \cup texts[id] ELSE asked[x]
  OBVIOUS
<1>4. CASE clause[b] # Nil
  <2> DEFINE r == clause[b]
             c == before[r]
             w == WithGroup(c, id)
             text == Clear(w, kinds, texts)
             new == [before EXCEPT ![r] = w]
             others == Retold(texts, n, r, text)
             ranks == Raised(rank, n, r)
  <2>1. clauses' = new /\ clause' = clause /\ r \in 1..n /\ c \in Clauses(kinds, n) /\ r # id
    <3>1. clauses' = [before EXCEPT ![r].groups = Append(@, id)] /\ clause' = clause
      BY <1>4 DEF AddGroup
    <3>2. new = [before EXCEPT ![r].groups = Append(@, id)]
      BY DEF WithGroup
    <3> HIDE DEF new
    <3> QED
      BY <1>1, <1>4, <3>1, <3>2 DEF Nil
  <2>2. /\ asked[b] = MeantBy(b) \cup TextsOf(c.groups, texts) /\ Range(c.conditions) \subseteq Range(conditions[b])
        /\ c.operator = "AND" /\ ~c.isNot /\ Root(r, before)
        /\ \A y \in Builders : clause[y] = r => y = b
    BY <1>2, <1>4 DEF Owned
  <2> HIDE DEF c
  <2>3. /\ w \in Clauses(kinds, n) /\ Range(w.groups) = Range(c.groups) \cup {id}
        /\ w.conditions = c.conditions /\ w.operator = "AND" /\ ~w.isNot
    <3>1. n \in Nat /\ c \in Clauses(kinds, n) /\ id \in 1..n
      BY <1>1, <2>1
    <3> HIDE DEF n
    <3>2. IsGrown(w, c, id, kinds, n)
      BY <3>1, OneMoreGroup
    <3> HIDE DEF w
    <3> QED
      BY <2>2, <3>2 DEF IsGrown
  <2> HIDE DEF w
  <2>4. r \notin Range(w.groups)
    BY <2>1, <2>2, <2>3 DEF Root, c
  <2>5. Sound(new, kinds, others, ranks)
    <3> HIDE DEF r
    <3> QED
      BY <1>2, <2>1, <2>2, <2>3, <2>4, SoundReplaced
  <2>6. /\ Len(new) = n /\ \A d \in 1..n : new[d] = IF d = r THEN w ELSE before[d]
    <3> HIDE DEF r
    <3> QED
      BY <2>1, <2>3, ClauseReplaced, Replacing
  <2>7. \A d \in 1..n : d # r => others[d] = texts[d]
    BY <2>1 DEF Retold
  <2>8. Root(r, new)
    BY <2>2, <2>4, <2>6 DEF Root
  <2>9. Owned(b, clause, new, asked', others)
    <3>1. \A e \in Range(w.groups) : e \in 1..n /\ e # r
      BY <1>1, <2>3, <2>4, GroupsThere
    <3>2. TextsOf(w.groups, others) = TextsOf(w.groups, texts)
      BY <2>7, <3>1, SameClear
    <3>3. new[r] = w
      BY <2>1, <2>6
    <3>4. TextsOf(w.groups, texts) = TextsOf(c.groups, texts) \cup texts[id]
      BY <2>3 DEF TextsOf
    <3>5. asked'[b] = MeantBy(b) \cup TextsOf(w.groups, others)
      BY <1>3, <2>2, <3>2, <3>4
    <3> HIDE DEF new, others, text
    <3> QED
      BY <1>4, <2>2, <2>3, <2>8, <3>3, <3>5 DEF Owned
  <2>10. ASSUME NEW x \in Builders \ gone PROVE Owned(x, clause, new, asked', others)
    <3>1. CASE x = b
      BY <2>9, <3>1
    <3>2. CASE x # b
      <4>1. clause[x] # r /\ clause[x] \in 0..n /\ Owned(x, clause, before, asked, texts)
        BY <1>1, <1>2, <2>2, <3>2
      <4>2. clause[x] \notin Range(w.groups)
        BY <2>1, <2>3, <4>1, OwnedApart DEF c
      <4>3. Owned(x, clause, new, asked, others)
        <5> HIDE DEF r, text
        <5> QED
          BY <2>1, <2>2, <2>3, <4>1, <4>2, OwnedReplaced
      <4>4. asked'[x] = asked[x] /\ (clause[x] # Nil => \A y \in Builders : clause[y] = clause[x] => y = x)
        BY <1>3, <3>2, <4>1 DEF Owned
      <4> HIDE DEF new, others
      <4> QED
        BY <4>3, <4>4, OwnedOther
    <3> QED
      BY <3>1, <3>2
  <2> HIDE DEF r, new, others, ranks, text
  <2>11. Linked(clause', clauses', asked', gone, others, ranks)
    BY <2>1, <2>5, <2>10 DEF Linked
  <2> QED
    BY <2>11
<1>5. CASE clause[b] = Nil
  <2> DEFINE w == [conditions |-> <<>>, groups |-> <<id>>, operator |-> "AND", isNot |-> FALSE]
             text == Clear(w, kinds, texts)
             new == Append(before, w)
             others == Retold(texts, n + 1, n + 1, text)
             ranks == Topped(rank, n)
  <2>1. clauses' = new /\ clause' = [clause EXCEPT ![b] = n + 1]
    BY <1>5 DEF AddGroup
  <2>2. w \in Clauses(kinds, n)
    <3>1. <<>> \in Seq(DOMAIN kinds) /\ <<id>> \in Seq(1..n)
      OBVIOUS
    <3> QED
      BY <3>1 DEF Clauses
  <2>3. w.conditions = <<>> /\ w.groups = <<id>> /\ w.operator = "AND" /\ ~w.isNot
    OBVIOUS
  <2> HIDE DEF w
  <2>4. Range(w.groups) = {id} /\ Range(w.conditions) = {} /\ id \in 1..n
    BY <2>3 DEF Range
  <2>5. Sound(new, kinds, others, ranks)
    BY <1>2, <2>2, SoundAppended
  <2>6. /\ Len(new) = n + 1 /\ \A d \in 1..(n + 1) : new[d] = IF d = n + 1 THEN w ELSE before[d]
    BY <2>2, OneMoreClause, Appending
  <2>7. \A d \in 1..n : others[d] = texts[d] /\ d \in 1..(n + 1)
    BY <1>1 DEF Retold
  <2>8. Root(n + 1, new)
    <3>1. ASSUME NEW d \in 1..(n + 1) PROVE n + 1 \notin Range(new[d].groups)
      <4>1. CASE d = n + 1
        <5>1. new[d] = w
          BY <2>6, <4>1
        <5> HIDE DEF new
        <5> QED
          BY <1>1, <2>4, <5>1
      <4>2. CASE d \in 1..n
        <5>1. \A e \in Range(before[d].groups) : e \in 1..n
          BY <4>2, GroupsOfClause
        <5>2. new[d] = before[d]
          BY <1>1, <2>6, <4>2
        <5> HIDE DEF new
        <5> QED
          BY <1>1, <5>1, <5>2
      <4> QED
        BY <1>1, <4>1, <4>2
    <3> QED
      BY <2>6, <3>1 DEF Root
  <2>9. \A x \in Builders : clause'[x] = IF x = b THEN n + 1 ELSE clause[x]
    BY <1>1, <2>1
  <2>10. \A x \in Builders : clause[x] # n + 1
    BY <1>1
  <2>11. Owned(b, clause', new, asked', others)
    <3>1. asked[b] = MeantBy(b)
      BY <1>2, <1>5 DEF Owned
    <3>2. TextsOf(w.groups, others) = texts[id]
      BY <2>4, <2>7 DEF TextsOf
    <3>3. asked'[b] = MeantBy(b) \cup TextsOf(w.groups, others)
      BY <1>3, <3>1, <3>2
    <3>4. clause'[b] = n + 1 /\ n + 1 # Nil /\ \A y \in Builders : clause'[y] = n + 1 => y = b
      BY <1>1, <2>9, <2>10 DEF Nil
    <3>5. new[n + 1] = w
      BY <1>1, <2>6
    <3> HIDE DEF new, others, text, n
    <3> QED
      BY <2>3, <2>4, <2>8, <3>3, <3>4, <3>5 DEF Owned
  <2>12. ASSUME NEW x \in Builders \ gone PROVE Owned(x, clause', new, asked', others)
    <3>1. CASE x = b
      BY <2>11, <3>1
    <3>2. CASE x # b
      <4>1. clause[x] \in 0..n /\ Owned(x, clause, before, asked, texts) /\ clause[x] \notin Range(w.groups)
        BY <1>1, <1>2, <2>4
      <4>2. Owned(x, clause, new, asked, others)
        <5> HIDE DEF text
        <5> QED
          BY <2>2, <4>1, OwnedAppended
      <4>3. clause'[x] = clause[x] /\ asked'[x] = asked[x]
        BY <1>3, <2>9, <3>2
      <4>4. clause[x] # Nil => \A y \in Builders : clause'[y] = clause[x] => y = x
        BY <2>9, <2>10, <4>1 DEF Owned
      <4> HIDE DEF new, others
      <4> QED
        BY <4>2, <4>3, <4>4, OwnedOther
    <3> QED
      BY <3>1, <3>2
  <2> HIDE DEF new, others, ranks, text
  <2>13. Linked(clause', clauses', asked', gone, others, ranks)
    BY <2>1, <2>5, <2>12 DEF Linked
  <2> QED
    BY <2>13
<1> QED
  BY <1>4, <1>5

-----------------------------------------------------------------------------
(* What a program's calls keep.                                            *)

\* What Plain asks of all builders.
Usable ==
  /\ ~reused /\ Full(kinds)
  /\ \A b \in Builders : clause[b] # Nil => operator[b] = "AND"

\* As long as that holds, builders that are in no other own their clauses.
LinkInv == Usable => \E texts, rank : Linked(clause, clauses, asked, given, texts, rank)

\* Texts of what there is after a call.
LEMMA LinkedNext ==
  ASSUME UNCHANGED <<kinds, conditions>>, NEW texts, NEW rank, Linked(clause', clauses', asked', given', texts, rank)
  PROVE  LinkInv'
<1>1. \A b : MeantBy(b)' = MeantBy(b)
  BY DEF MeantBy, MeaningsOf
<1>2. Sound(clauses', kinds, texts, rank)
  BY DEF Linked
<1>3. Sound(clauses, kinds, texts, rank)'
  BY <1>2
<1>4. ASSUME NEW x \in (Builders \ given)' PROVE Owned(x, clause, clauses, asked, texts)'
  <2>1. x \in Builders \ given'
    BY DEF Builders
  <2>2. Owned(x, clause', clauses', asked', texts)
    BY <2>1 DEF Linked
  <2>3. MeantBy(x)' = MeantBy(x)
    BY <1>1
  <2> QED
    BY <2>2, <2>3 DEF Owned, Root, TextsOf, Builders, Nil
<1>5. Linked(clause, clauses, asked, given, texts, rank)'
  BY <1>3, <1>4 DEF Linked
<1> QED
  BY <1>5 DEF LinkInv

\* What was usable after a call was before it, and the call used none that is in another.
LEMMA UsableBefore ==
  ASSUME Usable', kinds' = kinds, NEW used, Uses(used),
         \A b \in Builders : /\ clause[b] # Nil => clause'[b] # Nil
                             /\ operator'[b] = "AND" => operator[b] = "AND"
  PROVE  Usable /\ used \cap given = {}
<1>1. /\ ~reused' /\ Full(kinds)
      /\ \A b \in Builders : clause'[b] # Nil => operator'[b] = "AND"
  BY DEF Usable, Full, Builders, Nil
<1>2. reused' = (reused \/ used \cap given # {})
  BY DEF Uses
<1>3. ~reused /\ used \cap given = {}
  BY <1>1, <1>2
<1> QED
  BY <1>1, <1>3 DEF Usable

\* A condition.
LEMMA AddConditionLinks ==
  ASSUME BuilderInv, DOMAIN asked = Builders, LinkInv, NEW b \in Builders, AddCondition(b)
  PROVE  LinkInv'
<1> SUFFICES ASSUME Usable' PROVE LinkInv'
  BY DEF LinkInv
<1> DEFINE i == 1 + Cardinality(UNION {Range(conditions[c]) : c \in Builders})
           meaning == Meant(i, kinds[i])
<1>1. /\ i \in DOMAIN kinds
      /\ conditions' = [conditions EXCEPT ![b] = Append(@, i)]
      /\ asked' = [asked EXCEPT ![b] = @ \cup {meaning}]
      /\ Uses({b}) /\ UNCHANGED <<kinds, operator, clause, clauses, given>>
  BY DEF AddCondition
<1> HIDE DEF i
<1>2. Usable /\ b \notin given
  BY <1>1, UsableBefore
<1>3. PICK texts, rank : Linked(clause, clauses, asked, given, texts, rank)
  BY <1>2 DEF LinkInv
<1>4. Range(conditions'[b]) = Range(conditions[b]) \cup {i}
  <2> DEFINE list == conditions[b]
             S == DOMAIN kinds
  <2>1. list \in Seq(S) /\ conditions'[b] = Append(list, i) /\ i \in S
    BY <1>1 DEF BuilderInv
  <2> HIDE DEF list, S
  <2> QED
    BY <2>1, OnePartMore DEF list
<1>5. MeantBy(b)' = MeantBy(b) \cup {meaning}
  BY <1>1, <1>4 DEF MeantBy, MeaningsOf
<1>6. asked'[b] = asked[b] \cup {meaning}
  BY <1>1
<1>7. \A x \in Builders : x # b => conditions'[x] = conditions[x] /\ asked'[x] = asked[x]
  BY <1>1 DEF BuilderInv
<1> HIDE DEF meaning
<1>8. ASSUME NEW x \in Builders \ given PROVE Owned(x, clause, clauses, asked, texts)'
  <2>1. Owned(x, clause, clauses, asked, texts)
    BY <1>3 DEF Linked
  <2>2. CASE x = b
    <3>1. CASE clause[b] = Nil
      <4>1. asked[b] = MeantBy(b)
        BY <2>1, <2>2, <3>1 DEF Owned
      <4>2. asked'[b] = MeantBy(b)'
        BY <1>5, <1>6, <4>1
      <4> QED
        BY <1>1, <2>2, <3>1, <4>2 DEF Owned, Nil
    <3>2. CASE clause[b] # Nil
      <4> DEFINE w == clauses[clause[b]]
      <4>1. /\ asked[b] = MeantBy(b) \cup TextsOf(w.groups, texts)
            /\ Range(w.conditions) \subseteq Range(conditions[b])
            /\ w.operator = "AND" /\ ~w.isNot
            /\ Root(clause[b], clauses)
            /\ \A y \in Builders : clause[y] = clause[b] => y = b
        BY <2>1, <2>2, <3>2 DEF Owned
      <4>2. asked'[b] = MeantBy(b)' \cup TextsOf(w.groups, texts)
        BY <1>5, <1>6, <4>1
      <4>3. Range(w.conditions) \subseteq Range(conditions'[b])
        BY <1>4, <4>1
      <4>4. w' = w
        BY <1>1
      <4>5. /\ TextsOf(w.groups, texts)' = TextsOf(w.groups, texts)
            /\ Root(clause[b], clauses)' = Root(clause[b], clauses)
            /\ Range(w.conditions)' = Range(w.conditions)
            /\ Range(conditions[b])' = Range(conditions'[b])
        BY <1>1 DEF TextsOf, Root, Range
      <4>6. asked'[b] = (MeantBy(b) \cup TextsOf(w.groups, texts))'
        BY <4>2, <4>5
      <4>7. (Range(w.conditions) \subseteq Range(conditions[b]))'
        BY <4>3, <4>5
      <4> HIDE DEF w
      <4> QED
        BY <1>1, <2>2, <3>2, <4>1, <4>4, <4>5, <4>6, <4>7 DEF Owned, w, Builders, Nil
    <3> QED
      BY <3>1, <3>2
  <2>3. CASE x # b
    <3>1. conditions'[x] = conditions[x] /\ asked'[x] = asked[x]
      BY <1>7, <2>3
    <3>2. MeantBy(x)' = MeantBy(x)
      BY <1>1, <3>1 DEF MeantBy, MeaningsOf
    <3> QED
      BY <1>1, <2>1, <3>1, <3>2 DEF Owned, Root, TextsOf, Builders, Nil
  <2> QED
    BY <2>2, <2>3
<1>9. Sound(clauses, kinds, texts, rank)'
  <2>1. Sound(clauses, kinds, texts, rank)
    BY <1>3 DEF Linked
  <2> QED
    BY <1>1, <2>1
<1>10. Linked(clause, clauses, asked, given, texts, rank)'
  BY <1>1, <1>8, <1>9 DEF Linked, Builders
<1> QED
  BY <1>10 DEF LinkInv

\* SetOperator, and what is no call.
LEMMA StayLinked ==
  ASSUME LinkInv, Usable' => Usable, UNCHANGED <<kinds, conditions, clause, clauses, asked, given>>
  PROVE  LinkInv'
<1> SUFFICES ASSUME Usable' PROVE LinkInv'
  BY DEF LinkInv
<1>1. PICK texts, rank : Linked(clause, clauses, asked, given, texts, rank)
  BY DEF LinkInv
<1>2. Linked(clause', clauses', asked', given', texts, rank)
  BY <1>1
<1> QED
  BY <1>2, LinkedNext

\* A builder that has a clause keeps it.
LEMMA AddGroupStays ==
  ASSUME BuilderInv, NEW b \in Builders, NEW id, NEW before, Len(before) \in Nat, AddGroup(b, id, before)
  PROVE  \A x \in Builders : clause[x] # Nil => clause'[x] # Nil
<1>1. CASE clause[b] # Nil
  BY <1>1 DEF AddGroup
<1>2. CASE clause[b] = Nil
  <2>1. clause' = [clause EXCEPT ![b] = Len(before) + 1] /\ Len(before) + 1 # 0
    BY <1>2 DEF AddGroup
  <2> QED
    BY <2>1 DEF BuilderInv, Nil
<1> QED
  BY <1>1, <1>2

\* AND and OR.
LEMMA ANDORLinks ==
  ASSUME BuilderInv, DOMAIN asked = Builders, LinkInv, NEW b \in Builders, NEW args \in Seq(Builders),
         \A i, j \in 1..Len(args) : args[i] = args[j] => i = j, NEW op \in {"AND", "OR"}, ANDOR(b, args, op)
  PROVE  LinkInv'
<1> SUFFICES ASSUME Usable' PROVE LinkInv'
  BY DEF LinkInv
<1> DEFINE parts == {Asked(c) : c \in {c \in Range(args) : asked[c] # {}}}
           after == Group(args, op)
           id == Len(after)
<1>1. /\ \A c \in Range(args) : b # c
      /\ given' = given \cup {c \in Range(args) : clause[c] # Nil}
      /\ Uses({b} \cup Range(args))
      /\ UNCHANGED <<kinds, conditions, operator>>
      /\ AddGroup(b, id, after)
      /\ asked' = [asked EXCEPT ![b] = IF parts = {} THEN @ ELSE @ \cup {Joined(parts, op)}]
  BY DEF ANDOR, PutInto, Apart
<1>2. AreClauses(after, kinds) /\ Len(clauses) <= id /\ id \in 1..id /\ id \in Nat
  BY GroupsAreClauses DEF AreClauses
<1>3. Usable /\ ({b} \cup Range(args)) \cap given = {}
  <2>1. \A x \in Builders : clause[x] # Nil => clause'[x] # Nil
    <3> HIDE DEF after
    <3> QED
      BY <1>1, <1>2, AddGroupStays
  <2> HIDE DEF parts, after
  <2> QED
    BY <1>1, <2>1, UsableBefore
<1>4. PICK texts, rank : Linked(clause, clauses, asked, given, texts, rank)
  BY <1>3 DEF LinkInv
<1>5. args \in Seq(Builders \ given)
  <2>1. args \in Seq(Range(args)) /\ \A c \in Range(args) : c \in Builders \ given
    <3>1. DOMAIN args = 1..Len(args) /\ \A j \in 1..Len(args) : args[j] \in Builders /\ args[j] \in Range(args)
      BY DEF Range
    <3> QED
      BY <1>3, <3>1 DEF Range
  <2> DEFINE S == Range(args)
  <2> HIDE DEF S
  <2> QED
    BY <2>1, SeqOfMore DEF S
<1>6. Lined(args)
  <2>1. \A x \in Builders : clause[x] # Nil => operator[x] = "AND"
    BY <1>3 DEF Usable
  <2> QED
    BY <2>1 DEF Lined
<1>7. PICK others, ranks : /\ Linked(clause, after, asked, given', others, ranks)
                           /\ others[id] = TextGrouped(args, op) /\ Len(clauses) < id
  <2>1. \E os, rs : /\ Linked(clause, Group(args, op), asked, given \cup {c \in Range(args) : clause[c] # Nil}, os, rs)
                    /\ os[Len(Group(args, op))] = TextGrouped(args, op)
                    /\ Len(clauses) < Len(Group(args, op))
    BY <1>4, <1>5, <1>6, GroupLinks
  <2> QED
    BY <1>1, <2>1
<1>8. asked' = [asked EXCEPT ![b] = @ \cup others[id]]
  <2>1. others[id] = IF parts = {} THEN {} ELSE {Joined(parts, op)}
    BY <1>7 DEF TextGrouped
  <2> HIDE DEF parts, id
  <2>2. asked[b] \cup others[id] = IF parts = {} THEN asked[b] ELSE asked[b] \cup {Joined(parts, op)}
    BY <2>1
  <2> QED
    BY <1>1, <2>2
<1>9. b \in Builders \ given'
  BY <1>1, <1>3
<1>10. \A x \in Builders \ given' : clause[x] # id
  BY <1>2, <1>7 DEF BuilderInv
<1>11. \E os, rs : Linked(clause', clauses', asked', given', os, rs)
  <2>1. id \in 1..Len(after)
    BY <1>2
  <2> HIDE DEF parts, after, id
  <2> QED
    BY <1>1, <1>2, <1>7, <1>8, <1>9, <1>10, <2>1, AddGroupLinks DEF id
<1> QED
  BY <1>1, <1>11, LinkedNext

\* NOT.
LEMMA NOTLinks ==
  ASSUME BuilderInv, DOMAIN asked = Builders, LinkInv, NEW b \in Builders, NEW c \in Builders, NOT(b, c)
  PROVE  LinkInv'
<1> SUFFICES ASSUME Usable' PROVE LinkInv'
  BY DEF LinkInv
<1> DEFINE built == Build(c, clauses)
           cs == built.clauses
           id == built.id
           after == [cs EXCEPT ![id].isNot = TRUE]
           n == Len(cs)
<1>1. /\ b # c
      /\ given' = given \cup {x \in {c} : clause[x] # Nil}
      /\ Uses({b, c})
      /\ UNCHANGED <<kinds, conditions, operator>>
      /\ IF id = Nil THEN UNCHANGED <<clause, clauses>> ELSE AddGroup(b, id, after)
      /\ asked' = [asked EXCEPT ![b] = IF asked[c] = {} THEN @ ELSE @ \cup {Rows \ Asked(c)}]
  <2>1. Range(<<c>>) = {c}
    BY DEF Range
  <2>2. {b} \cup {c} = {b, c}
    OBVIOUS
  <2> QED
    BY <2>1, <2>2 DEF NOT, PutInto, Apart
<1>2. /\ AreClauses(clauses, kinds) /\ Len(clauses) <= Len(clauses) /\ Len(clauses) \in Nat
      /\ \A x \in Builders : clause[x] \in 0..Len(clauses)
  BY DEF BuilderInv, AreClauses
<1>3. /\ AreClauses(cs, kinds) /\ Len(clauses) <= n /\ id \in 0..n /\ n \in Nat
  BY <1>2, BuildKeeps DEF AreClauses
<1>4. \A x \in Builders : clause[x] # Nil => clause'[x] # Nil
  <2>1. CASE id = Nil
    BY <1>1, <2>1
  <2>2. CASE id # Nil
    <3> DEFINE w == [cs[id] EXCEPT !.isNot = TRUE]
    <3>1. id \in 1..n /\ after = [cs EXCEPT ![id] = w]
      BY <1>3, <2>2 DEF Nil
    <3>2. Len(after) \in Nat
      <4>1. w \in Clauses(kinds, n)
        <5> DEFINE d == cs[id]
        <5>1. d \in Clauses(kinds, n)
          BY <1>3, <3>1 DEF AreClauses
        <5> HIDE DEF d
        <5>2. [d EXCEPT !.isNot = TRUE] \in Clauses(kinds, n)
          BY <5>1 DEF Clauses
        <5> QED
          BY <5>2 DEF d
      <4> HIDE DEF w, cs, id, after
      <4>2. Len([cs EXCEPT ![id] = w]) = n
        BY <1>3, <3>1, <4>1, ClauseReplaced
      <4> QED
        BY <1>3, <3>1, <4>2
    <3> HIDE DEF built, after
    <3> QED
      BY <1>1, <2>2, <3>2, AddGroupStays
  <2> QED
    BY <2>1, <2>2
<1>5. Usable /\ b \notin given /\ c \notin given
  <2>1. Usable /\ {b, c} \cap given = {}
    <3> HIDE DEF built, after, id, cs
    <3> QED
      BY <1>1, <1>4, UsableBefore
  <2> QED
    BY <2>1
<1>6. PICK texts, rank : Linked(clause, clauses, asked, given, texts, rank)
  BY <1>5 DEF LinkInv
<1>7. PICK others, ranks : /\ Linked(clause, cs, asked, given, others, ranks)
                           /\ Hands(c, built, clauses, texts, others)
  <2>1. clause[c] # Nil => operator[c] = "AND"
    BY <1>5 DEF Usable
  <2> QED
    BY <1>2, <1>5, <1>6, <2>1, BuildLinks
<1> HIDE DEF built
<1>8. /\ Sound(cs, kinds, others, ranks) /\ \A x \in Builders \ given : Owned(x, clause, cs, asked, others)
      /\ id = Nil <=> asked[c] = {} /\ clause[c] = Nil
      /\ id # Nil => /\ others[id] = TextsAsked(c) /\ Root(id, cs) /\ ~cs[id].isNot
                     /\ IF clause[c] = Nil THEN id = Len(clauses) + 1 ELSE id = clause[c]
  BY <1>7 DEF Linked, Hands
<1>9. CASE id = Nil
  <2>1. given' = given /\ clause' = clause /\ clauses' = clauses
    <3>1. clause[c] = Nil
      BY <1>8, <1>9
    <3>2. {x \in {c} : clause[x] # Nil} = {}
      BY <3>1
    <3> HIDE DEF id, after, cs
    <3> QED
      BY <1>1, <1>9, <3>2
  <2>2. \A x \in Builders : asked'[x] = asked[x]
    <3>1. asked[c] = {}
      BY <1>8, <1>9
    <3> HIDE DEF id, after, cs
    <3> QED
      BY <1>1, <3>1
  <2>3. ASSUME NEW x \in Builders \ given PROVE Owned(x, clause, clauses, asked', texts)
    <3>1. Owned(x, clause, clauses, asked, texts)
      BY <1>6 DEF Linked
    <3> QED
      BY <2>2, <3>1 DEF Owned
  <2>4. Linked(clause', clauses', asked', given', texts, rank)
    BY <1>6, <2>1, <2>3 DEF Linked
  <2> QED
    BY <1>1, <2>4, LinkedNext
<1>10. CASE id # Nil
  <2> DEFINE d == cs[id]
             w == [d EXCEPT !.isNot = TRUE]
             text == Clear(w, kinds, others)
             others2 == Retold(others, n, id, text)
             ranks2 == Raised(ranks, n, id)
  <2>1. id \in 1..n /\ after = [cs EXCEPT ![id] = w] /\ AddGroup(b, id, after)
    BY <1>1, <1>3, <1>10 DEF Nil
  <2>2. d \in Clauses(kinds, n)
    <3> HIDE DEF id, cs
    <3> QED
      BY <1>3, <2>1 DEF AreClauses
  <2> HIDE DEF d
  <2>3. /\ w \in Clauses(kinds, n) /\ w.isNot /\ w.groups = d.groups /\ w.conditions = d.conditions
        /\ w.operator = d.operator
    BY <2>2 DEF Clauses
  <2> HIDE DEF w
  <2>4. text = IF asked[c] = {} THEN {} ELSE {Rows \ Asked(c)}
    <3> DEFINE S == Says(d, kinds, others)
    <3>1. others[id] = Clear(d, kinds, others)
      BY <1>8, <2>1 DEF Sound, d
    <3>2. Says(w, kinds, others) = S
      BY <2>3 DEF Says
    <3>3. ~d.isNot
      BY <1>8, <1>10 DEF d
    <3> HIDE DEF S
    <3>4. TextsAsked(c) = IF S = {} THEN {} ELSE {Joined(S, d.operator)}
      BY <1>8, <1>10, <3>1, <3>3 DEF Clear, AllOf, S
    <3>5. text = IF S = {} THEN {} ELSE {Rows \ Joined(S, d.operator)}
      <4>1. AllOf(w, S) = Rows \ Joined(S, d.operator)
        BY <2>3 DEF AllOf
      <4> QED
        BY <3>2, <4>1 DEF Clear
    <3>6. /\ asked[c] = {} => S = {}
          /\ asked[c] # {} => S # {} /\ Joined(S, d.operator) = Asked(c)
      BY <3>4 DEF TextsAsked
    <3> HIDE DEF text
    <3> QED
      BY <3>5, <3>6
  <2>5. id \notin Range(w.groups)
    BY <1>8, <1>10, <2>1, <2>3 DEF Root, d
  <2>6. Sound(after, kinds, others2, ranks2)
    <3>1. Sound([cs EXCEPT ![id] = w], kinds, others2, ranks2)
      <4> HIDE DEF cs, id
      <4> QED
        BY <1>3, <1>8, <1>10, <2>1, <2>3, <2>5, SoundReplaced
    <3> QED
      BY <2>1, <3>1
  <2>7. \A x \in Builders \ given' : x \in Builders \ given /\ clause[x] # id
    <3> SUFFICES ASSUME NEW x \in Builders \ given' PROVE x \in Builders \ given /\ clause[x] # id
      OBVIOUS
    <3>1. x \in Builders \ given /\ (clause[c] # Nil => x # c)
      BY <1>1
    <3>2. CASE clause[c] = Nil
      BY <1>2, <1>8, <1>10, <3>1, <3>2
    <3>3. CASE clause[c] # Nil
      <4>1. Owned(c, clause, cs, asked, others)
        BY <1>5, <1>8
      <4>2. clause[x] = clause[c] => x = c
        BY <3>1, <3>3, <4>1 DEF Owned
      <4> QED
        BY <1>8, <1>10, <3>1, <3>3, <4>2
    <3> QED
      BY <3>2, <3>3
  <2>8. ASSUME NEW x \in Builders \ given' PROVE Owned(x, clause, after, asked, others2)
    <3>1. Owned(x, clause, cs, asked, others) /\ clause[x] \in 0..n /\ clause[x] # id
      BY <1>2, <1>3, <1>8, <2>7
    <3>2. clause[x] \notin Range(w.groups)
      <4> HIDE DEF cs, id
      <4> QED
        BY <1>3, <2>1, <2>3, <3>1, OwnedApart DEF d
    <3>3. Owned(x, clause, [cs EXCEPT ![id] = w], asked, others2)
      <4> HIDE DEF cs, id, text
      <4> QED
        BY <1>3, <1>8, <1>10, <2>1, <2>3, <3>1, <3>2, OwnedReplaced
    <3> QED
      BY <2>1, <3>3
  <2>9. Linked(clause, after, asked, given', others2, ranks2)
    BY <2>6, <2>8 DEF Linked
  <2>10. AreClauses(after, kinds) /\ Len(after) = n
    <3>1. AreClauses([cs EXCEPT ![id] = w], kinds) /\ Len([cs EXCEPT ![id] = w]) = n
      <4> HIDE DEF cs, id
      <4> QED
        BY <1>3, <2>1, <2>3, ClauseReplaced
    <3> QED
      BY <2>1, <3>1
  <2>11. others2[id] = text
    BY <2>1 DEF Retold
  <2>12. asked' = [asked EXCEPT ![b] = @ \cup others2[id]]
    <3>1. asked[b] \cup others2[id] = IF asked[c] = {} THEN asked[b] ELSE asked[b] \cup {Rows \ Asked(c)}
      BY <2>4, <2>11
    <3> HIDE DEF others2, text
    <3> QED
      BY <1>1, <3>1
  <2>13. b \in Builders \ given'
    BY <1>1, <1>5
  <2>14. \E os, rs : Linked(clause', clauses', asked', given', os, rs)
    <3>1. id \in 1..Len(after) /\ Len(clauses) <= Len(after)
      BY <1>3, <2>1, <2>10
    <3>2. \A x \in Builders \ given' : clause[x] # id
      BY <2>7
    <3> HIDE DEF cs, id, after, others2, ranks2
    <3> QED
      BY <2>1, <2>9, <2>10, <2>12, <2>13, <3>1, <3>2, AddGroupLinks
  <2> QED
    BY <1>1, <2>14, LinkedNext
<1> QED
  BY <1>9, <1>10

\* The invariant: as long as builders own their clauses, a statement says what was asked.
TouchInv == BuilderInv /\ DOMAIN asked = Builders /\ LinkInv /\ TouchesWhatWasAsked

\* Nothing is at the database when a builder is called.
LEMMA NothingTouched ==
  ASSUME sent' = NoStatement
  PROVE  TouchesWhatWasAsked'
<1>1. ~Sent'
  BY DEF Sent, NoStatement
<1> QED
  BY <1>1 DEF TouchesWhatWasAsked

\* A query leaves builders and clauses as they were, or as Build makes them,
LEMMA SendLinks ==
  ASSUME BuilderInv, LinkInv, NEW b \in Builders, NEW provider, NEW c, Send(b, provider, c)
  PROVE  LinkInv'
<1> SUFFICES ASSUME Usable' PROVE LinkInv'
  BY DEF LinkInv
<1> DEFINE built == Build(b, clauses)
           kept == IF clause[b] # Nil THEN built.clauses ELSE clauses
<1>1. clauses' = kept /\ Uses({b}) /\ UNCHANGED <<kinds, conditions, operator, clause, asked, given>>
  BY DEF Send
<1>2. AreClauses(clauses, kinds) /\ Len(clauses) <= Len(clauses)
  BY DEF BuilderInv, AreClauses
<1> HIDE DEF kept
<1>3. Usable /\ b \notin given
  <2>1. Usable /\ {b} \cap given = {}
    BY <1>1, UsableBefore
  <2> QED
    BY <2>1
<1>4. PICK texts, rank : Linked(clause, clauses, asked, given, texts, rank)
  BY <1>3 DEF LinkInv
<1>5. PICK others, ranks : Linked(clause, built.clauses, asked, given, others, ranks)
  <2>1. clause[b] # Nil => operator[b] = "AND"
    BY <1>3 DEF Usable
  <2> QED
    BY <1>2, <1>3, <1>4, <2>1, BuildLinks
<1>6. \E os, rs : Linked(clause, kept, asked, given, os, rs)
  <2> HIDE DEF built
  <2> QED
    BY <1>4, <1>5 DEF kept
<1>7. PICK os, rs : Linked(clause, kept, asked, given, os, rs)
  BY <1>6
<1>8. Linked(clause', clauses', asked', given', os, rs)
  BY <1>1, <1>7
<1> QED
  BY <1>1, <1>8, LinkedNext

\* and its statement says what was asked of the builder.
LEMMA SendTells ==
  ASSUME BuilderInv, LinkInv, NEW b \in Builders, NEW what \in Queries[kinds], Send(b, what[1], what[2])
  PROVE  TouchesWhatWasAsked'
<1> DEFINE provider == what[1]
           c == what[2]
           built == Build(b, clauses)
           q == [id |-> built.id, clauses |-> built.clauses, kinds |-> kinds]
           s == Generate(provider, q, c)
           accepted == Accepts(provider, s)
           bound == accepted /\ BoundRight(provider, s)
           rows == IF c.verb = "delete" /\ asked[b] = {} THEN {} ELSE Asked(b)
<1>1. /\ Uses({b}) /\ UNCHANGED <<kinds, conditions, operator, clause, asked, given>>
      /\ sent' = [verb |-> c.verb, tail |-> c.tail, having |-> c.having, by |-> b, provider |-> provider,
                  accepted |-> accepted, bound |-> bound,
                  rows |-> IF Misreads(provider) THEN Untold ELSE RowsOf(s)]
  BY DEF Send, AtDatabase
<1>2. kinds \in Mixes /\ kinds \in Seq(Kinds) /\ Len(kinds) <= MaxConditions /\ provider \in Databases /\ c \in Calls
  BY MixesAssumption, QueriesAssumption DEF BuilderInv, Databases
<1>3. AreClauses(clauses, kinds) /\ Len(clauses) <= Len(clauses)
  BY DEF BuilderInv, AreClauses
<1>4. AreClauses(built.clauses, kinds) /\ built.id \in 0..Len(built.clauses)
  BY <1>3, BuildKeeps
<1> HIDE DEF provider, c, built, accepted, bound, s
<1>5. /\ sent'.verb = c.verb /\ sent'.by = b /\ sent'.provider = provider
      /\ ~Misreads(provider)' => sent'.rows = RowsOf(s)
  BY <1>1 DEF Misreads
<1> SUFFICES ASSUME provider # "mysql", c.verb \notin {"insert", "upsert"}, \A x \in Builders : Plain(x)'
             PROVE  RowsOf(s) = rows
  <2>1. Asked(b)' = Asked(b)
    BY <1>1 DEF Asked
  <2>2. (IF sent.verb = "delete" /\ asked[sent.by] = {} THEN {} ELSE Asked(sent.by))' = rows
    BY <1>1, <1>5, <2>1 DEF Asked
  <2> HIDE DEF rows
  <2>3. (Sent /\ sent.bound /\ sent.provider # "mysql" /\ sent.verb \notin {"insert", "upsert"}
         /\ ~Misreads(sent.provider) /\ (\A x \in Builders : Plain(x)))' => sent'.rows = rows
    BY <1>5 DEF Builders, Misreads
  <2> QED
    BY <2>2, <2>3 DEF TouchesWhatWasAsked
<1>6. Usable' /\ Full(kinds) /\ (asked[b] = {} => clause[b] = Nil)
  <2>1. /\ \A x \in Builders : ~reused' /\ (clause[x] # Nil => operator[x] = "AND")
        /\ asked[b] = {} => clause[b] = Nil
    BY <1>1 DEF Plain, Nil
  <2>2. ~(Has("inEmpty"))' /\ ~(Has("notInEmpty"))'
    BY DEF Plain
  <2>3. Full(kinds)
    BY <1>1, <2>2 DEF Has, Full
  <2>4. Usable'
    BY <1>1, <2>1, <2>3 DEF Usable, Full, Builders, Nil
  <2> QED
    BY <2>1, <2>3, <2>4
<1>7. Usable /\ b \notin given
  <2>1. Usable /\ {b} \cap given = {}
    BY <1>1, <1>6, UsableBefore
  <2> QED
    BY <2>1
<1>8. PICK texts, rank : Linked(clause, clauses, asked, given, texts, rank)
  BY <1>7 DEF LinkInv
<1>9. PICK others, ranks : /\ Linked(clause, built.clauses, asked, given, others, ranks)
                           /\ Hands(b, built, clauses, texts, others)
  <2>1. clause[b] # Nil => operator[b] = "AND"
    BY <1>7 DEF Usable
  <2> QED
    BY <1>3, <1>7, <1>8, <2>1, BuildLinks DEF built
<1>10. HasTexts(q, others)
  <2>1. Sound(built.clauses, kinds, others, ranks)
    BY <1>9 DEF Linked
  <2> QED
    BY <1>2, <1>4, <1>6, <2>1 DEF HasTexts
<1>11. /\ built.id = Nil <=> asked[b] = {}
       /\ built.id # Nil => others[built.id] = TextsAsked(b)
  BY <1>6, <1>9 DEF Hands
<1>12. q.id = built.id /\ Nil = 0
  BY DEF Nil
<1> HIDE DEF q
<1>13. s \in Tells(Told(q, others, c))
  <2>1. CASE provider = "postgresql"
    BY <1>2, <1>10, <2>1, PostgresTells DEF s, Generate
  <2>2. CASE provider = "sqlite"
    BY <1>2, <1>10, <2>2, SQLiteTells DEF s, Generate
  <2> QED
    BY <1>2, <2>1, <2>2 DEF Databases
<1> DEFINE T == Told(q, others, c)
<1>14. /\ T = {} => RowsOf(s) = Rows
       /\ \A R : T = {R} => RowsOf(s) = R
  <2> HIDE DEF T
  <2>1. s \in Tells(T)
    BY <1>13 DEF T
  <2> QED
    BY <2>1, RowsTold
<1>15. CASE asked[b] # {}
  <2>1. T = {Asked(b)}
    BY <1>11, <1>12, <1>15 DEF Told, TextOfQuery, TextsAsked
  <2> QED
    BY <1>14, <1>15, <2>1
<1>16. CASE asked[b] = {}
  <2>1. T = IF c.verb = "delete" THEN {{}} ELSE {}
    BY <1>11, <1>12, <1>16 DEF Told, TextOfQuery
  <2>2. Asked(b) = Rows
    BY <1>16 DEF Asked
  <2> HIDE DEF T
  <2> QED
    BY <1>14, <1>16, <2>1, <2>2
<1> QED
  BY <1>15, <1>16

\* Every step of the builders keeps it.
LEMMA TouchStep ==
  ASSUME TouchInv, [Next]_builderVars
  PROVE  TouchInv'
<1>0. BuilderInv /\ DOMAIN asked = Builders /\ LinkInv /\ BuilderInv'
  BY BuilderStep DEF TouchInv
<1>1. ASSUME NEW b \in Builders, AddCondition(b) PROVE TouchInv'
  <2>1. LinkInv'
    BY <1>0, <1>1, AddConditionLinks
  <2>2. sent' = NoStatement /\ (DOMAIN asked = Builders)'
    BY <1>0, <1>1 DEF AddCondition, Builders
  <2> QED
    BY <1>0, <2>1, <2>2, NothingTouched DEF TouchInv
<1>2. ASSUME NEW b \in Builders, SetOperator(b) PROVE TouchInv'
  <2>1. /\ operator' = [operator EXCEPT ![b] = "OR"] /\ operator[b] = "AND" /\ Uses({b}) /\ sent' = NoStatement
        /\ UNCHANGED <<kinds, conditions, clause, clauses, asked, given>>
    BY <1>2 DEF SetOperator, Counted
  <2>2. Usable' => Usable
    <3>1. \A x \in Builders : operator'[x] = "AND" => operator[x] = "AND"
      BY <1>0, <2>1 DEF BuilderInv
    <3>2. \A x \in Builders : clause[x] # Nil => clause'[x] # Nil
      BY <2>1
    <3> QED
      BY <2>1, <3>1, <3>2, UsableBefore
  <2>3. LinkInv'
    BY <1>0, <2>1, <2>2, StayLinked
  <2>4. (DOMAIN asked = Builders)'
    BY <1>0, <2>1 DEF Builders
  <2> QED
    BY <1>0, <2>1, <2>3, <2>4, NothingTouched DEF TouchInv
<1>3. ASSUME NEW b \in Builders, NEW args \in Seq(Builders), \A i, j \in 1..Len(args) : args[i] = args[j] => i = j,
             NEW op \in {"AND", "OR"}, ANDOR(b, args, op)
      PROVE  TouchInv'
  <2>1. LinkInv'
    BY <1>0, <1>3, ANDORLinks
  <2>2. sent' = NoStatement /\ (DOMAIN asked = Builders)'
    BY <1>0, <1>3 DEF ANDOR, Counted, PutInto, Builders
  <2> QED
    BY <1>0, <2>1, <2>2, NothingTouched DEF TouchInv
<1>4. ASSUME NEW b \in Builders, NEW c \in Builders, NOT(b, c) PROVE TouchInv'
  <2>1. LinkInv'
    BY <1>0, <1>4, NOTLinks
  <2>2. sent' = NoStatement /\ (DOMAIN asked = Builders)'
    BY <1>0, <1>4 DEF NOT, Counted, PutInto, Builders
  <2> QED
    BY <1>0, <2>1, <2>2, NothingTouched DEF TouchInv
<1>5. ASSUME NEW b \in Builders, NEW what \in Queries[kinds], Send(b, what[1], what[2]) PROVE TouchInv'
  <2>1. LinkInv' /\ TouchesWhatWasAsked'
    BY <1>0, <1>5, SendLinks, SendTells
  <2>2. (DOMAIN asked = Builders)'
    BY <1>0, <1>5 DEF Send, Builders
  <2> QED
    BY <1>0, <2>1, <2>2 DEF TouchInv
<1>6. ASSUME UNCHANGED <<kinds, conditions, operator, clause, clauses, asked, given, reused>>
      PROVE  LinkInv' /\ (DOMAIN asked = Builders)'
  <2>1. Usable' => Usable
    BY <1>6 DEF Usable, Full, Builders, Nil
  <2>2. LinkInv'
    BY <1>0, <1>6, <2>1, StayLinked
  <2> QED
    BY <1>0, <1>6, <2>2 DEF Builders
<1>7. CASE Answered
  <2>1. sent' = NoStatement /\ UNCHANGED <<kinds, conditions, operator, clause, clauses, asked, given, reused>>
    BY <1>7 DEF Answered, clauseVars
  <2> QED
    BY <1>0, <1>6, <2>1, NothingTouched DEF TouchInv
<1>8. CASE UNCHANGED builderVars
  <2>1. UNCHANGED <<kinds, conditions, operator, clause, clauses, asked, given, reused, sent>>
    BY <1>8 DEF builderVars, clauseVars
  <2>2. TouchesWhatWasAsked
    BY DEF TouchInv
  <2>3. TouchesWhatWasAsked'
    <3>1. \A b : Asked(b)' = Asked(b)
      BY <2>1 DEF Asked
    <3>2. \A b : Plain(b)' <=> Plain(b)
      BY <2>1 DEF Plain, Has, Nil
    <3> QED
      BY <2>1, <2>2, <3>1, <3>2 DEF TouchesWhatWasAsked, Sent, NoStatement, Builders, Asked, Misreads
  <2> QED
    BY <1>0, <1>6, <2>1, <2>3 DEF TouchInv
<1>9. CASE Next
  <2>1. Created \subseteq Builders
    BY DEF Created
  <2>2. ASSUME NEW b \in Created, NEW n \in 0..2, NEW args \in Distinct(Created, n), NEW op \in {"AND", "OR"},
               ANDOR(b, args, op)
        PROVE  TouchInv'
    <3>1. b \in Builders /\ args \in [1..n -> Builders] /\ n \in Nat
      BY <2>1 DEF Distinct
    <3>2. args \in Seq(Builders) /\ Len(args) = n
      BY <3>1, IsASeq
    <3>3. \A i, j \in 1..Len(args) : args[i] = args[j] => i = j
      BY <3>1, <3>2 DEF Distinct, IsInjective
    <3> QED
      BY <1>3, <2>2, <3>1, <3>2, <3>3
  <2> QED
    BY <1>1, <1>2, <1>4, <1>5, <1>7, <1>9, <2>1, <2>2 DEF Next
<1> QED
  BY <1>8, <1>9

\* It holds at the start.
LEMMA TouchStart ==
  ASSUME Init
  PROVE  TouchInv
<1>1. /\ conditions = [b \in Builders |-> <<>>] /\ clause = [b \in Builders |-> 0] /\ clauses = <<>>
      /\ asked = [b \in Builders |-> {}] /\ given = {}
  BY DEF Init, Nil
<1> DEFINE texts == [d \in {} |-> {}]
<1>2. Len(<<>>) = 0 /\ 1..0 = {}
  OBVIOUS
<1>3. Sound(clauses, kinds, texts, <<>>)
  <2>1. <<>> \in [1..0 -> 1..0]
    BY <1>2
  <2> QED
    BY <1>1, <1>2, <2>1 DEF Sound
<1>4. ASSUME NEW x \in Builders PROVE Owned(x, clause, clauses, asked, texts)
  <2>1. conditions[x] = <<>> /\ clause[x] = 0 /\ asked[x] = {}
    BY <1>1
  <2>2. MeantBy(x) = {}
    BY <2>1 DEF MeantBy, MeaningsOf, Range
  <2> QED
    BY <2>1, <2>2 DEF Owned, Nil
<1>5. LinkInv
  <2>1. Linked(clause, clauses, asked, given, texts, <<>>)
    BY <1>1, <1>3, <1>4 DEF Linked
  <2> QED
    BY <2>1 DEF LinkInv
<1>6. ~Sent
  BY DEF Init, Sent
<1> QED
  BY <1>1, <1>5, <1>6, BuilderStart DEF TouchInv, TouchesWhatWasAsked

-----------------------------------------------------------------------------
(* The theorem about builders.                                             *)

\* However a program nests its builders and however often it builds them: apart from what Plain
\* leaves aside and JSON conditions that are Misread, a statement of PostgreSQL or SQLite
\* touches exactly the rows that the calls of its builder meant, and a DELETE that nothing was
\* asked of touches none.
THEOREM WhatWasAsked == LibrarySpec => []TouchesWhatWasAsked
<1>1. LibraryInit => TouchInv
  BY TouchStart DEF LibraryInit
<1>2. TouchInv /\ [LibraryNext]_libraryVars => TouchInv'
  <2>1. [LibraryNext]_libraryVars => [Next]_builderVars
    BY DEF LibraryNext, libraryVars
  <2> QED
    BY <2>1, TouchStep
<1>3. TouchInv => TouchesWhatWasAsked
  BY DEF TouchInv
<1> QED
  BY <1>1, <1>2, <1>3, PTL DEF LibrarySpec

-----------------------------------------------------------------------------
(* The compiler: texts of conditions.                                      *)

\* What a fold keeps at each of its places.
Leads(step, P, S, n) == \A k \in 0..n, t \in S : k < n /\ t \in P[k] => step[<<t, k + 1>>] \in P[k + 1]

\* What each step keeps, the last value has.
LEMMA TurnsReach ==
  ASSUME NEW S, NEW n \in Nat, NEW base \in S, NEW step, NEW v, Turns(v, S, n, base, step), NEW P, base \in P[0],
         Leads(step, P, S, n)
  PROVE  v[n] \in S /\ v[n] \in P[n]
<1>0. \A k \in 0..n, t \in S : k < n /\ t \in P[k] => step[<<t, k + 1>>] \in P[k + 1]
  BY DEF Leads
<1> DEFINE K == {k \in 0..n : v[k] \in P[k]}
<1>1. v \in [0..n -> S] /\ v[0] = base /\ \A k \in 0..n : k < n => v[k + 1] = step[<<v[k], k + 1>>]
  BY DEF Turns
<1>2. 0 \in K
  BY <1>1
<1>3. ASSUME NEW k \in 0..n, k \in K, k < n PROVE k + 1 \in K
  <2>1. k + 1 \in 0..n /\ v[k] \in S
    BY <1>1, <1>3
  <2> QED
    BY <1>0, <1>1, <1>3, <2>1
<1>4. n \in 0..n /\ n \in K
  <2>1. n \in 0..n
    OBVIOUS
  <2> HIDE DEF K
  <2> QED
    BY <1>2, <1>3, <2>1, UpTo
<1> QED
  BY <1>1, <1>4

Text == Seq(Seq(SUBSET Rows)) \ {<<>>}

\* The rows that one side of an OR leaves.
SideLeaves(side) == Joined(Range(side), "AND")

\* The rows one side of an OR leaves.
LEMMA SideRows ==
  ASSUME NEW side
  PROVE  SideLeaves(side) = {r \in Rows : \A k \in DOMAIN side : r \in side[k]}
BY DEF SideLeaves, Joined, Range

\* The rows a WHERE leaves are those of its sides.
LEMMA TextRows ==
  ASSUME NEW t
  PROVE  RowsLeft(t) = UNION {SideLeaves(t[k]) : k \in DOMAIN t} /\ RowsLeft(t) \in SUBSET Rows
<1>1. RowsLeft(t) = UNION {SideLeaves(t[k]) : k \in DOMAIN t}
  BY DEF RowsLeft, SideLeaves
<1>2. \A k \in DOMAIN t : SideLeaves(t[k]) \in SUBSET Rows
  BY SideRows
<1> QED
  BY <1>1, <1>2

\* A single predicate leaves its own rows.
LEMMA PartText ==
  ASSUME NEW rows \in SUBSET Rows
  PROVE  Part(rows) \in Text /\ Len(Part(rows)) = 1 /\ RowsLeft(Part(rows)) = rows
<1>1. <<rows>> \in Seq(SUBSET Rows) /\ DOMAIN <<rows>> = {1} /\ <<rows>>[1] = rows
  OBVIOUS
<1> DEFINE side == <<rows>>
<1>2. SideLeaves(side) = rows
  <2> HIDE DEF side
  <2>1. DOMAIN side = {1} /\ side[1] = rows
    BY <1>1 DEF side
  <2> QED
    BY <2>1, SideRows
<1> HIDE DEF side
<1>3. Part(rows) = <<side>> /\ side \in Seq(SUBSET Rows)
  BY <1>1 DEF Part, side
<1>4. <<side>> \in Seq(Seq(SUBSET Rows)) /\ Len(<<side>>) = 1 /\ <<side>> # <<>> /\ DOMAIN <<side>> = {1} /\ <<side>>[1] = side
  BY <1>3
<1> DEFINE t == <<side>>
<1>5. RowsLeft(t) = rows
  <2> HIDE DEF t
  <2>1. DOMAIN t = {1} /\ t[1] = side
    BY <1>4 DEF t
  <2> QED
    BY <1>2, <2>1, TextRows
<1> QED
  BY <1>3, <1>4, <1>5 DEF Text

\* A text without OR is the conjunction of its predicates.
LEMMA OneSided ==
  ASSUME NEW t \in Text, Len(t) = 1
  PROVE  t[1] \in Seq(SUBSET Rows) /\ RowsLeft(t) = SideLeaves(t[1]) /\ DOMAIN t = {1}
<1>1. DOMAIN t = {1} /\ t[1] \in Seq(SUBSET Rows)
  BY DEF Text
<1> QED
  BY <1>1, TextRows

\* With OR between them, texts leave what either of them leaves.
LEMMA EitherText ==
  ASSUME NEW t \in Text, NEW u \in Text
  PROVE  t \o u \in Text /\ RowsLeft(t \o u) = RowsLeft(t) \cup RowsLeft(u)
<1> DEFINE Sides == Seq(SUBSET Rows)
           both == t \o u
<1>1. t \in Seq(Sides) /\ u \in Seq(Sides) /\ t # <<>> /\ u # <<>>
  BY DEF Text
<1> HIDE DEF Sides
<1>2. /\ both \in Seq(Sides) /\ Len(t) \in Nat /\ Len(u) \in Nat /\ Len(both) = Len(t) + Len(u)
      /\ \A k \in 1..Len(t) : both[k] = t[k]
      /\ \A k \in 1..Len(u) : both[Len(t) + k] = u[k]
      /\ \A k \in 1..Len(both) : k \in 1..Len(t) \/ \E i \in 1..Len(u) : k = Len(t) + i
  BY <1>1, Concatenation
<1> HIDE DEF both
<1>3. DOMAIN t = 1..Len(t) /\ DOMAIN u = 1..Len(u) /\ DOMAIN both = 1..Len(both) /\ Len(u) # 0 /\ Len(t) # 0
  BY <1>1, <1>2
<1>4. both # <<>>
  <2>1. 1 \in DOMAIN both
    BY <1>2, <1>3
  <2> QED
    BY <2>1
<1>5. ASSUME NEW r PROVE r \in RowsLeft(both) <=> r \in RowsLeft(t) \/ r \in RowsLeft(u)
  <2>1. ASSUME NEW k \in 1..Len(both), r \in SideLeaves(both[k]) PROVE r \in RowsLeft(t) \/ r \in RowsLeft(u)
    <3>1. CASE k \in 1..Len(t)
      BY <1>2, <1>3, <2>1, <3>1, TextRows
    <3>2. ASSUME NEW i \in 1..Len(u), k = Len(t) + i PROVE r \in RowsLeft(u)
      BY <1>2, <1>3, <2>1, <3>2, TextRows
    <3> QED
      BY <1>2, <3>1, <3>2
  <2>2. ASSUME NEW k \in 1..Len(t), r \in SideLeaves(t[k]) PROVE r \in RowsLeft(both)
    <3>1. k \in 1..Len(both) /\ both[k] = t[k]
      BY <1>2
    <3> QED
      BY <1>3, <2>2, <3>1, TextRows
  <2>3. ASSUME NEW k \in 1..Len(u), r \in SideLeaves(u[k]) PROVE r \in RowsLeft(both)
    <3>1. Len(t) + k \in 1..Len(both) /\ both[Len(t) + k] = u[k]
      BY <1>2
    <3> QED
      BY <1>3, <2>3, <3>1, TextRows
  <2> QED
    BY <1>3, <2>1, <2>2, <2>3, TextRows
<1> QED
  BY <1>2, <1>4, <1>5 DEF Text, Sides, both

\* With AND between them, what both leave, if neither has an OR.
LEMMA BothTexts ==
  ASSUME NEW t \in Text, NEW u \in Text, Len(t) = 1, Len(u) = 1
  PROVE  Both(t, u) \in Text /\ Len(Both(t, u)) = 1 /\ RowsLeft(Both(t, u)) = RowsLeft(t) \cap RowsLeft(u)
<1> DEFINE a == t[1]
           b == u[1]
           side == a \o b
<1>1. a \in Seq(SUBSET Rows) /\ b \in Seq(SUBSET Rows) /\ RowsLeft(t) = SideLeaves(a) /\ RowsLeft(u) = SideLeaves(b)
  BY OneSided
<1>2. Both(t, u) = <<side>>
  <2>1. t \in Seq(Seq(SUBSET Rows)) /\ u \in Seq(Seq(SUBSET Rows))
    BY DEF Text
  <2>2. Front(t) = <<>> /\ Last(t) = a /\ Head(u) = b /\ Tail(u) = <<>>
    <3> DEFINE Sides == Seq(SUBSET Rows)
    <3>1. t \in Seq(Sides) /\ u \in Seq(Sides)
      BY <2>1
    <3> HIDE DEF Sides
    <3>2. SubSeq(t, 1, 0) = <<>>
      BY <3>1
    <3>3. Front(t) = <<>> /\ Last(t) = a
      BY <3>1, <3>2 DEF Front, Last
    <3>4. Head(u) = b
      BY <3>1
    <3>5. Tail(u) = <<>>
      <4>1. Tail(u) \in Seq(Sides) /\ Len(Tail(u)) = 0
        BY <3>1
      <4> QED
        BY <4>1, EmptySeq
    <3> QED
      BY <3>3, <3>4, <3>5
  <2> HIDE DEF side
  <2>3. <<>> \o <<side>> \o <<>> = <<side>>
    OBVIOUS
  <2> QED
    BY <2>2, <2>3 DEF Both, side
<1> HIDE DEF a, b
<1>3. /\ side \in Seq(SUBSET Rows) /\ Len(a) \in Nat /\ Len(b) \in Nat /\ Len(side) = Len(a) + Len(b)
      /\ \A k \in 1..Len(a) : side[k] = a[k]
      /\ \A k \in 1..Len(b) : side[Len(a) + k] = b[k]
      /\ \A k \in 1..Len(side) : k \in 1..Len(a) \/ \E i \in 1..Len(b) : k = Len(a) + i
  <2> DEFINE T == SUBSET Rows
  <2>1. a \in Seq(T) /\ b \in Seq(T)
    BY <1>1
  <2> HIDE DEF T
  <2>2. /\ side \in Seq(T) /\ Len(a) \in Nat /\ Len(b) \in Nat /\ Len(side) = Len(a) + Len(b)
        /\ \A k \in 1..Len(a) : side[k] = a[k]
        /\ \A k \in 1..Len(b) : side[Len(a) + k] = b[k]
        /\ \A k \in 1..Len(side) : k \in 1..Len(a) \/ \E i \in 1..Len(b) : k = Len(a) + i
    BY <2>1, Concatenation
  <2> QED
    BY <2>2 DEF T
<1> HIDE DEF side
<1>4. DOMAIN a = 1..Len(a) /\ DOMAIN b = 1..Len(b) /\ DOMAIN side = 1..Len(side)
  BY <1>1, <1>3
<1>5. ASSUME NEW r PROVE r \in SideLeaves(side) <=> r \in SideLeaves(a) /\ r \in SideLeaves(b)
  <2>1. ASSUME r \in SideLeaves(side) PROVE r \in SideLeaves(a) /\ r \in SideLeaves(b)
    <3>1. r \in Rows /\ \A k \in 1..Len(side) : r \in side[k]
      BY <1>4, <2>1, SideRows
    <3>2. \A k \in 1..Len(a) : r \in a[k]
      <4>1. \A k \in 1..Len(a) : k \in 1..Len(side)
        BY <1>3
      <4> QED
        BY <1>3, <3>1, <4>1
    <3>3. \A k \in 1..Len(b) : r \in b[k]
      <4>1. \A k \in 1..Len(b) : Len(a) + k \in 1..Len(side)
        BY <1>3
      <4> QED
        BY <1>3, <3>1, <4>1
    <3> QED
      BY <1>4, <3>1, <3>2, <3>3, SideRows
  <2>2. ASSUME r \in SideLeaves(a), r \in SideLeaves(b) PROVE r \in SideLeaves(side)
    <3>1. r \in Rows /\ (\A k \in 1..Len(a) : r \in a[k]) /\ (\A k \in 1..Len(b) : r \in b[k])
      BY <1>4, <2>2, SideRows
    <3>2. \A k \in 1..Len(side) : r \in side[k]
      BY <1>3, <3>1
    <3> QED
      BY <1>4, <3>1, <3>2, SideRows
  <2> QED
    BY <2>1, <2>2
<1> DEFINE one == <<side>>
<1>6. one \in Text /\ Len(one) = 1 /\ one[1] = side
  <2>1. one \in Seq(Seq(SUBSET Rows)) /\ Len(one) = 1 /\ one # <<>> /\ one[1] = side
    BY <1>3
  <2> QED
    BY <2>1 DEF Text
<1> HIDE DEF one
<1>7. RowsLeft(one) = SideLeaves(side)
  BY <1>6, OneSided
<1> QED
  BY <1>1, <1>2, <1>5, <1>6, <1>7 DEF one

\* Texts that may be joined, and how two of them are.
Joint(op) == {t \in Text : op = "OR" \/ Len(t) = 1}
Join(t, u, op) == IF op = "OR" THEN t \o u ELSE Both(t, u)

\* Two texts joined leave the union or the intersection of their rows.
LEMMA JoinOfTwo ==
  ASSUME NEW op, NEW t \in Joint(op), NEW u \in Joint(op)
  PROVE  /\ Join(t, u, op) \in Joint(op)
         /\ RowsLeft(Join(t, u, op)) = IF op = "OR" THEN RowsLeft(t) \cup RowsLeft(u) ELSE RowsLeft(t) \cap RowsLeft(u)
<1>1. t \in Text /\ u \in Text
  BY DEF Joint
<1>2. CASE op = "OR"
  <2>1. Join(t, u, op) = t \o u
    BY <1>2 DEF Join
  <2> QED
    BY <1>1, <1>2, <2>1, EitherText DEF Joint
<1>3. CASE op # "OR"
  <2>1. Join(t, u, op) = Both(t, u) /\ Len(t) = 1 /\ Len(u) = 1
    BY <1>3 DEF Join, Joint
  <2>2. Both(t, u) \in Text /\ Len(Both(t, u)) = 1 /\ RowsLeft(Both(t, u)) = RowsLeft(t) \cap RowsLeft(u)
    BY <1>1, <2>1, BothTexts
  <2> QED
    BY <1>3, <2>1, <2>2 DEF Joint
<1> QED
  BY <1>2, <1>3

\* So do any number of them.
LEMMA TextsJoined ==
  ASSUME NEW op, NEW texts \in Seq(Joint(op)), texts # <<>>
  PROVE  LET t == JoinTexts(texts, op)
         IN  /\ t \in Joint(op)
             /\ op = "OR" => \A r : r \in RowsLeft(t) <=> \E j \in 1..Len(texts) : r \in RowsLeft(texts[j])
             /\ op # "OR" => \A r : r \in RowsLeft(t) <=> \A j \in 1..Len(texts) : r \in RowsLeft(texts[j])
             /\ Len(texts) = 1 => t = texts[1]
<1> DEFINE S == Joint(op)
           list == Tail(texts)
           n == Len(list)
           base == Head(texts)
           step == [x \in S \X (1..n) |-> Join(x[1], list[x[2]], op)]
           IsFold(h) == h = [c \in SUBSET (1..n) |->
                              IF c = {} THEN base ELSE Join(h[c \ {Max(c)}], list[Max(c)], op)]
           f == CHOOSE h : IsFold(h)
<1> HIDE DEF S
<1>t. texts \in Seq(S)
  BY DEF S
<1>0. /\ list \in Seq(S) /\ n \in Nat /\ DOMAIN list = 1..n /\ n = Len(list) /\ Len(texts) = n + 1
      /\ base \in S /\ base = texts[1] /\ \A k \in 1..n : list[k] \in S /\ list[k] = texts[k + 1]
  <2>1. Len(texts) # 0 /\ Len(texts) \in Nat
    BY <1>t, EmptySeq
  <2> QED
    BY <1>t, <2>1
<1> HIDE DEF n, list, base
<1>1. \A t \in S, u \in S : Join(t, u, op) \in S
  BY JoinOfTwo DEF S
<1>2. step \in Steps(S, n)
  BY <1>0, <1>1 DEF Steps
<1>3. \A t \in S, k \in 1..n : step[<<t, k>>] = Join(t, list[k], op)
  OBVIOUS
<1> HIDE DEF step
<1>m. \A c \in SUBSET (1..n) : c # {} => Max(c) \in 1..n /\ c \ {Max(c)} \in SUBSET (1..n)
  BY <1>0, Greatest
<1>4. \E h : IsFold(h)
  <2> PICK h : FoldOf(h, S, n, base, step)
    BY <1>0, <1>2, FoldExists
  <2>1. /\ h \in [SUBSET (1..n) -> S]
        /\ h = [c \in SUBSET (1..n) |-> IF c = {} THEN base ELSE step[<<h[c \ {Max(c)}], Max(c)>>]]
    BY DEF FoldOf
  <2> DEFINE other == [c \in SUBSET (1..n) |->
                        IF c = {} THEN base ELSE Join(h[c \ {Max(c)}], list[Max(c)], op)]
  <2>2. ASSUME NEW c \in SUBSET (1..n) PROVE h[c] = other[c]
    BY <1>3, <1>m, <2>1
  <2>3. h = other
    BY <2>1, <2>2
  <2>4. IsFold(h)
    BY <2>3
  <2> HIDE DEF IsFold
  <2> QED
    BY <2>4
<1>5. IsFold(f)
  BY <1>4
<1>6. JoinTexts(texts, op) = f[1..n]
  BY <1>0 DEF JoinTexts, Join, FoldLeft, MapThenFoldSet, list, base
<1> HIDE DEF f
<1>7. Follows(f, S, n, base, step)
  BY <1>3, <1>5, <1>m DEF Follows
<1> HIDE DEF IsFold
<1>8. PICK v : Turns(v, S, n, base, step) /\ v[n] = f[1..n]
  BY <1>0, <1>2, <1>7, FoldValues
<1> DEFINE Right(t, k) ==
             /\ op = "OR" => \A r : r \in RowsLeft(t) <=> \E j \in 1..(k + 1) : r \in RowsLeft(texts[j])
             /\ op # "OR" => \A r : r \in RowsLeft(t) <=> \A j \in 1..(k + 1) : r \in RowsLeft(texts[j])
             /\ k = 0 => t = texts[1]
           P == [k \in 0..n |-> {t \in S : Right(t, k)}]
<1>9. Right(base, 0)
  <2>1. \A j : j \in 1..(0 + 1) <=> j = 1
    OBVIOUS
  <2> QED
    BY <1>0, <2>1
<1>10. ASSUME NEW k \in 0..n, NEW t \in S, k < n, Right(t, k) PROVE Right(Join(t, list[k + 1], op), k + 1)
  <2> DEFINE u == list[k + 1]
  <2>1. k + 1 \in 1..n /\ u \in S /\ u = texts[(k + 1) + 1] /\ k + 1 # 0
    BY <1>0, <1>10
  <2>2. \A j : j \in 1..((k + 1) + 1) <=> j \in 1..(k + 1) \/ j = (k + 1) + 1
    BY <1>0
  <2> HIDE DEF u
  <2>3. RowsLeft(Join(t, u, op)) = IF op = "OR" THEN RowsLeft(t) \cup RowsLeft(u) ELSE RowsLeft(t) \cap RowsLeft(u)
    <3>1. t \in Joint(op) /\ u \in Joint(op)
      BY <2>1 DEF S
    <3> QED
      BY <3>1, JoinOfTwo
  <2>4. CASE op = "OR"
    <3>1. \A r : r \in RowsLeft(t) <=> \E j \in 1..(k + 1) : r \in RowsLeft(texts[j])
      BY <1>10, <2>4
    <3>2. \A r : r \in RowsLeft(Join(t, u, op)) <=> \E j \in 1..((k + 1) + 1) : r \in RowsLeft(texts[j])
      BY <2>1, <2>2, <2>3, <2>4, <3>1
    <3> QED
      BY <2>1, <2>4, <3>2 DEF u
  <2>5. CASE op # "OR"
    <3>1. \A r : r \in RowsLeft(t) <=> \A j \in 1..(k + 1) : r \in RowsLeft(texts[j])
      BY <1>10, <2>5
    <3>2. \A r : r \in RowsLeft(Join(t, u, op)) <=> \A j \in 1..((k + 1) + 1) : r \in RowsLeft(texts[j])
      BY <2>1, <2>2, <2>3, <2>5, <3>1
    <3> QED
      BY <2>1, <2>5, <3>2 DEF u
  <2> QED
    BY <2>4, <2>5
<1> HIDE DEF Right
<1>11. base \in P[0]
  BY <1>0, <1>9
<1>12. ASSUME NEW k \in 0..n, NEW t \in S, k < n, t \in P[k] PROVE step[<<t, k + 1>>] \in P[k + 1]
  <2>1. k + 1 \in 1..n /\ k + 1 \in 0..n /\ list[k + 1] \in S /\ Right(t, k)
    BY <1>0, <1>12
  <2>2. Join(t, list[k + 1], op) \in S
    BY <1>1, <2>1
  <2> QED
    BY <1>3, <1>10, <1>12, <2>1, <2>2
<1> HIDE DEF P
<1>13. v[n] \in S /\ v[n] \in P[n]
  <2>1. Leads(step, P, S, n)
    BY <1>12 DEF Leads
  <2> QED
    BY <1>0, <1>8, <1>11, <2>1, TurnsReach
<1>14. Right(JoinTexts(texts, op), n) /\ JoinTexts(texts, op) \in S
  BY <1>0, <1>6, <1>8, <1>13 DEF P
<1>15. n + 1 = Len(texts) /\ (Len(texts) = 1 => n = 0)
  BY <1>0
<1> QED
  BY <1>14, <1>15 DEF S, Right

-----------------------------------------------------------------------------
(* The compiler: conditions and filters.                                   *)

\* Compiled from argIndex n on, and accepted so far.
TextsFrom(style, n) == {s \in Texts : Numbered(style, n, s) /\ s.ok}

\* Parts without OR, and the rows that each leaves.
Singles == {t \in Text : Len(t) = 1}
Gives(parts, rows) == parts \in Seq(Singles) /\ rows = {RowsLeft(parts[j]) : j \in 1..Len(parts)}

\* An empty statement numbered from n is a text from n.
LEMMA FreshText ==
  ASSUME NEW style \in {"$", "?"}, NEW n \in Nat
  PROVE  LET s == [Fresh EXCEPT !.next = n]
         IN  s \in TextsFrom(style, n) /\ s.parts = <<>> /\ s.next = n
<1> DEFINE s == [Fresh EXCEPT !.next = n]
           none == <<>>
<1>1. Fresh = [marks |-> none, args |-> none, next |-> 1, parts |-> none, ok |-> TRUE, error |-> FALSE]
  BY DEF Fresh
<1>2. /\ none \in Seq(Marks) /\ none \in Seq(Vals) /\ none \in Seq(Seq(Seq(SUBSET Rows))) /\ Len(none) = 0
  OBVIOUS
<1> HIDE DEF none
<1>3. /\ Fresh.marks = none /\ Fresh.args = none /\ Fresh.parts = none /\ Fresh.ok = TRUE /\ Fresh.error = FALSE
  BY <1>1
<1>4. Fresh \in Texts
  BY <1>1, <1>2 DEF Texts
<1>5. /\ s \in Texts /\ s.marks = none /\ s.args = none /\ s.parts = none /\ s.ok = TRUE /\ s.next = n
  BY <1>3, <1>4 DEF Texts
<1> HIDE DEF s
<1>6. Numbered(style, n, s)
  BY <1>2, <1>5 DEF Numbered
<1> QED
  BY <1>5, <1>6 DEF TextsFrom, s, none

\* Placing values keeps a text numbered.
LEMMA TextPlaced ==
  ASSUME NEW style \in {"$", "?"}, NEW n \in Nat, NEW s \in TextsFrom(style, n), NEW values \in Seq(Vals)
  PROVE  LET t == Place(s, style, values)
         IN  t \in TextsFrom(style, n) /\ t.parts = s.parts /\ t.error = s.error
<1> DEFINE next == IF style = "?" THEN s.next ELSE s.next + Len(values)
           more == Placed(s.next, style, values)
           t == [marks |-> s.marks \o more, args |-> s.args \o values, next |-> next,
                 parts |-> s.parts, ok |-> s.ok, error |-> s.error]
<1>0. s \in Texts /\ Numbered(style, n, s) /\ s.ok
  BY DEF TextsFrom
<1>1. /\ s.marks \in Seq(Marks) /\ s.args \in Seq(Vals) /\ s.next \in Nat /\ more \in Seq(Marks)
      /\ s.marks \o more \in Seq(Marks) /\ s.args \o values \in Seq(Vals) /\ next \in Nat
  <2>1. s.marks \in Seq(Marks) /\ s.args \in Seq(Vals) /\ s.next \in Nat /\ Len(values) \in Nat
    BY <1>0 DEF Texts
  <2>2. more \in Seq(Marks)
    BY <2>1, PlacedMarks
  <2> HIDE DEF more
  <2> QED
    BY <2>1, <2>2, ConcatProperties
<1>2. Place(s, style, values) =
        [s EXCEPT !.marks = @ \o more, !.args = @ \o values, !.next = IF style = "?" THEN @ ELSE @ + Len(values)]
  BY DEF Place, Placed
<1> HIDE DEF more
<1>3. t = Place(s, style, values)
  BY <1>0, <1>2 DEF Texts
<1>4. t \in Texts
  BY <1>0, <1>1 DEF Texts
<1>5. /\ t.parts = s.parts /\ t.ok = s.ok /\ t.next = next /\ t.error = s.error
      /\ t.marks = s.marks \o more /\ t.args = s.args \o values
  OBVIOUS
<1> HIDE DEF t
<1>6. Numbered(style, n, t)
  <2>1. style = "$" => t.next = s.next + Len(values)
    BY <1>5
  <2> QED
    BY <1>0, <1>1, <1>5, <2>1, PlacedNumbered DEF more
<1> QED
  BY <1>0, <1>3, <1>4, <1>5, <1>6 DEF TextsFrom

\* Every dialect writes one of the two placeholders.
LEMMA StyleOf ==
  \A dialect : placeholder(dialect) \in {"$", "?"}
BY DEF placeholder

\* What may be written about a condition.
Compares(i, dialect) == i \in 1..MaxConditions /\ ops[i] \in Comparisons /\ ~NotItsSQL(ops[i], dialect)

\* A comparison binds a sequence of values.
LEMMA ComparedValues ==
  ASSUME NEW i \in 1..MaxConditions, NEW op \in Comparisons
  PROVE  [k \in DOMAIN Values(op) |-> <<i, Values(op)[k]>>] \in Seq(Vals)
<1>1. /\ op \in {"in", "hasEvery"} => Values(op) = <<"first", "second">>
      /\ op \in {"equals", "has", "search"} => Values(op) = <<"value">>
      /\ op \in {"inEmpty", "notInEmpty", "isNull", "isEmpty", "some"} => Values(op) = <<>>
  BY DEF Values
<1>2. Values(op) \in {<<>>, <<"value">>, <<"first", "second">>}
  BY <1>1 DEF Comparisons
<1>3. <<>> \in Seq(Names) /\ \A a, b \in Names : <<a>> \in Seq(Names) /\ <<a, b>> \in Seq(Names)
  OBVIOUS
<1>4. Values(op) \in Seq(Names)
  <2>1. {"value", "first", "second"} \subseteq Names
    BY DEF Names
  <2> QED
    BY <1>2, <1>3, <2>1
<1> DEFINE names == Values(op)
<1>5. Len(names) \in Nat /\ DOMAIN names = 1..Len(names) /\ \A k \in 1..Len(names) : names[k] \in Names
  BY <1>4
<1> HIDE DEF names
<1>6. i \in 0..MaxConditions
  BY ConditionsAssumption
<1>7. [k \in DOMAIN names |-> <<i, names[k]>>] \in [1..Len(names) -> Vals]
  BY <1>5, <1>6 DEF Vals
<1>8. [k \in DOMAIN names |-> <<i, names[k]>>] \in Seq(Vals)
  BY <1>5, <1>7, IsASeq
<1> QED
  BY <1>8 DEF names

\* A change of what is not numbered.
LEMMA PartsChanged ==
  ASSUME NEW style \in {"$", "?"}, NEW n \in Nat, NEW s \in TextsFrom(style, n),
         NEW t \in Texts, t.marks = s.marks, t.args = s.args, t.next = s.next, t.ok = s.ok
  PROVE  t \in TextsFrom(style, n)
<1>1. s \in Texts /\ Numbered(style, n, s) /\ s.ok
  BY DEF TextsFrom
<1>2. Numbered(style, n, t)
  BY <1>1 DEF Numbered
<1> QED
  BY <1>1, <1>2 DEF TextsFrom

\* A text that is not refused stays as it is.
LEMMA RefusedText ==
  ASSUME NEW style \in {"$", "?"}, NEW n \in Nat, NEW s \in TextsFrom(style, n), NEW refused, ~refused
  PROVE  /\ Refused(s, refused) \in TextsFrom(style, n) /\ Refused(s, refused).parts = s.parts
         /\ Refused(s, refused).error = s.error
<1> DEFINE t == Refused(s, refused)
<1>1. s \in Texts /\ Numbered(style, n, s) /\ s.ok
  BY DEF TextsFrom
<1>2. /\ t \in Texts /\ t.marks = s.marks /\ t.args = s.args /\ t.next = s.next /\ t.ok
      /\ t.parts = s.parts /\ t.error = s.error
  <2>1. t = [s EXCEPT !.ok = @ /\ ~refused]
    BY DEF Refused
  <2>2. (s.ok /\ ~refused) = TRUE
    BY <1>1
  <2>3. t = [s EXCEPT !.ok = TRUE]
    BY <2>1, <2>2
  <2> HIDE DEF t
  <2> QED
    BY <1>1, <2>3 DEF Texts
<1> HIDE DEF t
<1>3. Numbered(style, n, t)
  BY <1>1, <1>2 DEF Numbered
<1> QED
  BY <1>1, <1>2, <1>3 DEF TextsFrom, t

\* A condition means a set of rows.
LEMMA MeantRows ==
  \A i, kind : Meant(i, kind) \in SUBSET Rows
BY DEF Meant

\* buildCondition appends one predicate, which leaves the rows meant.
LEMMA ConditionText ==
  ASSUME NEW dialect, NEW n \in Nat, NEW s \in TextsFrom(placeholder(dialect), n), NEW i, Compares(i, dialect)
  PROVE  LET t == buildConditionOf(s, i, dialect)
         IN  t \in TextsFrom(placeholder(dialect), n) /\ t.parts = Append(s.parts, Part(Meant(i, ops[i])))
<1> DEFINE style == placeholder(dialect)
           values == [k \in DOMAIN Values(ops[i]) |-> <<i, Values(ops[i])[k]>>]
           placed == Place(s, style, values)
           error == placed.error \/ Unsupported(ops[i], dialect)
           parts == Append(placed.parts, Part(Meant(i, ops[i])))
           more == [placed EXCEPT !.parts = parts, !.error = error]
           refused == NotItsSQL(ops[i], dialect)
<1>1. i \in 1..MaxConditions /\ ops[i] \in Comparisons /\ ~refused
  BY DEF Compares
<1>2. values \in Seq(Vals) /\ style \in {"$", "?"}
  BY <1>1, ComparedValues, StyleOf
<1>3. buildConditionOf(s, i, dialect) = Refused(more, refused)
  BY DEF buildConditionOf
<1> HIDE DEF values, style, refused
<1>4. placed \in TextsFrom(style, n) /\ placed.parts = s.parts
  BY <1>2, TextPlaced DEF style
<1> HIDE DEF placed
<1>5. parts \in Seq(Seq(Seq(SUBSET Rows))) /\ error \in BOOLEAN
  <2>1. placed.parts \in Seq(Seq(Seq(SUBSET Rows))) /\ placed.error \in BOOLEAN
    BY <1>4 DEF TextsFrom, Texts
  <2>2. Part(Meant(i, ops[i])) \in Seq(Seq(SUBSET Rows))
    BY MeantRows, PartText DEF Text
  <2> DEFINE T == Seq(Seq(SUBSET Rows))
             single == Part(Meant(i, ops[i]))
  <2>3. placed.parts \in Seq(T) /\ single \in T
    BY <2>1, <2>2
  <2>4. Append(placed.parts, single) \in Seq(T)
    <3> HIDE DEF T, single
    <3> QED
      BY <2>3, AppendProperties
  <2>5. error \in BOOLEAN
    OBVIOUS
  <2> QED
    BY <2>4, <2>5
<1> HIDE DEF parts, error
<1>6. more \in TextsFrom(style, n) /\ more.parts = parts
  <2>1. style \in {"$", "?"} /\ placed \in TextsFrom(style, n) /\ placed \in Texts
    BY <1>2, <1>4 DEF TextsFrom
  <2>2. /\ more \in Texts /\ more.marks = placed.marks /\ more.args = placed.args /\ more.next = placed.next
        /\ more.ok = placed.ok /\ more.parts = parts
    BY <1>5, <2>1 DEF Texts
  <2> HIDE DEF more
  <2>3. more \in TextsFrom(style, n)
    BY <2>1, <2>2, PartsChanged
  <2> QED
    BY <2>2, <2>3
<1> HIDE DEF more
<1>7. Refused(more, refused) \in TextsFrom(style, n) /\ Refused(more, refused).parts = parts
  BY <1>1, <1>2, <1>6, RefusedText
<1> QED
  BY <1>3, <1>4, <1>7 DEF parts, style

\* One more predicate adds its rows to those given.
LEMMA OneMorePart ==
  ASSUME NEW parts, NEW rows, Gives(parts, rows), NEW t \in Singles
  PROVE  Gives(Append(parts, t), rows \cup {RowsLeft(t)}) /\ Len(Append(parts, t)) = Len(parts) + 1 /\ Len(parts) \in Nat
<1> DEFINE more == Append(parts, t)
<1>1. parts \in Seq(Singles) /\ rows = {RowsLeft(parts[j]) : j \in 1..Len(parts)} /\ Len(parts) \in Nat
  BY DEF Gives
<1>2. /\ more \in Seq(Singles) /\ Len(more) = Len(parts) + 1 /\ more[Len(parts) + 1] = t
      /\ \A j \in 1..Len(parts) : more[j] = parts[j]
  BY <1>1, AppendProperties
<1> HIDE DEF more
<1>3. \A j : j \in 1..Len(more) <=> j \in 1..Len(parts) \/ j = Len(parts) + 1
  BY <1>1, <1>2
<1>4. rows \cup {RowsLeft(t)} = {RowsLeft(more[j]) : j \in 1..Len(more)}
  <2>1. \A j \in 1..Len(more) : RowsLeft(more[j]) \in rows \cup {RowsLeft(t)}
    BY <1>1, <1>2, <1>3
  <2>2. \A x \in rows \cup {RowsLeft(t)} : \E j \in 1..Len(more) : x = RowsLeft(more[j])
    BY <1>1, <1>2, <1>3
  <2> QED
    BY <2>1, <2>2
<1> QED
  BY <1>1, <1>2, <1>4 DEF Gives, more

\* What a fold comes to, by what it keeps at each of its places.
LEMMA FoldReaches ==
  ASSUME NEW S, NEW n \in Nat, NEW base \in S, NEW step \in Steps(S, n), NEW f, Follows(f, S, n, base, step),
         NEW P, base \in P[0], Leads(step, P, S, n)
  PROVE  f[1..n] \in S /\ f[1..n] \in P[n]
<1>1. PICK v : Turns(v, S, n, base, step) /\ v[n] = f[1..n]
  BY FoldValues
<1> QED
  BY <1>1, TurnsReach

\* The folds of buildFilter: over conditions, and over the nested filters.
Listed(list, n, dialect) == FoldLeft(LAMBDA s, i : buildConditionOf(s, i, dialect), [Fresh EXCEPT !.next = n], list)
AsNested(piece) == [piece EXCEPT !.parts = [k \in DOMAIN @ |-> GroupNested(@[k])]]
WithNested(first, list, nested) == FoldLeft(LAMBDA s, j : AddText(s, AsNested(nested[j][s.next])), first, list)

\* The conditions of a filter: one part each.
LEMMA ConditionsText ==
  ASSUME NEW dialect, NEW n \in Nat, NEW list \in Seq(1..MaxConditions),
         \A k \in 1..Len(list) : Compares(list[k], dialect)
  PROVE  LET t == Listed(list, n, dialect)
         IN  /\ t \in TextsFrom(placeholder(dialect), n) /\ Len(t.parts) = Len(list)
             /\ Gives(t.parts, {Meant(list[k], ops[list[k]]) : k \in 1..Len(list)})
<1> DEFINE S == TextsFrom(placeholder(dialect), n)
           m == Len(list)
           base == [Fresh EXCEPT !.next = n]
           step == [x \in S \X (1..m) |-> buildConditionOf(x[1], list[x[2]], dialect)]
           IsFold(h) == h = [c \in SUBSET (1..m) |->
                              IF c = {} THEN base ELSE buildConditionOf(h[c \ {Max(c)}], list[Max(c)], dialect)]
           f == CHOOSE h : IsFold(h)
           Rowss(k) == {Meant(list[j], ops[list[j]]) : j \in 1..k}
           Right(t, k) == Len(t.parts) = k /\ Gives(t.parts, Rowss(k))
           P == [k \in 0..m |-> {t \in S : Right(t, k)}]
<1>0. m \in Nat /\ DOMAIN list = 1..m /\ \A k \in 1..m : Compares(list[k], dialect)
  OBVIOUS
<1>b. base \in S /\ base.parts = <<>>
  BY StyleOf, FreshText
<1> HIDE DEF m, base
<1>1. ASSUME NEW t \in S, NEW k \in 1..m
      PROVE  /\ buildConditionOf(t, list[k], dialect) \in S
             /\ buildConditionOf(t, list[k], dialect).parts = Append(t.parts, Part(Meant(list[k], ops[list[k]])))
  BY <1>0, <1>1, ConditionText
<1> HIDE DEF S
<1>2. step \in Steps(S, m)
  BY <1>1 DEF Steps
<1>3. \A t \in S, k \in 1..m : step[<<t, k>>] = buildConditionOf(t, list[k], dialect)
  OBVIOUS
<1> HIDE DEF step
<1>m. \A c \in SUBSET (1..m) : c # {} => Max(c) \in 1..m /\ c \ {Max(c)} \in SUBSET (1..m)
  BY <1>0, Greatest
<1>4. \E h : IsFold(h)
  <2> PICK h : FoldOf(h, S, m, base, step)
    BY <1>0, <1>b, <1>2, FoldExists
  <2>1. /\ h \in [SUBSET (1..m) -> S]
        /\ h = [c \in SUBSET (1..m) |-> IF c = {} THEN base ELSE step[<<h[c \ {Max(c)}], Max(c)>>]]
    BY DEF FoldOf
  <2> DEFINE other == [c \in SUBSET (1..m) |->
                        IF c = {} THEN base ELSE buildConditionOf(h[c \ {Max(c)}], list[Max(c)], dialect)]
  <2>2. ASSUME NEW c \in SUBSET (1..m) PROVE h[c] = other[c]
    BY <1>3, <1>m, <2>1
  <2>3. h = other
    BY <2>1, <2>2
  <2>4. IsFold(h)
    BY <2>3
  <2> HIDE DEF IsFold
  <2> QED
    BY <2>4
<1>5. IsFold(f)
  BY <1>4
<1>6. Listed(list, n, dialect) = f[1..m]
  BY <1>0 DEF Listed, FoldLeft, MapThenFoldSet, m, base
<1> HIDE DEF f
<1>7. Follows(f, S, m, base, step)
  BY <1>3, <1>5, <1>m DEF Follows
<1> HIDE DEF IsFold
<1>9. Right(base, 0)
  <2>1. Rowss(0) = {}
    OBVIOUS
  <2>2. <<>> \in Seq(Singles) /\ Len(<<>>) = 0
    OBVIOUS
  <2>3. Gives(<<>>, {})
    BY <2>2 DEF Gives
  <2> QED
    BY <1>b, <2>1, <2>2, <2>3
<1>10. ASSUME NEW k \in 0..m, NEW t \in S, k < m, Right(t, k)
       PROVE  Right(buildConditionOf(t, list[k + 1], dialect), k + 1)
  <2> DEFINE single == Part(Meant(list[k + 1], ops[list[k + 1]]))
             u == buildConditionOf(t, list[k + 1], dialect)
  <2>1. k + 1 \in 1..m /\ k \in Nat
    BY <1>0, <1>10
  <2>2. single \in Singles /\ RowsLeft(single) = Meant(list[k + 1], ops[list[k + 1]])
    BY MeantRows, PartText DEF Singles
  <2>3. u.parts = Append(t.parts, single)
    BY <1>1, <2>1
  <2>4. Rowss(k + 1) = Rowss(k) \cup {Meant(list[k + 1], ops[list[k + 1]])}
    <3>1. \A j : j \in 1..(k + 1) <=> j \in 1..k \/ j = k + 1
      BY <2>1
    <3> QED
      BY <3>1
  <2> HIDE DEF single, u, Rowss
  <2>5. Gives(t.parts, Rowss(k)) /\ Len(t.parts) = k
    BY <1>10
  <2>6. Gives(u.parts, Rowss(k + 1)) /\ Len(u.parts) = k + 1
    BY <2>2, <2>3, <2>4, <2>5, OneMorePart
  <2> QED
    BY <2>6 DEF u
<1> HIDE DEF Right
<1>11. base \in P[0]
  BY <1>0, <1>b, <1>9
<1>12. ASSUME NEW k \in 0..m, NEW t \in S, k < m, t \in P[k] PROVE step[<<t, k + 1>>] \in P[k + 1]
  <2>1. k + 1 \in 1..m /\ k + 1 \in 0..m /\ Right(t, k)
    BY <1>0, <1>12
  <2>2. buildConditionOf(t, list[k + 1], dialect) \in S
    BY <1>1, <2>1
  <2> QED
    BY <1>3, <1>10, <1>12, <2>1, <2>2
<1>13. m \in 0..m
  BY <1>0
<1> HIDE DEF P
<1>14. f[1..m] \in S /\ f[1..m] \in P[m]
  <2>1. Leads(step, P, S, m)
    BY <1>12 DEF Leads
  <2> QED
    BY <1>0, <1>b, <1>2, <1>7, <1>11, <2>1, FoldReaches
<1>15. Right(f[1..m], m)
  BY <1>13, <1>14 DEF P
<1> QED
  BY <1>6, <1>14, <1>15 DEF S, Right, base, m

\* One text behind another.
LEMMA AddedText ==
  ASSUME NEW style \in {"$", "?"}, NEW n \in Nat, NEW s \in TextsFrom(style, n), NEW piece \in TextsFrom(style, s.next)
  PROVE  AddText(s, piece) \in TextsFrom(style, n) /\ AddText(s, piece).parts = s.parts \o piece.parts
<1> DEFINE t == [marks |-> s.marks \o piece.marks, args |-> s.args \o piece.args, next |-> piece.next,
                 parts |-> s.parts \o piece.parts, ok |-> s.ok /\ piece.ok, error |-> s.error \/ piece.error]
<1>0. /\ s \in Texts /\ Numbered(style, n, s) /\ s.ok
      /\ piece \in Texts /\ Numbered(style, s.next, piece) /\ piece.ok
  BY DEF TextsFrom
<1>1. /\ s.marks \in Seq(Marks) /\ s.args \in Seq(Vals) /\ s.next \in Nat
      /\ piece.marks \in Seq(Marks) /\ piece.args \in Seq(Vals) /\ piece.next \in Nat
      /\ s.marks \o piece.marks \in Seq(Marks) /\ s.args \o piece.args \in Seq(Vals)
      /\ s.parts \o piece.parts \in Seq(Seq(Seq(SUBSET Rows)))
  <2>1. /\ s.marks \in Seq(Marks) /\ s.args \in Seq(Vals) /\ s.next \in Nat
        /\ piece.marks \in Seq(Marks) /\ piece.args \in Seq(Vals) /\ piece.next \in Nat
    BY <1>0 DEF Texts
  <2>2. s.marks \o piece.marks \in Seq(Marks) /\ s.args \o piece.args \in Seq(Vals)
    BY <2>1, ConcatProperties
  <2>3. s.parts \o piece.parts \in Seq(Seq(Seq(SUBSET Rows)))
    <3> DEFINE T == Seq(Seq(SUBSET Rows))
    <3>1. s.parts \in Seq(T) /\ piece.parts \in Seq(T)
      BY <1>0 DEF Texts
    <3> HIDE DEF T
    <3>2. s.parts \o piece.parts \in Seq(T)
      BY <3>1, ConcatProperties
    <3> QED
      BY <3>2 DEF T
  <2> QED
    BY <2>1, <2>2, <2>3
<1>2. t \in Texts
  BY <1>1 DEF Texts
<1>3. AddText(s, piece) = t
  <2> DEFINE added == Add(s, piece)
  <2>1. added = [s EXCEPT !.marks = @ \o piece.marks, !.args = @ \o piece.args, !.next = piece.next,
                          !.parts = @ \o piece.parts, !.ok = @ /\ piece.ok]
    BY DEF Add
  <2>2. added = [marks |-> s.marks \o piece.marks, args |-> s.args \o piece.args, next |-> piece.next,
                 parts |-> s.parts \o piece.parts, ok |-> s.ok /\ piece.ok, error |-> s.error]
    <3> HIDE DEF added
    <3>1. s = [marks |-> s.marks, args |-> s.args, next |-> s.next, parts |-> s.parts, ok |-> s.ok, error |-> s.error]
      BY <1>0 DEF Texts
    <3> QED
      BY <2>1, <3>1
  <2>3. AddText(s, piece) = [added EXCEPT !.error = @ \/ piece.error]
    BY DEF AddText
  <2> HIDE DEF added
  <2> QED
    BY <2>2, <2>3
<1>4. /\ t.marks = s.marks \o piece.marks /\ t.args = s.args \o piece.args /\ t.next = piece.next
      /\ t.parts = s.parts \o piece.parts /\ (t.ok <=> s.ok /\ piece.ok)
  OBVIOUS
<1> HIDE DEF t
<1>5. Numbered(style, n, t)
  BY <1>0, <1>1, <1>4, JoinedNumbered
<1> QED
  BY <1>0, <1>2, <1>3, <1>4, <1>5 DEF TextsFrom

\* The text of a filter that is not empty.
OneText(style, n, rows) == {s \in TextsFrom(style, n) : Len(s.parts) = 1 /\ RowsLeft(s.parts[1]) = rows}

\* A nested text in parentheses is a single predicate.
LEMMA GroupedText ==
  ASSUME NEW style \in {"$", "?"}, NEW n \in Nat, NEW rows, NEW piece \in OneText(style, n, rows)
  PROVE  AsNested(piece) \in TextsFrom(style, n) /\ AsNested(piece).parts = <<Part(rows)>>
<1> DEFINE t == AsNested(piece)
           parts == [k \in DOMAIN piece.parts |-> GroupNested(piece.parts[k])]
<1>0. piece \in TextsFrom(style, n) /\ piece \in Texts /\ Len(piece.parts) = 1 /\ RowsLeft(piece.parts[1]) = rows
  BY DEF OneText, TextsFrom
<1>1. DOMAIN piece.parts = {1}
  BY <1>0 DEF Texts
<1>2. GroupNested(piece.parts[1]) = Part(rows) /\ Part(rows) \in Seq(Seq(SUBSET Rows))
  <2>1. rows \in SUBSET Rows
    BY <1>0, TextRows
  <2>2. GroupNested(piece.parts[1]) = Part(rows)
    BY <1>0 DEF GroupNested, Parenthesised
  <2> QED
    BY <2>1, <2>2, PartText DEF Text
<1>3. parts = <<Part(rows)>> /\ parts \in Seq(Seq(Seq(SUBSET Rows)))
  <2> DEFINE single == Part(rows)
  <2>1. single \in Seq(Seq(SUBSET Rows)) /\ GroupNested(piece.parts[1]) = single
    BY <1>2
  <2> HIDE DEF single
  <2>2. parts = <<single>>
    BY <1>1, <2>1
  <2>3. <<single>> \in Seq(Seq(Seq(SUBSET Rows)))
    BY <2>1
  <2> QED
    BY <2>2, <2>3 DEF single
<1>4. t = [piece EXCEPT !.parts = parts]
  BY DEF AsNested
<1> HIDE DEF parts, t
<1>5. /\ t \in Texts /\ t.marks = piece.marks /\ t.args = piece.args /\ t.next = piece.next /\ t.ok = piece.ok
      /\ t.parts = parts
  BY <1>0, <1>3, <1>4 DEF Texts
<1>6. t \in TextsFrom(style, n)
  BY <1>0, <1>5, PartsChanged
<1> QED
  BY <1>3, <1>5, <1>6 DEF t

\* What there is of nested filters from any argIndex on.
Pieces(nested, K, style, meant) == \A j \in K, next \in Nat : nested[j][next] \in OneText(style, next, meant[j])

\* What nested filters mean.
Meanings(meant, list) == {meant[list[k]] : k \in 1..Len(list)}

\* The nested filters of a filter: one part each.
LEMMA NestedText ==
  ASSUME NEW style \in {"$", "?"}, NEW n \in Nat, NEW first \in TextsFrom(style, n), NEW rows, Gives(first.parts, rows),
         NEW K, NEW list \in Seq(K), NEW nested, NEW meant, Pieces(nested, K, style, meant)
  PROVE  LET t == WithNested(first, list, nested)
         IN  /\ t \in TextsFrom(style, n) /\ Len(t.parts) = Len(first.parts) + Len(list)
             /\ Gives(t.parts, rows \cup Meanings(meant, list))
<1> DEFINE S == TextsFrom(style, n)
           m == Len(list)
           More(s, j) == AddText(s, AsNested(nested[j][s.next]))
           step == [x \in S \X (1..m) |-> More(x[1], list[x[2]])]
           IsFold(h) == h = [c \in SUBSET (1..m) |->
                              IF c = {} THEN first ELSE More(h[c \ {Max(c)}], list[Max(c)])]
           f == CHOOSE h : IsFold(h)
           Rowss(k) == rows \cup {meant[list[j]] : j \in 1..k}
           Right(t, k) == Len(t.parts) = Len(first.parts) + k /\ Gives(t.parts, Rowss(k))
           P == [k \in 0..m |-> {t \in S : Right(t, k)}]
<1>0. m \in Nat /\ DOMAIN list = 1..m /\ \A k \in 1..m : list[k] \in K
  OBVIOUS
<1>b. first \in S
  OBVIOUS
<1>n. \A j \in K, next \in Nat : nested[j][next] \in OneText(style, next, meant[j])
  BY DEF Pieces
<1> HIDE DEF m
<1>6. WithNested(first, list, nested) = f[1..m]
  BY <1>0 DEF WithNested, FoldLeft, MapThenFoldSet
<1>1. ASSUME NEW t \in S, NEW k \in 1..m
      PROVE  /\ More(t, list[k]) \in S /\ More(t, list[k]).parts = t.parts \o <<Part(meant[list[k]])>>
             /\ meant[list[k]] \in SUBSET Rows
  <2> DEFINE j == list[k]
             piece == nested[j][t.next]
  <2>1. t \in TextsFrom(style, n) /\ t.next \in Nat /\ j \in K
    BY <1>0 DEF TextsFrom, Texts
  <2>2. piece \in OneText(style, t.next, meant[j])
    BY <1>n, <2>1
  <2> HIDE DEF piece, j
  <2>3. AsNested(piece) \in TextsFrom(style, t.next) /\ AsNested(piece).parts = <<Part(meant[j])>>
    BY <2>1, <2>2, GroupedText
  <2>4. meant[j] \in SUBSET Rows
    BY <2>2, TextRows DEF OneText
  <2>5. AddText(t, AsNested(piece)) \in TextsFrom(style, n) /\ AddText(t, AsNested(piece)).parts = t.parts \o <<Part(meant[j])>>
    BY <2>1, <2>3, AddedText
  <2> QED
    BY <2>4, <2>5 DEF piece, j
<1> HIDE DEF S, More
<1>2. step \in Steps(S, m)
  BY <1>1 DEF Steps
<1>3. \A t \in S, k \in 1..m : step[<<t, k>>] = More(t, list[k])
  OBVIOUS
<1> HIDE DEF step
<1>m. \A c \in SUBSET (1..m) : c # {} => Max(c) \in 1..m /\ c \ {Max(c)} \in SUBSET (1..m)
  BY <1>0, Greatest
<1>4. \E h : IsFold(h)
  <2> PICK h : FoldOf(h, S, m, first, step)
    BY <1>0, <1>b, <1>2, FoldExists
  <2>1. /\ h \in [SUBSET (1..m) -> S]
        /\ h = [c \in SUBSET (1..m) |-> IF c = {} THEN first ELSE step[<<h[c \ {Max(c)}], Max(c)>>]]
    BY DEF FoldOf
  <2> DEFINE other == [c \in SUBSET (1..m) |-> IF c = {} THEN first ELSE More(h[c \ {Max(c)}], list[Max(c)])]
  <2>2. ASSUME NEW c \in SUBSET (1..m) PROVE h[c] = other[c]
    BY <1>3, <1>m, <2>1
  <2>3. h = other
    BY <2>1, <2>2
  <2>4. IsFold(h)
    BY <2>3
  <2> HIDE DEF IsFold
  <2> QED
    BY <2>4
<1>5. IsFold(f)
  BY <1>4
<1> HIDE DEF f
<1>7. Follows(f, S, m, first, step)
  BY <1>3, <1>5, <1>m DEF Follows
<1> HIDE DEF IsFold
<1>9. Right(first, 0)
  <2>1. Rowss(0) = rows
    OBVIOUS
  <2>2. Len(first.parts) = Len(first.parts) + 0
    <3> DEFINE l == Len(first.parts)
    <3>1. l \in Nat
      BY DEF Gives
    <3> HIDE DEF l
    <3>2. l = l + 0
      BY <3>1
    <3> QED
      BY <3>2 DEF l
  <2> HIDE DEF Rowss
  <2>3. Gives(first.parts, Rowss(0))
    BY <2>1
  <2> QED
    BY <2>2, <2>3
<1>10. ASSUME NEW k \in 0..m, NEW t \in S, k < m, Right(t, k)
       PROVE  Right(More(t, list[k + 1]), k + 1)
  <2> DEFINE r == meant[list[k + 1]]
             single == Part(r)
             u == More(t, list[k + 1])
  <2>1. k + 1 \in 1..m /\ k \in Nat
    BY <1>0, <1>10
  <2>2. single \in Singles /\ RowsLeft(single) = r
    <3>1. r \in SUBSET Rows
      BY <1>1, <2>1
    <3> QED
      BY <3>1, PartText DEF Singles
  <2>3. u.parts = t.parts \o <<single>>
    BY <1>1, <2>1
  <2>4. Rowss(k + 1) = Rowss(k) \cup {r}
    <3>1. \A j : j \in 1..(k + 1) <=> j \in 1..k \/ j = k + 1
      BY <2>1
    <3> QED
      BY <3>1
  <2> HIDE DEF single, u, r, Rowss
  <2>5. Gives(t.parts, Rowss(k)) /\ Len(t.parts) = Len(first.parts) + k
    BY <1>10
  <2>6. t.parts \o <<single>> = Append(t.parts, single)
    <3>1. t.parts \in Seq(Singles)
      BY <2>5 DEF Gives
    <3> QED
      BY <2>2, <3>1
  <2>7. Gives(u.parts, Rowss(k + 1)) /\ Len(u.parts) = Len(t.parts) + 1
    <3>1. u.parts = Append(t.parts, single)
      BY <2>3, <2>6
    <3> QED
      BY <2>2, <2>4, <2>5, <3>1, OneMorePart
  <2>8. Len(u.parts) = Len(first.parts) + (k + 1)
    <3> DEFINE l == Len(first.parts)
    <3>1. l \in Nat
      BY DEF Gives
    <3>2. Len(u.parts) = (l + k) + 1
      BY <2>5, <2>7
    <3> HIDE DEF l
    <3>3. Len(u.parts) = l + (k + 1)
      BY <2>1, <3>1, <3>2
    <3> QED
      BY <3>3 DEF l
  <2> QED
    BY <2>7, <2>8 DEF u
<1> HIDE DEF Right
<1>11. first \in P[0]
  BY <1>0, <1>b, <1>9
<1>12. ASSUME NEW k \in 0..m, NEW t \in S, k < m, t \in P[k] PROVE step[<<t, k + 1>>] \in P[k + 1]
  <2>1. k + 1 \in 1..m /\ k + 1 \in 0..m /\ Right(t, k)
    BY <1>0, <1>12
  <2>2. More(t, list[k + 1]) \in S
    BY <1>1, <2>1
  <2> QED
    BY <1>3, <1>10, <1>12, <2>1, <2>2
<1>13. m \in 0..m
  BY <1>0
<1> HIDE DEF P
<1>14. f[1..m] \in S /\ f[1..m] \in P[m]
  <2>1. Leads(step, P, S, m)
    BY <1>12 DEF Leads
  <2> QED
    BY <1>0, <1>b, <1>2, <1>7, <1>11, <2>1, FoldReaches
<1>15. Right(f[1..m], m)
  BY <1>13, <1>14 DEF P
<1> QED
  BY <1>6, <1>14, <1>15 DEF S, Right, m, Meanings

Operators3 == {"AND", "OR", "NOT"}

\* What a filter with these parts leaves.
Wanted(rows, op) == IF op = "NOT" THEN Rows \ UNION rows ELSE Joined(rows, op)

\* NOT before every predicate leaves the other rows of each.
LEMMA NegatedParts ==
  ASSUME NEW parts \in Seq(Singles)
  PROVE  LET ps == [k \in DOMAIN parts |-> Part(Rows \ RowsLeft(parts[k]))]
         IN  /\ ps \in Seq(Singles) /\ Len(ps) = Len(parts)
             /\ \A k \in 1..Len(parts) : RowsLeft(ps[k]) = Rows \ RowsLeft(parts[k])
<1> DEFINE ps == [k \in DOMAIN parts |-> Part(Rows \ RowsLeft(parts[k]))]
<1>1. DOMAIN parts = 1..Len(parts) /\ Len(parts) \in Nat
  OBVIOUS
<1>2. ASSUME NEW k \in 1..Len(parts)
      PROVE  ps[k] \in Singles /\ RowsLeft(ps[k]) = Rows \ RowsLeft(parts[k])
  <2>1. ps[k] = Part(Rows \ RowsLeft(parts[k]))
    BY <1>1
  <2>2. Rows \ RowsLeft(parts[k]) \in SUBSET Rows
    OBVIOUS
  <2> HIDE DEF ps
  <2> QED
    BY <2>1, <2>2, PartText DEF Singles
<1>3. ps \in [1..Len(parts) -> Singles]
  BY <1>1, <1>2
<1> HIDE DEF ps
<1>4. ps \in Seq(Singles) /\ Len(ps) = Len(parts)
  BY <1>1, <1>3, IsASeq
<1> QED
  BY <1>2, <1>4 DEF ps

\* The parts of a filter with its operator between them.
LEMMA PartsJoined ==
  ASSUME NEW parts, NEW rows, Gives(parts, rows), Len(parts) # 0, NEW op \in Operators3
  PROVE  LET ps == IF op = "NOT" THEN [k \in DOMAIN parts |-> Part(Rows \ RowsLeft(parts[k]))] ELSE parts
         IN  /\ ps # <<>> /\ JoinTexts(ps, op) \in Text /\ RowsLeft(JoinTexts(ps, op)) = Wanted(rows, op)
             /\ op # "OR" \/ Len(parts) = 1 => Len(JoinTexts(ps, op)) = 1
<1> DEFINE negated == [k \in DOMAIN parts |-> Part(Rows \ RowsLeft(parts[k]))]
           ps == IF op = "NOT" THEN negated ELSE parts
           t == JoinTexts(ps, op)
           n == Len(parts)
<1>0. parts \in Seq(Singles) /\ rows = {RowsLeft(parts[j]) : j \in 1..n} /\ n \in Nat /\ n # 0
  BY DEF Gives
<1>1. /\ ps \in Seq(Singles) /\ Len(ps) = n
      /\ \A k \in 1..n : RowsLeft(ps[k]) = IF op = "NOT" THEN Rows \ RowsLeft(parts[k]) ELSE RowsLeft(parts[k])
  <2>1. negated \in Seq(Singles) /\ Len(negated) = n /\ \A k \in 1..n : RowsLeft(negated[k]) = Rows \ RowsLeft(parts[k])
    BY <1>0, NegatedParts
  <2> HIDE DEF negated
  <2> QED
    BY <1>0, <2>1
<1>j. JoinTexts(IF op = "NOT" THEN [k \in DOMAIN parts |-> Part(Rows \ RowsLeft(parts[k]))] ELSE parts, op) = t
  OBVIOUS
<1> HIDE DEF n
<1>2. ps \in Seq(Joint(op)) /\ ps # <<>>
  <2>1. \A x \in Singles : x \in Joint(op)
    BY DEF Singles, Joint
  <2> HIDE DEF ps
  <2>2. ps \in Seq(Joint(op))
    BY <1>1, <2>1, SeqOfMore
  <2>3. Len(<<>>) = 0
    OBVIOUS
  <2> QED
    BY <1>0, <1>1, <2>2, <2>3
<1>3. /\ t \in Joint(op)
      /\ op = "OR" => \A r : r \in RowsLeft(t) <=> \E j \in 1..Len(ps) : r \in RowsLeft(ps[j])
      /\ op # "OR" => \A r : r \in RowsLeft(t) <=> \A j \in 1..Len(ps) : r \in RowsLeft(ps[j])
      /\ Len(ps) = 1 => t = ps[1]
  <2> HIDE DEF ps
  <2> QED
    BY <1>2, TextsJoined
<1>4. t \in Text /\ (op # "OR" => Len(t) = 1)
  <2> HIDE DEF t
  <2> QED
    BY <1>3 DEF Joint
<1>5. ASSUME n = 1 PROVE Len(t) = 1
  <2> HIDE DEF t, ps
  <2>1. ps[1] \in Singles /\ t = ps[1]
    BY <1>1, <1>3, <1>5
  <2> QED
    BY <2>1 DEF Singles
<1> HIDE DEF t, ps
<1>r. \A k : RowsLeft(parts[k]) \in SUBSET Rows
  BY TextRows
<1>6. RowsLeft(t) = Wanted(rows, op)
  <2>1. CASE op = "OR"
    <3>1. \A r : r \in RowsLeft(t) <=> \E j \in 1..n : r \in RowsLeft(parts[j])
      BY <1>1, <1>3, <2>1
    <3>2. \A r : r \in RowsLeft(t) <=> \E p \in rows : r \in p
      BY <1>0, <3>1
    <3>3. Wanted(rows, op) = UNION rows
      BY <2>1 DEF Wanted, Joined
    <3> QED
      BY <3>2, <3>3
  <2>2. CASE op = "AND"
    <3>1. \A r : r \in RowsLeft(t) <=> \A j \in 1..n : r \in RowsLeft(parts[j])
      BY <1>1, <1>3, <2>2
    <3>2. \A r : r \in RowsLeft(t) <=> r \in Rows /\ \A p \in rows : r \in p
      BY <1>0, <1>r, <3>1
    <3>3. Wanted(rows, op) = {r \in Rows : \A p \in rows : r \in p}
      BY <2>2 DEF Wanted, Joined
    <3> QED
      BY <3>2, <3>3
  <2>3. CASE op = "NOT"
    <3>1. \A r : r \in RowsLeft(t) <=> \A j \in 1..n : r \in Rows \ RowsLeft(parts[j])
      BY <1>1, <1>3, <2>3
    <3>2. \A r : r \in RowsLeft(t) <=> r \in Rows /\ \A p \in rows : r \notin p
      BY <1>0, <3>1
    <3>3. Wanted(rows, op) = Rows \ UNION rows
      BY <2>3 DEF Wanted
    <3> QED
      BY <3>2, <3>3
  <2> QED
    BY <2>1, <2>2, <2>3 DEF Operators3
<1>7. ps # <<>>
  BY <1>2
<1> QED
  BY <1>4, <1>5, <1>6, <1>7, <1>j DEF ps, n, t

\* A filter whose conditions are SQL of the database, and whose nested filters are in K.
Filters(K, dialect) ==
  {f \in [conditions : Seq(1..MaxConditions), nested : Seq(K), operator : Operators3] :
     \A k \in 1..Len(f.conditions) : Compares(f.conditions[k], dialect)}
IsEmpty(f) == Len(f.conditions) = 0 /\ Len(f.nested) = 0
OneSide(f) == f.operator # "OR" \/ Len(f.conditions) + Len(f.nested) <= 1

\* What the text of a filter is, from argIndex n on.
TextOf(f, style, n, rows) ==
  {t \in TextsFrom(style, n) :
     IF IsEmpty(f) THEN t.parts = <<>> /\ rows = Rows
     ELSE /\ Len(t.parts) = 1 /\ t.parts[1] \in Text /\ RowsLeft(t.parts[1]) = rows
          /\ OneSide(f) => Len(t.parts[1]) = 1}

\* The set that a filter means the parts of.
LEMMA MeansRows ==
  ASSUME NEW K, NEW dialect, NEW f \in Filters(K, dialect), NEW before
  PROVE  LET rows == {Meant(f.conditions[k], ops[f.conditions[k]]) : k \in 1..Len(f.conditions)}
                       \cup Meanings(before, f.nested)
         IN  MeansOf(f, before) = IF IsEmpty(f) THEN Rows ELSE Wanted(rows, f.operator)
<1> DEFINE one == {Meant(f.conditions[k], ops[f.conditions[k]]) : k \in 1..Len(f.conditions)}
           other == Meanings(before, f.nested)
           parts == {Meant(i, ops[i]) : i \in Range(f.conditions)} \cup {before[j] : j \in Range(f.nested)}
<1>1. /\ DOMAIN f.conditions = 1..Len(f.conditions) /\ DOMAIN f.nested = 1..Len(f.nested)
      /\ Len(f.conditions) \in Nat /\ Len(f.nested) \in Nat /\ f.operator \in Operators3
  BY DEF Filters
<1>2. {Meant(i, ops[i]) : i \in Range(f.conditions)} = one
  BY <1>1 DEF Range
<1>3. {before[j] : j \in Range(f.nested)} = other
  BY <1>1 DEF Range, Meanings
<1>4. parts = one \cup other
  BY <1>2, <1>3
<1>5. MeansOf(f, before) = CASE parts = {} -> Rows
                             [] parts # {} /\ f.operator = "NOT" -> Rows \ UNION parts
                             [] OTHER -> Joined(parts, f.operator)
  BY DEF MeansOf
<1>6. parts = {} <=> IsEmpty(f)
  <2>1. one = {} <=> Len(f.conditions) = 0
    <3>1. \A k \in 1..Len(f.conditions) : Meant(f.conditions[k], ops[f.conditions[k]]) \in one
      OBVIOUS
    <3>2. Len(f.conditions) # 0 => 1 \in 1..Len(f.conditions)
      BY <1>1
    <3>3. Len(f.conditions) = 0 => 1..Len(f.conditions) = {}
      BY <1>1
    <3> QED
      BY <3>1, <3>2, <3>3
  <2>2. other = {} <=> Len(f.nested) = 0
    <3>1. \A k \in 1..Len(f.nested) : before[f.nested[k]] \in other
      BY DEF Meanings
    <3>2. Len(f.nested) # 0 => 1 \in 1..Len(f.nested)
      BY <1>1
    <3>3. Len(f.nested) = 0 => 1..Len(f.nested) = {}
      BY <1>1
    <3> QED
      BY <3>1, <3>2, <3>3 DEF Meanings
  <2> HIDE DEF one, other, parts
  <2> QED
    BY <1>4, <2>1, <2>2 DEF IsEmpty
<1> HIDE DEF parts
<1>7. MeansOf(f, before) = IF IsEmpty(f) THEN Rows ELSE Wanted(parts, f.operator)
  BY <1>5, <1>6 DEF Wanted
<1> QED
  BY <1>4, <1>7

\* What the compiler makes of a filter leaves what it means.
LEMMA FilterText ==
  ASSUME NEW dialect, NEW n \in Nat, NEW K, NEW f \in Filters(K, dialect),
         NEW nested, NEW before, Pieces(nested, K, placeholder(dialect), before)
  PROVE  buildFilter(f, nested, n, dialect) \in TextOf(f, placeholder(dialect), n, MeansOf(f, before))
<1> DEFINE style == placeholder(dialect)
           direct == Listed(f.conditions, n, dialect)
           whole == WithNested(direct, f.nested, nested)
           ps == IF f.operator = "NOT" THEN [k \in DOMAIN whole.parts |-> Part(Rows \ RowsLeft(whole.parts[k]))]
                 ELSE whole.parts
           parts == IF whole.parts = <<>> THEN <<>> ELSE <<JoinTexts(ps, f.operator)>>
           built == [whole EXCEPT !.parts = parts]
           one == {Meant(f.conditions[k], ops[f.conditions[k]]) : k \in 1..Len(f.conditions)}
           rows == one \cup Meanings(before, f.nested)
<1>1. buildFilter(f, nested, n, dialect) = built
  BY DEF buildFilter, WholeText, Listed, WithNested, AsNested, FoldLeft, MapThenFoldSet
<1>2. /\ f.conditions \in Seq(1..MaxConditions) /\ f.nested \in Seq(K) /\ f.operator \in Operators3
      /\ \A k \in 1..Len(f.conditions) : Compares(f.conditions[k], dialect)
      /\ style \in {"$", "?"} /\ Len(f.conditions) \in Nat /\ Len(f.nested) \in Nat
  BY StyleOf DEF Filters
<1>3. direct \in TextsFrom(style, n) /\ Len(direct.parts) = Len(f.conditions) /\ Gives(direct.parts, one)
  BY <1>2, ConditionsText
<1>4. whole \in TextsFrom(style, n) /\ Len(whole.parts) = Len(direct.parts) + Len(f.nested) /\ Gives(whole.parts, rows)
  <2> HIDE DEF direct, one, style
  <2>1. Pieces(nested, K, style, before)
    BY DEF style
  <2> QED
    BY <1>2, <1>3, <2>1, NestedText
<1>m. MeansOf(f, before) = IF IsEmpty(f) THEN Rows ELSE Wanted(rows, f.operator)
  BY MeansRows
<1> HIDE DEF whole, direct, style, rows, one
<1>5. Len(whole.parts) = Len(f.conditions) + Len(f.nested) /\ (Len(whole.parts) = 0 <=> IsEmpty(f))
  <2> DEFINE a == Len(f.conditions)
             b == Len(f.nested)
  <2>1. a \in Nat /\ b \in Nat /\ Len(whole.parts) = a + b
    BY <1>2, <1>3, <1>4
  <2>2. a + b = 0 <=> a = 0 /\ b = 0
    <3> HIDE DEF a, b
    <3> QED
      BY <2>1
  <2> QED
    BY <2>1, <2>2 DEF IsEmpty
<1>6. ASSUME NEW more \in Seq(Seq(Seq(SUBSET Rows)))
      PROVE  [whole EXCEPT !.parts = more] \in TextsFrom(style, n) /\ [whole EXCEPT !.parts = more].parts = more
  <2> DEFINE t == [whole EXCEPT !.parts = more]
  <2>1. whole \in Texts
    BY <1>4 DEF TextsFrom
  <2>2. /\ t \in Texts /\ t.marks = whole.marks /\ t.args = whole.args /\ t.next = whole.next /\ t.ok = whole.ok
        /\ t.parts = more
    BY <2>1 DEF Texts
  <2> HIDE DEF t
  <2>3. t \in TextsFrom(style, n)
    BY <1>2, <1>4, <2>2, PartsChanged
  <2> QED
    BY <2>2, <2>3 DEF t
<1>7. CASE IsEmpty(f)
  <2>1. whole.parts = <<>>
    <3>1. whole.parts \in Seq(Singles) /\ Len(whole.parts) = 0
      BY <1>4, <1>5, <1>7 DEF Gives
    <3> QED
      BY <3>1, EmptySeq
  <2> DEFINE none == <<>>
  <2>3. parts = none /\ none \in Seq(Seq(Seq(SUBSET Rows)))
    BY <2>1
  <2> HIDE DEF parts, none
  <2>4. built \in TextsFrom(style, n) /\ built.parts = none
    BY <1>6, <2>3
  <2> QED
    BY <1>1, <1>7, <1>m, <2>4 DEF TextOf, none, style
<1>8. CASE ~IsEmpty(f)
  <2> DEFINE t == JoinTexts(ps, f.operator)
  <2>1. /\ ps # <<>> /\ t \in Text /\ RowsLeft(t) = Wanted(rows, f.operator)
        /\ f.operator # "OR" \/ Len(whole.parts) = 1 => Len(t) = 1
    BY <1>2, <1>4, <1>5, <1>8, PartsJoined
  <2>0. whole.parts # <<>>
    <3>1. Len(whole.parts) # 0 /\ Len(<<>>) = 0
      BY <1>5, <1>8
    <3> QED
      BY <3>1
  <2> HIDE DEF ps, t
  <2>2. parts = <<t>>
    BY <2>0 DEF t
  <2>3. <<t>> \in Seq(Seq(Seq(SUBSET Rows))) /\ Len(<<t>>) = 1 /\ <<t>>[1] = t
    BY <2>1 DEF Text
  <2> DEFINE single == <<t>>
  <2> HIDE DEF single, parts
  <2>4. built \in TextsFrom(style, n) /\ built.parts = single
    BY <1>6, <2>2, <2>3 DEF single
  <2>5. OneSide(f) => Len(t) = 1
    <3> DEFINE l == Len(f.conditions) + Len(f.nested)
    <3>0. Len(whole.parts) # 0 /\ Len(whole.parts) = l
      BY <1>5, <1>8
    <3>1. l # 0 /\ l \in Nat /\ Len(whole.parts) = l
      <4>1. Len(f.conditions) \in Nat /\ Len(f.nested) \in Nat
        BY <1>2
      <4>2. l \in Nat
        <5>1. \A a, b \in Nat : a + b \in Nat
          OBVIOUS
        <5> QED
          BY <4>1, <5>1
      <4> HIDE DEF l
      <4> QED
        BY <3>0, <4>2
    <3>2. l <= 1 => Len(whole.parts) = 1
      <4> HIDE DEF l
      <4> QED
        BY <3>1
    <3> QED
      BY <2>1, <3>2 DEF OneSide
  <2>6. Len(single) = 1 /\ single[1] = t
    BY <2>3 DEF single
  <2> QED
    BY <1>1, <1>8, <1>m, <2>1, <2>4, <2>5, <2>6 DEF TextOf, style
<1> QED
  BY <1>7, <1>8

\* The filters of a query: each comes after those nested in it, none of which is empty.
InTurn(filters, dialect) ==
  /\ Len(filters) \in Nat \ {0}
  /\ \A k \in 1..Len(filters) : filters[k] \in Filters(1..(k - 1), dialect)
  /\ \A k \in 1..Len(filters) : k < Len(filters) => ~IsEmpty(filters[k])

\* One filter after the other, compiled and as it is meant.
OneMoreText(before, f, dialect) == Append(before, [next \in Nat |-> buildFilter(f, before, next, dialect)])
TextsInTurn(build, filters, dialect, n) ==
  build = [k \in 0..n |-> IF k = 0 THEN <<>> ELSE OneMoreText(build[k - 1], filters[k], dialect)]
OneMoreMeaning(before, f) == Append(before, MeansOf(f, before))
MeaningsInTurn(means, filters, n) ==
  means = [k \in 0..n |-> IF k = 0 THEN <<>> ELSE OneMoreMeaning(means[k - 1], filters[k])]

\* buildFilter has a value for every filter, in the order they are listed.
LEMMA TextsExist ==
  ASSUME NEW filters, NEW dialect, NEW n \in Nat
  PROVE  \E build : TextsInTurn(build, filters, dialect, n)
<1> DEFINE K == {k \in 0..n : \E build : TextsInTurn(build, filters, dialect, k)}
<1>1. 0 \in K
  <2> DEFINE b == [k \in 0..0 |-> <<>>]
  <2>1. b = [k \in 0..0 |-> IF k = 0 THEN <<>> ELSE OneMoreText(b[k - 1], filters[k], dialect)]
    OBVIOUS
  <2> HIDE DEF b
  <2>2. TextsInTurn(b, filters, dialect, 0)
    BY <2>1 DEF TextsInTurn
  <2> QED
    BY <2>2
<1>2. ASSUME NEW k \in 0..n, k \in K, k < n PROVE k + 1 \in K
  <2> PICK b : TextsInTurn(b, filters, dialect, k)
    BY <1>2
  <2> DEFINE more == [j \in 0..(k + 1) |-> IF j = k + 1 THEN OneMoreText(b[k], filters[k + 1], dialect) ELSE b[j]]
             other == [j \in 0..(k + 1) |-> IF j = 0 THEN <<>> ELSE OneMoreText(more[j - 1], filters[j], dialect)]
  <2>1. b = [j \in 0..k |-> IF j = 0 THEN <<>> ELSE OneMoreText(b[j - 1], filters[j], dialect)]
    BY DEF TextsInTurn
  <2>2. ASSUME NEW j \in 0..(k + 1) PROVE more[j] = other[j]
    <3>1. CASE j = k + 1
      <4>1. j # 0 /\ j - 1 = k /\ k # k + 1 /\ k \in 0..(k + 1)
        BY <3>1
      <4>2. more[j - 1] = b[k]
        BY <4>1
      <4>3. more[j] = OneMoreText(b[k], filters[k + 1], dialect)
        BY <3>1
      <4>4. other[j] = OneMoreText(more[j - 1], filters[j], dialect)
        BY <4>1
      <4> HIDE DEF more, other
      <4> QED
        BY <3>1, <4>2, <4>3, <4>4
    <3>2. CASE j # k + 1 /\ j # 0
      <4>1. j \in 0..k /\ j - 1 \in 0..(k + 1) /\ j - 1 # k + 1
        BY <3>2
      <4>2. more[j] = b[j] /\ more[j - 1] = b[j - 1]
        BY <3>2, <4>1
      <4>3. b[j] = OneMoreText(b[j - 1], filters[j], dialect)
        BY <2>1, <3>2, <4>1
      <4>4. other[j] = OneMoreText(more[j - 1], filters[j], dialect)
        BY <3>2
      <4> HIDE DEF more, other
      <4> QED
        BY <4>2, <4>3, <4>4
    <3>3. CASE j = 0
      <4>1. 0 \in 0..k /\ 0 # k + 1
        OBVIOUS
      <4>2. b[0] = <<>>
        BY <2>1, <4>1
      <4> QED
        BY <3>3, <4>1, <4>2
    <3> QED
      BY <3>1, <3>2, <3>3
  <2>3. more = other
    BY <2>2
  <2>4. TextsInTurn(more, filters, dialect, k + 1)
    BY <2>3 DEF TextsInTurn
  <2>5. k + 1 \in 0..n
    BY <1>2
  <2> HIDE DEF more
  <2> QED
    BY <2>4, <2>5
<1>3. n \in 0..n /\ \A k \in 0..n : k \in K
  <2> HIDE DEF K
  <2> QED
    BY <1>1, <1>2, UpTo
<1> QED
  BY <1>3

\* So has what a filter means.
LEMMA MeaningsExist ==
  ASSUME NEW filters, NEW n \in Nat
  PROVE  \E means : MeaningsInTurn(means, filters, n)
<1> DEFINE K == {k \in 0..n : \E means : MeaningsInTurn(means, filters, k)}
<1>1. 0 \in K
  <2> DEFINE b == [k \in 0..0 |-> <<>>]
  <2>1. b = [k \in 0..0 |-> IF k = 0 THEN <<>> ELSE OneMoreMeaning(b[k - 1], filters[k])]
    OBVIOUS
  <2> HIDE DEF b
  <2>2. MeaningsInTurn(b, filters, 0)
    BY <2>1 DEF MeaningsInTurn
  <2> QED
    BY <2>2
<1>2. ASSUME NEW k \in 0..n, k \in K, k < n PROVE k + 1 \in K
  <2> PICK b : MeaningsInTurn(b, filters, k)
    BY <1>2
  <2> DEFINE more == [j \in 0..(k + 1) |-> IF j = k + 1 THEN OneMoreMeaning(b[k], filters[k + 1]) ELSE b[j]]
             other == [j \in 0..(k + 1) |-> IF j = 0 THEN <<>> ELSE OneMoreMeaning(more[j - 1], filters[j])]
  <2>1. b = [j \in 0..k |-> IF j = 0 THEN <<>> ELSE OneMoreMeaning(b[j - 1], filters[j])]
    BY DEF MeaningsInTurn
  <2>2. ASSUME NEW j \in 0..(k + 1) PROVE more[j] = other[j]
    <3>1. CASE j = k + 1
      <4>1. j # 0 /\ j - 1 = k /\ k # k + 1 /\ k \in 0..(k + 1)
        BY <3>1
      <4>2. more[j - 1] = b[k]
        BY <4>1
      <4>3. more[j] = OneMoreMeaning(b[k], filters[k + 1])
        BY <3>1
      <4>4. other[j] = OneMoreMeaning(more[j - 1], filters[j])
        BY <4>1
      <4> HIDE DEF more, other
      <4> QED
        BY <3>1, <4>2, <4>3, <4>4
    <3>2. CASE j # k + 1 /\ j # 0
      <4>1. j \in 0..k /\ j - 1 \in 0..(k + 1) /\ j - 1 # k + 1
        BY <3>2
      <4>2. more[j] = b[j] /\ more[j - 1] = b[j - 1]
        BY <3>2, <4>1
      <4>3. b[j] = OneMoreMeaning(b[j - 1], filters[j])
        BY <2>1, <3>2, <4>1
      <4>4. other[j] = OneMoreMeaning(more[j - 1], filters[j])
        BY <3>2
      <4> HIDE DEF more, other
      <4> QED
        BY <4>2, <4>3, <4>4
    <3>3. CASE j = 0
      <4>1. 0 \in 0..k /\ 0 # k + 1
        OBVIOUS
      <4>2. b[0] = <<>>
        BY <2>1, <4>1
      <4> QED
        BY <3>3, <4>1, <4>2
    <3> QED
      BY <3>1, <3>2, <3>3
  <2>3. more = other
    BY <2>2
  <2>4. MeaningsInTurn(more, filters, k + 1)
    BY <2>3 DEF MeaningsInTurn
  <2>5. k + 1 \in 0..n
    BY <1>2
  <2> HIDE DEF more
  <2> QED
    BY <2>4, <2>5
<1>3. n \in 0..n /\ \A k \in 0..n : k \in K
  <2> HIDE DEF K
  <2> QED
    BY <1>1, <1>2, UpTo
<1> QED
  BY <1>3

\* The first k filters of a query, compiled and as they are meant.
SoFar(filters, style, texts, meant, k) ==
  /\ texts \in Seq([Nat -> Texts]) /\ Len(texts) = k /\ meant \in Seq(SUBSET Rows) /\ Len(meant) = k
  /\ \A j \in 1..k, next \in Nat : texts[j][next] \in TextOf(filters[j], style, next, meant[j])

\* A filter whose nested ones are written right is written right.
LEMMA OneMoreFilter ==
  ASSUME NEW dialect, NEW filters, InTurn(filters, dialect), NEW k \in 0..Len(filters), k < Len(filters),
         NEW texts, NEW meant, SoFar(filters, placeholder(dialect), texts, meant, k)
  PROVE  SoFar(filters, placeholder(dialect), OneMoreText(texts, filters[k + 1], dialect),
               OneMoreMeaning(meant, filters[k + 1]), k + 1)
<1> DEFINE f == filters[k + 1]
           style == placeholder(dialect)
           rows == MeansOf(f, meant)
           text == [next \in Nat |-> buildFilter(f, texts, next, dialect)]
<1>0. /\ k \in Nat /\ k + 1 \in 1..Len(filters) /\ style \in {"$", "?"}
      /\ texts \in Seq([Nat -> Texts]) /\ Len(texts) = k /\ meant \in Seq(SUBSET Rows) /\ Len(meant) = k
      /\ \A j \in 1..k, next \in Nat : texts[j][next] \in TextOf(filters[j], style, next, meant[j])
  BY StyleOf DEF SoFar, InTurn
<1>1. f \in Filters(1..k, dialect)
  <2>1. (k + 1) - 1 = k
    BY <1>0
  <2>2. \A i \in 1..Len(filters) : filters[i] \in Filters(1..(i - 1), dialect)
    BY DEF InTurn
  <2> QED
    BY <1>0, <2>1, <2>2
<1> HIDE DEF f
<1>2. Pieces(texts, 1..k, style, meant)
  <2>1. ASSUME NEW j \in 1..k, NEW next \in Nat PROVE texts[j][next] \in OneText(style, next, meant[j])
    <3>1. j \in 1..Len(filters) /\ j < Len(filters)
      BY <1>0
    <3>2. ~IsEmpty(filters[j])
      BY <3>1 DEF InTurn
    <3>3. texts[j][next] \in TextOf(filters[j], style, next, meant[j])
      BY <1>0
    <3> HIDE DEF style
    <3> QED
      BY <3>2, <3>3 DEF TextOf, OneText
  <2> HIDE DEF style
  <2> QED
    BY <2>1 DEF Pieces
<1>3. ASSUME NEW next \in Nat PROVE text[next] \in TextOf(f, style, next, rows) /\ text[next] \in Texts
  <2>1. text[next] = buildFilter(f, texts, next, dialect)
    OBVIOUS
  <2> HIDE DEF text
  <2>2. text[next] \in TextOf(f, style, next, rows)
    BY <1>1, <1>2, <2>1, FilterText
  <2>3. text[next] \in Texts
    BY <2>2 DEF TextOf, TextsFrom
  <2> QED
    BY <2>2, <2>3
<1>4. rows \in SUBSET Rows
  <2>1. rows = Rows \/ \E s : rows = RowsLeft(s)
    BY <1>3, 0 \in Nat DEF TextOf
  <2> QED
    BY <2>1, TextRows
<1>5. text \in [Nat -> Texts]
  BY <1>3
<1>6. OneMoreText(texts, f, dialect) = Append(texts, text) /\ OneMoreMeaning(meant, f) = Append(meant, rows)
  BY DEF OneMoreText, OneMoreMeaning
<1> HIDE DEF text, rows, style
<1> DEFINE T == [Nat -> Texts]
           U == SUBSET Rows
           ts == Append(texts, text)
           ms == Append(meant, rows)
<1>7. texts \in Seq(T) /\ text \in T /\ meant \in Seq(U) /\ rows \in U
  BY <1>0, <1>4, <1>5
<1> HIDE DEF T, U
<1>8. /\ ts \in Seq(T) /\ Len(ts) = k + 1 /\ ts[k + 1] = text /\ \A j \in 1..k : ts[j] = texts[j]
      /\ ms \in Seq(U) /\ Len(ms) = k + 1 /\ ms[k + 1] = rows /\ \A j \in 1..k : ms[j] = meant[j]
  BY <1>0, <1>7, AppendProperties
<1> HIDE DEF ts, ms
<1>9. ASSUME NEW j \in 1..(k + 1), NEW next \in Nat PROVE ts[j][next] \in TextOf(filters[j], style, next, ms[j])
  <2>1. CASE j = k + 1
    BY <1>3, <1>8, <2>1 DEF f
  <2>2. CASE j # k + 1
    <3>1. j \in 1..k
      BY <1>0, <2>2
    <3> QED
      BY <1>0, <1>8, <3>1
  <2> QED
    BY <2>1, <2>2
<1>10. SoFar(filters, style, ts, ms, k + 1)
  BY <1>8, <1>9 DEF SoFar, T, U
<1> QED
  BY <1>6, <1>10 DEF ts, ms, f, style

\* A WHERE leaves what the filters of the query mean.
LEMMA WhereText ==
  ASSUME NEW dialect, NEW q, InTurn(q.filters, dialect), NEW n \in Nat, NEW s \in TextsFrom(placeholder(dialect), n)
  PROVE  \E piece \in TextOf(FilterOf(q), placeholder(dialect), s.next, Means(q)) :
           buildWhereClause(s, q.filters, dialect) = AddText(s, piece)
<1> DEFINE filters == q.filters
           style == placeholder(dialect)
           m == Len(filters)
           build == CHOOSE b : TextsInTurn(b, filters, dialect, m)
           means == CHOOSE b : MeaningsInTurn(b, filters, m)
<1>0. m \in Nat /\ m # 0 /\ s.next \in Nat
  BY DEF InTurn, TextsFrom, Texts
<1>1. buildWhereClause(s, filters, dialect) = AddText(s, Last(build[m])[s.next])
  BY DEF buildWhereClause, TextsInTurn, OneMoreText
<1>2. Means(q) = Last(means[m])
  BY DEF Means, MeaningsInTurn, OneMoreMeaning
<1>3. TextsInTurn(build, filters, dialect, m) /\ MeaningsInTurn(means, filters, m)
  <2>1. (\E b : TextsInTurn(b, filters, dialect, m)) /\ (\E b : MeaningsInTurn(b, filters, m))
    BY <1>0, TextsExist, MeaningsExist
  <2> HIDE DEF m, filters
  <2> QED
    BY <2>1
<1> HIDE DEF build, means
<1>4. /\ build[0] = <<>> /\ means[0] = <<>>
      /\ \A k \in 0..m : k < m => /\ build[k + 1] = OneMoreText(build[k], filters[k + 1], dialect)
                                  /\ means[k + 1] = OneMoreMeaning(means[k], filters[k + 1])
  <2>1. /\ build = [k \in 0..m |-> IF k = 0 THEN <<>> ELSE OneMoreText(build[k - 1], filters[k], dialect)]
        /\ means = [k \in 0..m |-> IF k = 0 THEN <<>> ELSE OneMoreMeaning(means[k - 1], filters[k])]
    BY <1>3 DEF TextsInTurn, MeaningsInTurn
  <2> HIDE DEF m, filters
  <2>2. 0 \in 0..m
    BY <1>0
  <2>3. ASSUME NEW k \in 0..m, k < m
        PROVE  /\ build[k + 1] = OneMoreText(build[k], filters[k + 1], dialect)
               /\ means[k + 1] = OneMoreMeaning(means[k], filters[k + 1])
    <3>1. k + 1 \in 0..m /\ k + 1 # 0 /\ (k + 1) - 1 = k
      BY <1>0, <2>3
    <3> QED
      BY <2>1, <3>1
  <2> QED
    BY <2>1, <2>2, <2>3
<1> DEFINE K == {k \in 0..m : SoFar(filters, style, build[k], means[k], k)}
<1>5. 0 \in K
  <2>1. 0 \in 0..m
    BY <1>0
  <2> DEFINE none == <<>>
  <2>2. none \in Seq([Nat -> Texts]) /\ none \in Seq(SUBSET Rows) /\ Len(none) = 0 /\ 1..0 = {}
    OBVIOUS
  <2>3. build[0] = none /\ means[0] = none
    BY <1>4
  <2> HIDE DEF none, m, filters, style
  <2>4. SoFar(filters, style, none, none, 0)
    BY <2>2 DEF SoFar
  <2> QED
    BY <2>1, <2>3, <2>4
<1>6. ASSUME NEW k \in 0..m, k \in K, k < m PROVE k + 1 \in K
  <2>1. k + 1 \in 0..m
    BY <1>0, <1>6
  <2>2. SoFar(filters, style, build[k], means[k], k)
    BY <1>6
  <2>3. SoFar(filters, style, OneMoreText(build[k], filters[k + 1], dialect), OneMoreMeaning(means[k], filters[k + 1]), k + 1)
    BY <1>6, <2>2, OneMoreFilter
  <2> QED
    BY <1>4, <1>6, <2>1, <2>3
<1>7. SoFar(filters, style, build[m], means[m], m)
  <2>1. m \in 0..m
    BY <1>0
  <2>2. \A k \in 0..m : k \in K
    <3> HIDE DEF K
    <3> QED
      BY <1>0, <1>5, <1>6, UpTo
  <2> QED
    BY <2>1, <2>2
<1> DEFINE piece == Last(build[m])[s.next]
<1>8. piece \in TextOf(filters[m], style, s.next, Last(means[m]))
  <2>1. /\ Len(build[m]) = m /\ Len(means[m]) = m
        /\ \A j \in 1..m, next \in Nat : build[m][j][next] \in TextOf(filters[j], style, next, means[m][j])
    BY <1>7 DEF SoFar
  <2>2. Last(build[m]) = build[m][m] /\ Last(means[m]) = means[m][m] /\ m \in 1..m
    <3> HIDE DEF m
    <3> QED
      BY <1>0, <2>1 DEF Last
  <2> HIDE DEF m, filters, style
  <2> QED
    BY <1>0, <2>1, <2>2
<1>9. FilterOf(q) = filters[m]
  BY DEF FilterOf, Last
<1> HIDE DEF piece
<1> QED
  BY <1>1, <1>2, <1>8, <1>9 DEF piece

-----------------------------------------------------------------------------
(* The compiler: statements.                                               *)

\* A statement with a WHERE that leaves these rows, or with none.
Wheres(style, n, rows) ==
  {s \in TextsFrom(style, n) : Leaving(s) = rows /\ (s.parts = <<>> \/ (Len(s.parts) = 1 /\ s.parts[1] \in Text))}
Single(s) == s.parts # <<>> => Len(s.parts[1]) = 1

\* The database accepts it, and binds every placeholder to its value.
LEMMA TextBinds ==
  ASSUME NEW dialect \in Databases, NEW s \in TextsFrom(placeholder(dialect), 1)
  PROVE  Accepts(dialect, s) /\ BoundRight(dialect, s)
<1> DEFINE style == placeholder(dialect)
           none == <<>>
           u == [marks |-> s.marks, args |-> s.args, next |-> s.next, parts |-> none, ok |-> TRUE]
<1>0. /\ s.marks \in Seq(Marks) /\ s.args \in Seq(Vals) /\ s.next \in Nat /\ s.ok /\ Numbered(style, 1, s)
      /\ style \in {"$", "?"}
  BY StyleOf DEF TextsFrom, Texts
<1>1. none \in Seq(SUBSET Rows)
  OBVIOUS
<1> HIDE DEF none, style
<1>2. u \in Statements /\ u.marks = s.marks /\ u.args = s.args /\ u.next = s.next /\ u.ok
  BY <1>0, <1>1 DEF Statements
<1> HIDE DEF u
<1>3. Numbered(style, 1, u)
  BY <1>0, <1>2 DEF Numbered
<1>4. Fine(dialect, u)
  <2>1. dialect = "postgresql" => style = "$"
    BY DEF placeholder, style
  <2>2. dialect = "mysql" => style = "?"
    BY DEF placeholder, style
  <2>3. Aligned(u)
    BY <1>0, <1>2, <1>3, NumberedAligned, 1 \in Nat
  <2> QED
    BY <1>2, <1>3, <2>1, <2>2, <2>3 DEF Fine
<1>5. Accepts(dialect, u) /\ BoundRight(dialect, u)
  BY <1>4, FineBinds
<1> DEFINE Taken(marks, args) ==
             CASE dialect = "postgresql" ->
                    /\ \A k \in DOMAIN marks : marks[k].style = "$"
                    /\ {marks[k].n : k \in DOMAIN marks} = 1..Len(args)
               [] dialect = "mysql" ->
                    /\ \A k \in DOMAIN marks : marks[k].style = "?"
                    /\ Len(marks) = Len(args)
               [] dialect = "sqlite" -> \A k \in Range(SQLiteIndexes(marks)) : k <= Len(args)
           Bound(marks, args) ==
             LET index == IF dialect = "sqlite" THEN SQLiteIndexes(marks)
                          ELSE [k \in DOMAIN marks |-> IF dialect = "mysql" THEN k ELSE marks[k].n]
             IN  \A k \in DOMAIN marks : args[index[k]] = marks[k].value
<1>6. Taken(u.marks, u.args) /\ Bound(u.marks, u.args)
  BY <1>5 DEF Accepts, BoundRight
<1>7. /\ s.ok /\ Taken(s.marks, s.args) => Accepts(dialect, s)
      /\ Bound(s.marks, s.args) => BoundRight(dialect, s)
  BY DEF Accepts, BoundRight
<1> HIDE DEF Taken, Bound
<1> QED
  BY <1>0, <1>2, <1>6, <1>7

\* A statement without a WHERE leaves every row.
LEMMA WithoutWhere ==
  ASSUME NEW style, NEW n, NEW s \in TextsFrom(style, n), s.parts = <<>>
  PROVE  s \in Wheres(style, n, Rows) /\ Single(s)
<1>1. Leaving(s) = Rows
  BY DEF Leaving
<1>2. s.parts = <<>> \/ (Len(s.parts) = 1 /\ s.parts[1] \in Text)
  OBVIOUS
<1> QED
  BY <1>1, <1>2 DEF Wheres, Single

\* So does the empty one.
LEMMA FreshWheres ==
  \A style \in {"$", "?"} : Fresh \in Wheres(style, 1, Rows) /\ Fresh.parts = <<>>
<1> SUFFICES ASSUME NEW style \in {"$", "?"} PROVE Fresh \in Wheres(style, 1, Rows) /\ Fresh.parts = <<>>
  OBVIOUS
<1> DEFINE s == [Fresh EXCEPT !.next = 1]
<1>1. s \in TextsFrom(style, 1) /\ s.parts = <<>>
  BY FreshText, 1 \in Nat
<1>2. s = Fresh
  BY DEF Fresh
<1> HIDE DEF s
<1> QED
  BY <1>1, <1>2, WithoutWhere

\* Placing values leaves the rows of a WHERE.
LEMMA PlaceWheres ==
  ASSUME NEW style \in {"$", "?"}, NEW n \in Nat, NEW rows, NEW s \in Wheres(style, n, rows), NEW values \in Seq(Vals)
  PROVE  Place(s, style, values) \in Wheres(style, n, rows) /\ Place(s, style, values).parts = s.parts
<1> DEFINE t == Place(s, style, values)
<1>1. s \in TextsFrom(style, n) /\ Leaving(s) = rows /\ (s.parts = <<>> \/ (Len(s.parts) = 1 /\ s.parts[1] \in Text))
  BY DEF Wheres
<1>2. t \in TextsFrom(style, n) /\ t.parts = s.parts
  BY <1>1, TextPlaced
<1> HIDE DEF t
<1>3. Leaving(t) = rows
  BY <1>1, <1>2 DEF Leaving
<1> QED
  BY <1>1, <1>2, <1>3 DEF Wheres, t

\* A statement that is not refused keeps its WHERE.
LEMMA RefusedWheres ==
  ASSUME NEW style \in {"$", "?"}, NEW n \in Nat, NEW rows, NEW s \in Wheres(style, n, rows), NEW refused, ~refused
  PROVE  Refused(s, refused) \in Wheres(style, n, rows) /\ Refused(s, refused).parts = s.parts
<1> DEFINE t == Refused(s, refused)
<1>1. s \in TextsFrom(style, n) /\ Leaving(s) = rows /\ (s.parts = <<>> \/ (Len(s.parts) = 1 /\ s.parts[1] \in Text))
  BY DEF Wheres
<1>2. t \in TextsFrom(style, n) /\ t.parts = s.parts
  BY <1>1, RefusedText
<1> HIDE DEF t
<1>3. Leaving(t) = rows
  BY <1>1, <1>2 DEF Leaving
<1> QED
  BY <1>1, <1>2, <1>3 DEF Wheres, t

\* What comes behind a WHERE for pages.
LEMMA PageWheres ==
  ASSUME NEW dialect, NEW n \in Nat, NEW rows, NEW s \in Wheres(placeholder(dialect), n, rows), NEW q,
         ~(q.skip /\ ~q.take /\ dialect # "postgresql")
  PROVE  Page(s, q, dialect) \in Wheres(placeholder(dialect), n, rows)
<1> DEFINE style == placeholder(dialect)
           tail == PageOf(q)
           limit == IF tail \in {"limit", "both"} THEN <<Value("limit")>> ELSE <<>>
           offset == IF tail \in {"offset", "both"} THEN <<Value("offset")>> ELSE <<>>
           limited == Place(s, style, limit)
           paged == Place(limited, style, offset)
           refused == q.skip /\ ~q.take /\ dialect # "postgresql"
<1>1. Page(s, q, dialect) = Refused(paged, refused)
  BY DEF Page, LimitOffset
<1>2. limit \in Seq(Vals) /\ offset \in Seq(Vals)
  <2>1. "limit" \in Names /\ "offset" \in Names
    BY DEF Names
  <2> QED
    BY <2>1, ValuesOf
<1>3. style \in {"$", "?"} /\ ~refused
  BY StyleOf
<1> HIDE DEF limit, offset, tail, style, refused
<1>4. limited \in Wheres(style, n, rows)
  BY <1>2, <1>3, PlaceWheres DEF style
<1> HIDE DEF limited
<1>5. paged \in Wheres(style, n, rows)
  BY <1>2, <1>3, <1>4, PlaceWheres
<1> HIDE DEF paged
<1>6. Refused(paged, refused) \in Wheres(style, n, rows)
  BY <1>3, <1>5, RefusedWheres
<1> QED
  BY <1>1, <1>6 DEF style

\* The WHERE of a query.
LEMMA QueryWheres ==
  ASSUME NEW dialect, NEW q, InTurn(q.filters, dialect), NEW n \in Nat,
         NEW s \in TextsFrom(placeholder(dialect), n), s.parts = <<>>
  PROVE  LET t == buildWhereClause(s, q.filters, dialect)
         IN  t \in Wheres(placeholder(dialect), n, Means(q)) /\ (OneSide(FilterOf(q)) => Single(t))
<1> DEFINE style == placeholder(dialect)
           t == buildWhereClause(s, q.filters, dialect)
<1>1. PICK piece \in TextOf(FilterOf(q), style, s.next, Means(q)) : t = AddText(s, piece)
  BY WhereText
<1>2. style \in {"$", "?"} /\ piece \in TextsFrom(style, s.next) /\ s \in TextsFrom(style, n)
  BY StyleOf DEF TextOf
<1> HIDE DEF t, style
<1>3. t \in TextsFrom(style, n) /\ t.parts = s.parts \o piece.parts
  BY <1>1, <1>2, AddedText
<1>4. t.parts = piece.parts
  <2> DEFINE T == Seq(Seq(SUBSET Rows))
  <2>1. piece.parts \in Seq(T)
    BY <1>2 DEF TextsFrom, Texts
  <2> HIDE DEF T
  <2>2. <<>> \o piece.parts = piece.parts
    BY <2>1
  <2> QED
    BY <1>3, <2>2
<1>5. CASE IsEmpty(FilterOf(q))
  <2>1. t.parts = <<>> /\ Means(q) = Rows
    BY <1>1, <1>4, <1>5 DEF TextOf
  <2> QED
    BY <1>3, <2>1, WithoutWhere DEF t, style
<1>6. CASE ~IsEmpty(FilterOf(q))
  <2>1. /\ Len(t.parts) = 1 /\ t.parts[1] \in Text /\ RowsLeft(t.parts[1]) = Means(q)
        /\ OneSide(FilterOf(q)) => Len(t.parts[1]) = 1
    BY <1>1, <1>4, <1>6 DEF TextOf
  <2>2. t.parts # <<>>
    <3>1. Len(<<>>) = 0
      OBVIOUS
    <3> QED
      BY <2>1, <3>1
  <2> QED
    BY <1>3, <2>1, <2>2 DEF Wheres, Single, Leaving, t, style
<1> QED
  BY <1>5, <1>6

\* Whatever the operator, texts that are joined are a text.
LEMMA JoinIsText ==
  ASSUME NEW t \in Text, NEW u \in Text, NEW op
  PROVE  Join(t, u, op) \in Text
<1>1. CASE op = "OR"
  <2>1. Join(t, u, op) = t \o u
    BY <1>1 DEF Join
  <2> QED
    BY <2>1, EitherText
<1>2. CASE op # "OR"
  <2> DEFINE Sides == Seq(SUBSET Rows)
             side == Last(t) \o Head(u)
             both == Front(t) \o <<side>> \o Tail(u)
  <2>1. t \in Seq(Sides) /\ u \in Seq(Sides) /\ t # <<>> /\ u # <<>>
    BY DEF Text
  <2>2. Front(t) \in Seq(Sides) /\ Last(t) \in Sides /\ Head(u) \in Sides /\ Tail(u) \in Seq(Sides)
    <3> HIDE DEF Sides
    <3>1. Len(t) \in Nat /\ Len(t) # 0
      BY <2>1, EmptySeq
    <3>2. Front(t) \in Seq(Sides) /\ Last(t) \in Sides
      BY <2>1, <3>1 DEF Front, Last
    <3> QED
      BY <2>1, <3>2
  <2>3. side \in Sides
    <3> DEFINE T == SUBSET Rows
    <3>1. Last(t) \in Seq(T) /\ Head(u) \in Seq(T)
      BY <2>2
    <3> HIDE DEF T
    <3>2. side \in Seq(T)
      BY <3>1
    <3> QED
      BY <3>2 DEF T
  <2> HIDE DEF side, Sides
  <2>4. both \in Seq(Sides) /\ both # <<>>
    <3> DEFINE a == Front(t)
               b == Tail(u)
    <3>1. a \in Seq(Sides) /\ b \in Seq(Sides)
      BY <2>2
    <3> HIDE DEF a, b
    <3>2. /\ a \o <<side>> \in Seq(Sides) /\ Len(a \o <<side>>) = Len(a) + 1 /\ Len(a) \in Nat
          /\ a \o <<side>> \o b \in Seq(Sides) /\ Len(a \o <<side>> \o b) = (Len(a) + 1) + Len(b) /\ Len(b) \in Nat
      BY <2>3, <3>1
    <3>3. Len(a \o <<side>> \o b) # 0
      BY <3>2
    <3>4. Len(<<>>) = 0
      OBVIOUS
    <3>5. a \o <<side>> \o b # <<>>
      BY <3>3, <3>4
    <3> QED
      BY <3>2, <3>5 DEF a, b
  <2>5. Join(t, u, op) = both
    BY <1>2 DEF Join, Both, side
  <2> HIDE DEF both
  <2> QED
    BY <2>4, <2>5 DEF Text, Sides
<1> QED
  BY <1>1, <1>2

\* Texts joined are a text.
LEMMA TextsJoinedAreText ==
  ASSUME NEW op, NEW texts \in Seq(Text), texts # <<>>
  PROVE  JoinTexts(texts, op) \in Text
<1> DEFINE S == Text
           list == Tail(texts)
           n == Len(list)
           base == Head(texts)
           step == [x \in S \X (1..n) |-> Join(x[1], list[x[2]], op)]
           IsFold(h) == h = [c \in SUBSET (1..n) |->
                              IF c = {} THEN base ELSE Join(h[c \ {Max(c)}], list[Max(c)], op)]
           f == CHOOSE h : IsFold(h)
           P == [k \in 0..n |-> S]
<1> HIDE DEF S
<1>t. texts \in Seq(S)
  BY DEF S
<1>0. list \in Seq(S) /\ n \in Nat /\ DOMAIN list = 1..n /\ base \in S /\ \A k \in 1..n : list[k] \in S
  <2>1. Len(texts) # 0 /\ Len(texts) \in Nat
    BY <1>t, EmptySeq
  <2> QED
    BY <1>t, <2>1
<1> HIDE DEF n, list, base
<1>1. \A t \in S, u \in S : Join(t, u, op) \in S
  BY JoinIsText DEF S
<1>2. step \in Steps(S, n)
  BY <1>0, <1>1 DEF Steps
<1>3. \A t \in S, k \in 1..n : step[<<t, k>>] = Join(t, list[k], op)
  OBVIOUS
<1> HIDE DEF step
<1>m. \A c \in SUBSET (1..n) : c # {} => Max(c) \in 1..n /\ c \ {Max(c)} \in SUBSET (1..n)
  BY <1>0, Greatest
<1>4. \E h : IsFold(h)
  <2> PICK h : FoldOf(h, S, n, base, step)
    BY <1>0, <1>2, FoldExists
  <2>1. /\ h \in [SUBSET (1..n) -> S]
        /\ h = [c \in SUBSET (1..n) |-> IF c = {} THEN base ELSE step[<<h[c \ {Max(c)}], Max(c)>>]]
    BY DEF FoldOf
  <2> DEFINE other == [c \in SUBSET (1..n) |->
                        IF c = {} THEN base ELSE Join(h[c \ {Max(c)}], list[Max(c)], op)]
  <2>2. ASSUME NEW c \in SUBSET (1..n) PROVE h[c] = other[c]
    BY <1>3, <1>m, <2>1
  <2>3. h = other
    BY <2>1, <2>2
  <2>4. IsFold(h)
    BY <2>3
  <2> HIDE DEF IsFold
  <2> QED
    BY <2>4
<1>5. IsFold(f)
  BY <1>4
<1>6. JoinTexts(texts, op) = f[1..n]
  BY <1>0 DEF JoinTexts, Join, FoldLeft, MapThenFoldSet, list, base
<1> HIDE DEF f
<1>7. Follows(f, S, n, base, step)
  BY <1>3, <1>5, <1>m DEF Follows
<1> HIDE DEF IsFold
<1>8. base \in P[0]
  BY <1>0
<1>9. ASSUME NEW k \in 0..n, NEW t \in S, k < n, t \in P[k] PROVE step[<<t, k + 1>>] \in P[k + 1]
  <2>1. k + 1 \in 1..n /\ k + 1 \in 0..n
    BY <1>0, <1>9
  <2>2. Join(t, list[k + 1], op) \in S
    BY <1>0, <1>1, <2>1
  <2> QED
    BY <1>3, <2>1, <2>2
<1> HIDE DEF P
<1>10. f[1..n] \in S
  <2>1. Leads(step, P, S, n)
    BY <1>9 DEF Leads
  <2> QED
    BY <1>0, <1>2, <1>7, <1>8, <2>1, FoldReaches
<1> QED
  BY <1>6, <1>10 DEF S

\* The condition the compiler adds is a single predicate.
LEMMA ExtraIsPart ==
  /\ ExtraRows \in SUBSET Rows /\ Part(ExtraRows) \in Singles /\ RowsLeft(Part(ExtraRows)) = ExtraRows
  /\ <<<<Extra, "value">>>> \in Seq(Vals)
<1>1. ExtraRows \in SUBSET Rows
  BY DEF ExtraRows
<1>2. <<Extra, "value">> \in Vals
  BY ConditionsAssumption DEF Extra, Vals, Names
<1> QED
  BY <1>1, <1>2, PartText DEF Singles

\* One more part behind those of a text.
LEMMA PartAnd ==
  ASSUME NEW texts \in Seq(Text), Len(texts) \in {1, 2}, NEW rows,
         \A r : r \in rows <=> \A j \in 1..Len(texts) : r \in RowsLeft(texts[j])
  PROVE  /\ JoinTexts(texts, "AND") \in Text
         /\ (\A j \in 1..Len(texts) : Len(texts[j]) = 1) => RowsLeft(JoinTexts(texts, "AND")) = rows
<1>1. texts # <<>>
  <2>1. Len(<<>>) = 0
    OBVIOUS
  <2> QED
    BY <2>1
<1>2. JoinTexts(texts, "AND") \in Text
  BY <1>1, TextsJoinedAreText
<1>3. ASSUME \A j \in 1..Len(texts) : Len(texts[j]) = 1 PROVE RowsLeft(JoinTexts(texts, "AND")) = rows
  <2>1. texts \in Seq(Joint("AND"))
    <3>1. texts \in [1..Len(texts) -> Text] /\ Len(texts) \in Nat
      OBVIOUS
    <3>2. \A j \in 1..Len(texts) : texts[j] \in Joint("AND")
      BY <1>3, <3>1 DEF Joint
    <3>3. texts \in [1..Len(texts) -> Joint("AND")]
      BY <3>1, <3>2
    <3> QED
      BY <3>1, <3>3, IsASeq
  <2>2. \A r : r \in RowsLeft(JoinTexts(texts, "AND")) <=> \A j \in 1..Len(texts) : r \in RowsLeft(texts[j])
    BY <1>1, <2>1, TextsJoined
  <2> QED
    BY <2>2
<1> QED
  BY <1>2, <1>3

\* A sequence of two is the pair of its elements.
LEMMA PairOf ==
  ASSUME NEW T, NEW s \in Seq(T), Len(s) = 2
  PROVE  s = <<s[1], s[2]>>
OBVIOUS

\* Adding one to a sequence of one.
LEMMA OneAndOne ==
  ASSUME NEW T, NEW s \in Seq(T), NEW x \in T
  PROVE  Len(s) = 1 => Append(s, x) = <<s[1], x>> /\ <<x>> \o s = <<x, s[1]>>
<1> DEFINE a == Append(s, x)
           b == <<x>> \o s
           one == <<x>>
<1>1. a \in Seq(T) /\ Len(a) = Len(s) + 1 /\ a[Len(s) + 1] = x /\ \A i \in 1..Len(s) : a[i] = s[i]
  BY AppendProperties
<1>s. one \in Seq(T)
  OBVIOUS
<1>2. Len(one) = 1 /\ one[1] = x
  OBVIOUS
<1> HIDE DEF one
<1>3. /\ one \o s \in Seq(T) /\ Len(one \o s) = Len(one) + Len(s)
      /\ \A i \in 1..Len(one) : (one \o s)[i] = one[i]
      /\ \A i \in 1..Len(s) : (one \o s)[Len(one) + i] = s[i]
  BY <1>s, Concatenation
<1> HIDE DEF a
<1> SUFFICES ASSUME Len(s) = 1 PROVE a = <<s[1], x>> /\ one \o s = <<x, s[1]>>
  BY DEF a, one
<1> DEFINE c == one \o s
<1>4. a \in Seq(T) /\ Len(a) = 2 /\ a[1] = s[1] /\ a[2] = x
  BY <1>1
<1>5. c \in Seq(T) /\ Len(c) = 2 /\ c[1] = x /\ c[2] = s[1]
  <2>1. 1 \in 1..Len(one) /\ 1 \in 1..Len(s) /\ Len(one) + 1 = 2
    BY <1>2
  <2> QED
    BY <1>2, <1>3, <2>1
<1> HIDE DEF c
<1>6. a = <<a[1], a[2]>> /\ c = <<c[1], c[2]>>
  BY <1>4, <1>5, PairOf
<1> QED
  BY <1>4, <1>5, <1>6 DEF c

\* A statement whose WHERE is one text leaves the rows of that text.
LEMMA WithText ==
  ASSUME NEW style \in {"$", "?"}, NEW n \in Nat, NEW s \in TextsFrom(style, n), NEW text \in Text
  PROVE  /\ [s EXCEPT !.parts = <<text>>] \in Wheres(style, n, RowsLeft(text))
         /\ [s EXCEPT !.parts = <<text>>].parts = <<text>>
<1> DEFINE single == <<text>>
           t == [s EXCEPT !.parts = single]
<1>1. single \in Seq(Seq(Seq(SUBSET Rows))) /\ Len(single) = 1 /\ single[1] = text /\ single # <<>>
  BY DEF Text
<1> HIDE DEF single
<1>2. s \in Texts
  BY DEF TextsFrom
<1>3. /\ t \in Texts /\ t.marks = s.marks /\ t.args = s.args /\ t.next = s.next /\ t.ok = s.ok
      /\ t.parts = single
  BY <1>1, <1>2 DEF Texts
<1> HIDE DEF t
<1>4. t \in TextsFrom(style, n)
  BY <1>3, PartsChanged
<1>5. Leaving(t) = RowsLeft(text)
  BY <1>1, <1>3 DEF Leaving
<1> QED
  BY <1>1, <1>3, <1>4, <1>5 DEF Wheres, t, single

\* The condition of the cursor.
LEMMA ExtraWheres ==
  ASSUME NEW dialect, NEW n \in Nat, NEW rows, NEW s \in Wheres(placeholder(dialect), n, rows)
  PROVE  \E left : /\ AndExtra(s, dialect) \in Wheres(placeholder(dialect), n, left)
                   /\ Single(s) => left = rows \cap ExtraRows
<1> DEFINE style == placeholder(dialect)
           values == <<<<Extra, "value">>>>
           placed == Place(s, style, values)
           last == Part(ExtraRows)
           texts == Append(placed.parts, last)
           text == JoinTexts(texts, "AND")
<1>1. AndExtra(s, dialect) = [placed EXCEPT !.parts = <<text>>]
  BY DEF AndExtra
<1>2. style \in {"$", "?"} /\ s \in TextsFrom(style, n) /\ Leaving(s) = rows
      /\ (s.parts = <<>> \/ (Len(s.parts) = 1 /\ s.parts[1] \in Text)) /\ s \in Wheres(style, n, rows)
  BY StyleOf DEF Wheres
<1>3. placed \in Wheres(style, n, rows) /\ placed.parts = s.parts
  <2>1. values \in Seq(Vals)
    BY ExtraIsPart
  <2> HIDE DEF values, style
  <2> QED
    BY <1>2, <2>1, PlaceWheres
<1>4. last \in Text /\ Len(last) = 1 /\ RowsLeft(last) = ExtraRows /\ ExtraRows \in SUBSET Rows
  BY ExtraIsPart DEF Singles
<1> HIDE DEF placed, last
<1>5. text \in Text /\ (Single(s) => RowsLeft(text) = rows \cap ExtraRows)
  <2>1. CASE s.parts = <<>>
    <3>1. texts = <<last>>
      BY <1>3, <2>1
    <3>2. rows = Rows
      BY <1>2, <2>1 DEF Leaving
    <3> HIDE DEF texts
    <3>3. texts \in Seq(Text) /\ Len(texts) = 1 /\ texts[1] = last
      BY <1>4, <3>1
    <3>4. \A j : j \in 1..Len(texts) <=> j = 1
      BY <3>3
    <3>5. \A r : r \in rows \cap ExtraRows <=> \A j \in 1..Len(texts) : r \in RowsLeft(texts[j])
      BY <1>4, <3>2, <3>3, <3>4
    <3>6. \A j \in 1..Len(texts) : Len(texts[j]) = 1
      BY <1>4, <3>3, <3>4
    <3> QED
      BY <3>3, <3>5, <3>6, PartAnd
  <2>2. CASE Len(s.parts) = 1 /\ s.parts[1] \in Text
    <3> DEFINE first == s.parts[1]
    <3>1. texts = <<first, last>>
      <4> DEFINE T == Seq(Seq(SUBSET Rows))
                 parts == s.parts
      <4>1. parts \in Seq(T) /\ last \in T /\ Len(parts) = 1
        BY <1>2, <1>4, <2>2 DEF TextsFrom, Texts, Text
      <4> HIDE DEF T, parts
      <4>2. Append(parts, last) = <<parts[1], last>>
        BY <4>1, OneAndOne
      <4> QED
        BY <1>3, <4>2 DEF parts
    <3>2. first \in Text /\ RowsLeft(first) = rows /\ (Single(s) => Len(first) = 1)
      <4>1. s.parts # <<>>
        <5>1. Len(<<>>) = 0
          OBVIOUS
        <5> QED
          BY <2>2, <5>1
      <4> QED
        BY <1>2, <2>2, <4>1 DEF Leaving, Single
    <3> HIDE DEF texts, first
    <3>3. texts \in Seq(Text) /\ Len(texts) = 2 /\ texts[1] = first /\ texts[2] = last
      BY <1>4, <3>1, <3>2
    <3>4. \A j : j \in 1..Len(texts) <=> j = 1 \/ j = 2
      BY <3>3
    <3>5. \A r : r \in rows \cap ExtraRows <=> \A j \in 1..Len(texts) : r \in RowsLeft(texts[j])
      BY <1>4, <3>2, <3>3, <3>4
    <3>6. Single(s) => \A j \in 1..Len(texts) : Len(texts[j]) = 1
      BY <1>4, <3>2, <3>3, <3>4
    <3> QED
      BY <3>3, <3>5, <3>6, PartAnd
  <2> QED
    BY <1>2, <2>1, <2>2
<1> HIDE DEF text, style
<1>6. [placed EXCEPT !.parts = <<text>>] \in Wheres(style, n, RowsLeft(text))
  <2>1. placed \in TextsFrom(style, n)
    BY <1>3 DEF Wheres
  <2> QED
    BY <1>2, <1>5, <2>1, WithText
<1> QED
  BY <1>1, <1>5, <1>6 DEF style

\* The WHERE of a write to a relation: with its own conditions, and with the foreign key first.
OwnConditions(q) == q.filters = <<[NoFilter EXCEPT !.conditions = FilterOf(q).conditions]>>

\* The WHERE of a relation write leaves the children of the parent that were meant.
LEMMA ChildrenWheres ==
  ASSUME NEW dialect, NEW q, InTurn(q.filters, dialect), OwnConditions(q), NEW n \in Nat,
         NEW start \in TextsFrom(placeholder(dialect), n)
  PROVE  OfChildren(start, q, dialect) \in Wheres(placeholder(dialect), n, ExtraRows \cap Means(q))
<1> DEFINE style == placeholder(dialect)
           values == <<<<Extra, "value">>>>
           placed == Place(start, style, values)
           first == Part(ExtraRows)
           key == [placed EXCEPT !.parts = <<first>>]
           all == OfConditions(key, q, dialect)
           text == JoinTexts(all.parts, "AND")
<1>1. OfChildren(start, q, dialect) = [all EXCEPT !.parts = <<text>>]
  BY DEF OfChildren
<1>2. style \in {"$", "?"} /\ start \in TextsFrom(style, n)
  BY StyleOf
<1>3. placed \in TextsFrom(style, n)
  <2>1. values \in Seq(Vals)
    BY ExtraIsPart
  <2> HIDE DEF values, style
  <2> QED
    BY <1>2, <2>1, TextPlaced
<1>4. first \in Text /\ Len(first) = 1 /\ RowsLeft(first) = ExtraRows
  BY ExtraIsPart DEF Singles
<1> HIDE DEF placed, first
<1>5. key \in TextsFrom(style, n) /\ key.parts = <<first>>
  <2> HIDE DEF style
  <2>1. key \in Wheres(style, n, RowsLeft(first)) /\ key.parts = <<first>>
    BY <1>2, <1>3, <1>4, WithText
  <2> HIDE DEF key
  <2> QED
    BY <2>1 DEF Wheres
<1> HIDE DEF key
<1>6. all = buildWhereClause(key, q.filters, dialect)
  BY DEF OfConditions, OwnConditions
<1>7. PICK piece \in TextOf(FilterOf(q), style, key.next, Means(q)) : all = AddText(key, piece)
  BY <1>5, <1>6, WhereText
<1>8. piece \in TextsFrom(style, key.next)
  BY DEF TextOf
<1> HIDE DEF all, style
<1>9. all \in TextsFrom(style, n) /\ all.parts = <<first>> \o piece.parts
  BY <1>2, <1>5, <1>7, <1>8, AddedText
<1>10. OneSide(FilterOf(q))
  <2> DEFINE c == FilterOf(q).conditions
             f == [NoFilter EXCEPT !.conditions = c]
  <2>1. f.operator = "AND"
    BY DEF NoFilter
  <2> HIDE DEF f
  <2>2. FilterOf(q) = f
    BY DEF OwnConditions, FilterOf, Last, f
  <2> QED
    BY <2>1, <2>2 DEF OneSide
<1>11. text \in Text /\ RowsLeft(text) = ExtraRows \cap Means(q)
  <2>1. CASE IsEmpty(FilterOf(q))
    <3>1. piece.parts = <<>> /\ Means(q) = Rows
      BY <1>7, <2>1 DEF TextOf
    <3>2. all.parts = <<first>>
      BY <1>9, <3>1
    <3> DEFINE texts == all.parts
    <3> HIDE DEF texts
    <3>3. texts \in Seq(Text) /\ Len(texts) = 1 /\ texts[1] = first
      BY <1>4, <3>2 DEF texts
    <3>4. \A j : j \in 1..Len(texts) <=> j = 1
      BY <3>3
    <3>5. \A r : r \in ExtraRows \cap Means(q) <=> \A j \in 1..Len(texts) : r \in RowsLeft(texts[j])
      BY <1>4, <3>1, <3>3, <3>4, ExtraIsPart
    <3>6. \A j \in 1..Len(texts) : Len(texts[j]) = 1
      BY <1>4, <3>3, <3>4
    <3> QED
      BY <3>3, <3>5, <3>6, PartAnd DEF texts
  <2>2. CASE ~IsEmpty(FilterOf(q))
    <3> DEFINE second == piece.parts[1]
               parts == piece.parts
    <3>1. Len(parts) = 1 /\ second \in Text /\ RowsLeft(second) = Means(q) /\ Len(second) = 1
      BY <1>7, <1>10, <2>2 DEF TextOf
    <3>2. all.parts = <<first, second>>
      <4> DEFINE T == Seq(Seq(SUBSET Rows))
      <4>1. parts \in Seq(T) /\ first \in T
        BY <1>4, <1>8 DEF TextsFrom, Texts, Text
      <4>2. <<first>> \o parts = <<first, parts[1]>>
        <5>1. Len(parts) = 1
          BY <3>1
        <5> HIDE DEF T, parts
        <5> QED
          BY <4>1, <5>1, OneAndOne
      <4> QED
        BY <1>9, <4>2
    <3> DEFINE texts == all.parts
    <3> HIDE DEF texts, second, parts
    <3>3. texts \in Seq(Text) /\ Len(texts) = 2 /\ texts[1] = first /\ texts[2] = second
      BY <1>4, <3>1, <3>2 DEF texts
    <3>4. \A j : j \in 1..Len(texts) <=> j = 1 \/ j = 2
      BY <3>3
    <3>5. \A r : r \in ExtraRows \cap Means(q) <=> \A j \in 1..Len(texts) : r \in RowsLeft(texts[j])
      BY <1>4, <3>1, <3>3, <3>4
    <3>6. \A j \in 1..Len(texts) : Len(texts[j]) = 1
      BY <1>4, <3>1, <3>3, <3>4
    <3> QED
      BY <3>3, <3>5, <3>6, PartAnd DEF texts
  <2> QED
    BY <2>1, <2>2
<1> HIDE DEF text
<1>12. [all EXCEPT !.parts = <<text>>] \in Wheres(style, n, RowsLeft(text))
  BY <1>2, <1>9, <1>11, WithText
<1> QED
  BY <1>1, <1>11, <1>12 DEF style

\* The filters of a query, with n conditions.
Shaped(filters, n) ==
  /\ filters \in Seq([conditions : Seq(1..n), nested : Seq(Nat), operator : Operators3]) /\ Len(filters) # 0
  /\ \A k \in 1..Len(filters) : filters[k].nested \in Seq(1..(k - 1))
  /\ \A k \in 1..Len(filters) : k < Len(filters) => Len(filters[k].conditions) # 0

\* In a built query the filters have only nested ones before them.
LEMMA ShapedInTurn ==
  ASSUME ops \in Operators, NEW q, Shaped(q.filters, Len(ops)), NEW dialect,
         \A i \in ConditionsOf(q) : ~NotItsSQL(ops[i], dialect)
  PROVE  InTurn(q.filters, dialect)
<1> DEFINE filters == q.filters
           F == [conditions : Seq(1..Len(ops)), nested : Seq(Nat), operator : Operators3]
<1>1. ops \in Seq(Comparisons) /\ Len(ops) \in Nat /\ Len(ops) <= MaxConditions
  BY OperatorsAssumption
<1>2. /\ filters \in Seq(F) /\ Len(filters) \in Nat \ {0} /\ DOMAIN filters = 1..Len(filters)
      /\ \A k \in 1..Len(filters) : filters[k] \in F
  <2>1. filters \in Seq(F) /\ Len(filters) # 0
    BY DEF Shaped
  <2> HIDE DEF F, filters
  <2> QED
    BY <2>1
<1>3. ASSUME NEW k \in 1..Len(filters) PROVE filters[k] \in Filters(1..(k - 1), dialect)
  <2> DEFINE f == filters[k]
             c == f.conditions
  <2>1. f \in F /\ f.nested \in Seq(1..(k - 1))
    BY <1>2 DEF Shaped
  <2>2. c \in Seq(1..Len(ops)) /\ Len(c) \in Nat /\ DOMAIN c = 1..Len(c)
    BY <2>1
  <2>3. ASSUME NEW j \in 1..Len(c) PROVE c[j] \in 1..MaxConditions /\ Compares(c[j], dialect)
    <3>1. c[j] \in 1..Len(ops)
      BY <2>2
    <3>2. c[j] \in 1..MaxConditions
      BY <1>1, <3>1, ConditionsAssumption
    <3>3. ops[c[j]] \in Comparisons
      BY <1>1, <3>1
    <3>4. c[j] \in ConditionsOf(q)
      <4>1. f \in Range(filters) /\ c[j] \in Range(c)
        BY <1>2, <2>2 DEF Range
      <4> HIDE DEF f
      <4> QED
        BY <4>1 DEF ConditionsOf
    <3>5. ~NotItsSQL(ops[c[j]], dialect)
      BY <3>4
    <3> QED
      BY <3>2, <3>3, <3>5 DEF Compares
  <2>4. c \in Seq(1..MaxConditions)
    <3> HIDE DEF c
    <3> DEFINE S == 1..MaxConditions
    <3>1. c \in [1..Len(c) -> S]
      BY <2>2, <2>3
    <3>2. Len(c) \in Nat
      BY <2>2
    <3> HIDE DEF S
    <3>3. c \in Seq(S)
      BY <3>1, <3>2, IsASeq
    <3> QED
      BY <3>3 DEF S
  <2>5. f = [conditions |-> c, nested |-> f.nested, operator |-> f.operator] /\ f.operator \in Operators3
    BY <2>1
  <2> HIDE DEF f
  <2>6. f \in [conditions : Seq(1..MaxConditions), nested : Seq(1..(k - 1)), operator : Operators3]
    BY <2>1, <2>4, <2>5
  <2> QED
    BY <2>3, <2>6 DEF Filters, f
<1>4. \A k \in 1..Len(filters) : k < Len(filters) => ~IsEmpty(filters[k])
  BY DEF Shaped, IsEmpty
<1> HIDE DEF filters
<1> QED
  BY <1>2, <1>3, <1>4 DEF InTurn, filters

\* What a query means depends on its filters alone.
LEMMA MeansOfFilters ==
  ASSUME NEW p, NEW q, p.filters = q.filters
  PROVE  Means(p) = Means(q) /\ FilterOf(p) = FilterOf(q)
<1> DEFINE F(filters) == Last((CHOOSE b : MeaningsInTurn(b, filters, Len(filters)))[Len(filters)])
<1>1. Means(p) = F(p.filters) /\ Means(q) = F(q.filters)
  BY DEF Means, MeaningsInTurn, OneMoreMeaning
<1> HIDE DEF F
<1> QED
  BY <1>1 DEF FilterOf

\* The WHERE of the conditions leaves what the filter means, unless it holds only nested ones.
LEMMA ConditionsWheres ==
  ASSUME NEW dialect, NEW q, InTurn(q.filters, dialect)
  PROVE  \E left : /\ WhereOfConditions(q, dialect) \in Wheres(placeholder(dialect), 1, left)
                   /\ FilterOf(q).conditions # <<>> \/ FilterOf(q).nested = <<>> => left = Means(q)
<1> DEFINE style == placeholder(dialect)
<1>1. style \in {"$", "?"} /\ Fresh \in Wheres(style, 1, Rows) /\ Fresh \in TextsFrom(style, 1) /\ Fresh.parts = <<>>
  BY StyleOf, FreshWheres DEF Wheres
<1>2. CASE FilterOf(q).conditions = <<>>
  <2>1. WhereOfConditions(q, dialect) = Fresh
    BY <1>2 DEF WhereOfConditions
  <2>2. ASSUME FilterOf(q).nested = <<>> PROVE Means(q) = Rows
    <3>1. IsEmpty(FilterOf(q))
      <4>1. Len(<<>>) = 0
        OBVIOUS
      <4> QED
        BY <1>2, <2>2, <4>1 DEF IsEmpty
    <3>2. PICK piece : piece \in TextOf(FilterOf(q), style, Fresh.next, Means(q))
      <4> HIDE DEF style
      <4>1. \E piece \in TextOf(FilterOf(q), placeholder(dialect), Fresh.next, Means(q)) :
              buildWhereClause(Fresh, q.filters, dialect) = AddText(Fresh, piece)
        BY <1>1, WhereText, 1 \in Nat DEF style
      <4> QED
        BY <4>1 DEF style
    <3> QED
      BY <3>1, <3>2 DEF TextOf
  <2> QED
    BY <1>1, <1>2, <2>1, <2>2
<1>3. CASE FilterOf(q).conditions # <<>>
  <2>1. WhereOfConditions(q, dialect) = buildWhereClause(Fresh, q.filters, dialect)
    BY <1>3 DEF WhereOfConditions
  <2>2. buildWhereClause(Fresh, q.filters, dialect) \in Wheres(style, 1, Means(q))
    BY <1>1, QueryWheres, 1 \in Nat
  <2> QED
    BY <2>1, <2>2
<1> QED
  BY <1>2, <1>3

-----------------------------------------------------------------------------
(* The compiler: queries and mutations.                                    *)

\* The rows a WHERE leaves are rows of the table.
LEMMA WhereRows ==
  ASSUME NEW style, NEW n, NEW rows, NEW s \in Wheres(style, n, rows)
  PROVE  rows \in SUBSET Rows /\ Leaving(s) = rows /\ s \in TextsFrom(style, n)
<1>1. Leaving(s) = rows /\ s \in TextsFrom(style, n)
  BY DEF Wheres
<1>2. Leaving(s) = Rows \/ Leaving(s) = RowsLeft(s.parts[1])
  BY DEF Leaving
<1> QED
  BY <1>1, <1>2, TextRows

\* A SELECT leaves the rows meant, after its cursor.
LEMMA SelectRight ==
  ASSUME NEW dialect, NEW p, NEW q, p.filters = q.filters, p.cursor = q.cursor, p.distinct = q.distinct,
         p.orderBy = q.orderBy, InTurn(q.filters, dialect), ~(p.skip /\ ~p.take /\ dialect # "postgresql"),
         ~(q.distinct /\ (dialect # "postgresql" \/ q.orderBy))
  PROVE  \E left : /\ compileSelect(p, dialect) \in Wheres(placeholder(dialect), 1, left)
                   /\ ~q.cursor \/ OneSide(FilterOf(q)) =>
                        left = Means(q) \cap (IF q.cursor THEN ExtraRows ELSE Rows)
<1> DEFINE style == placeholder(dialect)
           where == buildWhereClause(Fresh, p.filters, dialect)
           extra == IF p.cursor THEN AndExtra(where, dialect) ELSE where
           paged == Page(extra, p, dialect)
           refused == p.distinct /\ (dialect # "postgresql" \/ p.orderBy)
<1>1. compileSelect(p, dialect) = Refused(paged, refused)
  BY DEF compileSelect
<1>2. style \in {"$", "?"} /\ Fresh \in TextsFrom(style, 1) /\ Fresh.parts = <<>> /\ ~refused
  BY StyleOf, FreshWheres DEF Wheres
<1>3. where \in Wheres(style, 1, Means(q)) /\ (OneSide(FilterOf(q)) => Single(where))
  <2>1. where = buildWhereClause(Fresh, q.filters, dialect)
    OBVIOUS
  <2> HIDE DEF where
  <2> QED
    BY <1>2, <2>1, QueryWheres, 1 \in Nat
<1> HIDE DEF where, refused
<1>4. PICK left : /\ extra \in Wheres(style, 1, left)
                  /\ ~q.cursor \/ OneSide(FilterOf(q)) =>
                       left = Means(q) \cap (IF q.cursor THEN ExtraRows ELSE Rows)
  <2>1. CASE q.cursor
    <3>1. PICK left : AndExtra(where, dialect) \in Wheres(style, 1, left) /\ (Single(where) => left = Means(q) \cap ExtraRows)
      BY <1>3, ExtraWheres, 1 \in Nat
    <3>2. extra = AndExtra(where, dialect)
      BY <2>1
    <3> QED
      BY <1>3, <2>1, <3>1, <3>2
  <2>2. CASE ~q.cursor
    <3>1. extra = where
      BY <2>2
    <3>2. Means(q) \in SUBSET Rows
      BY <1>3, WhereRows
    <3> QED
      BY <1>3, <2>2, <3>1, <3>2
  <2> QED
    BY <2>1, <2>2
<1> HIDE DEF extra
<1>5. paged \in Wheres(style, 1, left)
  BY <1>4, PageWheres, 1 \in Nat
<1> HIDE DEF paged
<1>6. Refused(paged, refused) \in Wheres(style, 1, left)
  BY <1>2, <1>5, RefusedWheres, 1 \in Nat
<1> QED
  BY <1>1, <1>4, <1>6

\* So does an aggregate.
LEMMA AggregatesRight ==
  ASSUME NEW dialect, NEW p, NEW q, p.filters = q.filters, InTurn(q.filters, dialect), NEW data, data # "all"
  PROVE  \E left : /\ compileAggregate(p, data, dialect) \in Wheres(placeholder(dialect), 1, left)
                   /\ FilterOf(q).conditions # <<>> \/ FilterOf(q).nested = <<>> => left = Means(q)
<1> DEFINE where == WhereOfConditions(p, dialect)
           refused == data = "all"
<1>1. compileAggregate(p, data, dialect) = Refused(where, refused)
  BY DEF compileAggregate
<1>2. placeholder(dialect) \in {"$", "?"} /\ ~refused
  BY StyleOf
<1>3. \E left : /\ WhereOfConditions(p, dialect) \in Wheres(placeholder(dialect), 1, left)
                /\ FilterOf(q).conditions # <<>> \/ FilterOf(q).nested = <<>> => left = Means(q)
  <2>1. Means(p) = Means(q) /\ FilterOf(p) = FilterOf(q) /\ InTurn(p.filters, dialect)
    BY MeansOfFilters
  <2>2. \E left : /\ WhereOfConditions(p, dialect) \in Wheres(placeholder(dialect), 1, left)
                  /\ FilterOf(p).conditions # <<>> \/ FilterOf(p).nested = <<>> => left = Means(p)
    BY <2>1, ConditionsWheres
  <2> QED
    BY <2>1, <2>2
<1> HIDE DEF where, refused
<1>4. PICK left : /\ where \in Wheres(placeholder(dialect), 1, left)
                  /\ FilterOf(q).conditions # <<>> \/ FilterOf(q).nested = <<>> => left = Means(q)
  BY <1>3 DEF where
<1>5. Refused(where, refused) \in Wheres(placeholder(dialect), 1, left)
  BY <1>2, <1>4, RefusedWheres, 1 \in Nat
<1> QED
  BY <1>1, <1>4, <1>5

\* So does a GROUP BY.
LEMMA GroupsRight ==
  ASSUME NEW dialect, NEW p, NEW q, p.filters = q.filters, InTurn(q.filters, dialect), NEW data, data # "all",
         ~(p.orderBy /\ dialect # "sqlite"), ~(p.skip /\ ~p.take /\ dialect # "postgresql")
  PROVE  \E left : /\ compileGroupBy(p, data, dialect) \in Wheres(placeholder(dialect), 1, left)
                   /\ FilterOf(q).conditions # <<>> \/ FilterOf(q).nested = <<>> => left = Means(q)
<1> DEFINE style == placeholder(dialect)
           where == WhereOfConditions(p, dialect)
           having == IF p.having THEN <<Value("having")>> ELSE <<>>
           placed == Place(where, style, having)
           paged == Page(placed, p, dialect)
           refused == data = "all" \/ (p.orderBy /\ dialect # "sqlite")
<1>1. compileGroupBy(p, data, dialect) = Refused(paged, refused)
  BY DEF compileGroupBy
<1>2. style \in {"$", "?"} /\ having \in Seq(Vals) /\ ~refused
  <2>1. "having" \in Names
    BY DEF Names
  <2> QED
    BY <2>1, StyleOf, ValuesOf
<1>3. PICK left : /\ where \in Wheres(style, 1, left)
                  /\ FilterOf(q).conditions # <<>> \/ FilterOf(q).nested = <<>> => left = Means(q)
  <2>1. Means(p) = Means(q) /\ FilterOf(p) = FilterOf(q) /\ InTurn(p.filters, dialect)
    BY MeansOfFilters
  <2> HIDE DEF where
  <2>2. \E left : /\ where \in Wheres(placeholder(dialect), 1, left)
                  /\ FilterOf(p).conditions # <<>> \/ FilterOf(p).nested = <<>> => left = Means(p)
    BY <2>1, ConditionsWheres DEF where
  <2> QED
    BY <2>1, <2>2
<1> HIDE DEF where, having, refused
<1>4. placed \in Wheres(style, 1, left)
  <2> HIDE DEF style
  <2> QED
    BY <1>2, <1>3, PlaceWheres, 1 \in Nat
<1> HIDE DEF placed
<1>5. paged \in Wheres(style, 1, left)
  BY <1>4, PageWheres, 1 \in Nat
<1> HIDE DEF paged
<1>6. Refused(paged, refused) \in Wheres(style, 1, left)
  <2> HIDE DEF style
  <2> QED
    BY <1>2, <1>3, <1>5, RefusedWheres, 1 \in Nat
<1> QED
  BY <1>1, <1>3, <1>6

\* Statements of which no row is asked.
LEMMA CreatesRight ==
  ASSUME NEW dialect, NEW data
  PROVE  /\ CompileCreate(data, dialect) # Failed => CompileCreate(data, dialect) \in TextsFrom(placeholder(dialect), 1)
         /\ CompileCreateMany(data, dialect) # Failed => CompileCreateMany(data, dialect) \in TextsFrom(placeholder(dialect), 1)
         /\ data # "none" => CompileUpsert(data, dialect) \in TextsFrom(placeholder(dialect), 1)
<1> DEFINE style == placeholder(dialect)
           S == TextsFrom(style, 1)
           more == <<Value("column3"), Value("column4")>>
           update == <<Value("update")>>
           set == Place(Fresh, style, Set)
           many == Place(set, style, more)
           upsert == Place(set, style, update)
           refused == data = "none"
<1>1. style \in {"$", "?"} /\ Fresh \in S
  BY StyleOf, FreshWheres DEF Wheres
<1>2. Set \in Seq(Vals) /\ more \in Seq(Vals) /\ update \in Seq(Vals)
  <2>1. "column3" \in Names /\ "column4" \in Names /\ "update" \in Names
    BY DEF Names
  <2> QED
    BY <2>1, TheValues, ValuesOf
<1>3. /\ CompileCreate(data, dialect) = IF data = "none" THEN Failed ELSE set
      /\ CompileCreateMany(data, dialect) = IF data \in {"none", "ragged"} THEN Failed ELSE many
      /\ data # "none" => CompileUpsert(data, dialect) = Refused(upsert, refused)
  BY DEF CompileCreate, CompileCreateMany, CompileUpsert
<1> HIDE DEF style, more, update
<1>4. set \in S
  BY <1>1, <1>2, TextPlaced, 1 \in Nat
<1> HIDE DEF set
<1>5. many \in S /\ upsert \in S
  BY <1>1, <1>2, <1>4, TextPlaced, 1 \in Nat
<1> HIDE DEF many, upsert
<1>6. ~refused => Refused(upsert, refused) \in S
  BY <1>1, <1>5, RefusedText, 1 \in Nat
<1> QED
  BY <1>3, <1>4, <1>5, <1>6 DEF style

\* Updates and deletes by a filter.
LEMMA ChangesRight ==
  ASSUME NEW dialect, NEW p, NEW q, p.filters = q.filters, InTurn(q.filters, dialect), NEW data
  PROVE  /\ CompileUpdate(p, data, dialect) # Failed =>
              CompileUpdate(p, data, dialect) \in Wheres(placeholder(dialect), 1, Means(q))
         /\ CompileDelete(p, dialect) # Failed => CompileDelete(p, dialect) \in Wheres(placeholder(dialect), 1, Means(q))
<1> DEFINE style == placeholder(dialect)
           set == Place(Fresh, style, Set)
<1>1. style \in {"$", "?"} /\ Fresh \in TextsFrom(style, 1) /\ Fresh.parts = <<>>
  BY StyleOf, FreshWheres DEF Wheres
<1>2. set \in TextsFrom(style, 1) /\ set.parts = <<>>
  <2> HIDE DEF style
  <2>1. Set \in Seq(Vals)
    BY TheValues
  <2>2. set \in TextsFrom(style, 1) /\ set.parts = Fresh.parts
    BY <1>1, <2>1, TextPlaced, 1 \in Nat
  <2> QED
    BY <1>1, <2>2
<1>3. /\ CompileUpdate(p, data, dialect) \in {Failed, buildWhereClause(set, q.filters, dialect)}
      /\ CompileDelete(p, dialect) \in {Failed, buildWhereClause(Fresh, q.filters, dialect)}
  BY DEF CompileUpdate, CompileDelete
<1> HIDE DEF set
<1>4. /\ buildWhereClause(set, q.filters, dialect) \in Wheres(style, 1, Means(q))
      /\ buildWhereClause(Fresh, q.filters, dialect) \in Wheres(style, 1, Means(q))
  BY <1>1, <1>2, QueryWheres, 1 \in Nat
<1> QED
  BY <1>3, <1>4

\* KnownRefusal, Miscompiled and RowsAsAsked of a query and a request for it.
Refusal(q, request) ==
  \/ \E i \in ConditionsOf(q) : NotItsSQL(ops[i], request.dialect)
  \/ request.operation \in Finds /\ q.distinct /\ (request.dialect # "postgresql" \/ q.orderBy)
  \/ request.operation = "GroupBy" /\ q.orderBy /\ request.dialect # "sqlite"
  \/ request.operation \in Finds \cup {"GroupBy"} /\ q.skip /\ ~q.take /\ request.dialect # "postgresql"
  \/ request.operation = "Upsert" /\ request.data = "none"
  \/ request.operation \in {"Aggregate", "GroupBy"} /\ request.data = "all"
Wrong(q, request) ==
  \/ request.operation \in Finds /\ q.cursor /\ FilterOf(q).operator = "OR"
       /\ Len(FilterOf(q).conditions) + Len(FilterOf(q).nested) > 1
  \/ request.operation \in {"Aggregate", "GroupBy"} /\ FilterOf(q).conditions = <<>> /\ FilterOf(q).nested # <<>>
RowsRight(q, request, rows) ==
  CASE request.operation \in Finds -> rows = Means(q) \cap (IF q.cursor THEN ExtraRows ELSE Rows)
    [] request.operation \in {"Aggregate", "GroupBy", "Update", "UpdateMany", "Delete", "DeleteMany"} -> rows = Means(q)
    [] OTHER -> TRUE

\* The filter of a query is one of those in turn.
LEMMA LastFilter ==
  ASSUME NEW q, NEW dialect, InTurn(q.filters, dialect)
  PROVE  /\ Len(FilterOf(q).conditions) \in Nat /\ Len(FilterOf(q).nested) \in Nat
         /\ FilterOf(q) \in Filters(1..(Len(q.filters) - 1), dialect)
<1>1. /\ Len(q.filters) \in Nat \ {0} /\ FilterOf(q) = q.filters[Len(q.filters)]
      /\ \A k \in 1..Len(q.filters) : q.filters[k] \in Filters(1..(k - 1), dialect)
  BY DEF InTurn, FilterOf, Last
<1>2. Len(q.filters) \in 1..Len(q.filters)
  BY <1>1
<1>3. FilterOf(q) \in Filters(1..(Len(q.filters) - 1), dialect)
  BY <1>1, <1>2
<1>4. FilterOf(q).conditions \in Seq(1..MaxConditions) /\ FilterOf(q).nested \in Seq(1..(Len(q.filters) - 1))
  BY <1>3 DEF Filters
<1> HIDE DEF FilterOf
<1>5. \A S, t : t \in Seq(S) => Len(t) \in Nat
  OBVIOUS
<1> QED
  BY <1>3, <1>4, <1>5

\* What Compile accepts outside the known refusals is bound, and right outside the known faults.
LEMMA CompileRight ==
  ASSUME NEW request, NEW p, NEW q, p.filters = q.filters, p.cursor = q.cursor, p.distinct = q.distinct,
         p.orderBy = q.orderBy, p.skip /\ ~p.take => q.skip /\ ~q.take, InTurn(q.filters, request.dialect),
         request.operation \in Reads \cup Mutations, ~Refusal(q, request), Compile(p, request) # Failed
  PROVE  /\ Compile(p, request) \in TextsFrom(placeholder(request.dialect), 1)
         /\ ~Wrong(q, request) => RowsRight(q, request, Leaving(Compile(p, request)))
<1> DEFINE op == request.operation
           dialect == request.dialect
           data == request.data
           s == Compile(p, request)
           T == TextsFrom(placeholder(dialect), 1)
<1>1. s = CASE op \in Finds -> compileSelect(p, dialect)
            [] op = "Aggregate" -> compileAggregate(p, data, dialect)
            [] op = "GroupBy" -> compileGroupBy(p, data, dialect)
            [] op = "Create" -> CompileCreate(data, dialect)
            [] op = "CreateMany" -> CompileCreateMany(data, dialect)
            [] op = "Upsert" -> CompileUpsert(data, dialect)
            [] op \in {"Update", "UpdateMany"} -> CompileUpdate(p, data, dialect)
            [] op \in {"Delete", "DeleteMany"} -> CompileDelete(p, dialect)
  BY DEF Compile
<1>2. /\ op \in Finds => s = compileSelect(p, dialect)
      /\ op = "Aggregate" => s = compileAggregate(p, data, dialect)
      /\ op = "GroupBy" => s = compileGroupBy(p, data, dialect)
      /\ op = "Create" => s = CompileCreate(data, dialect)
      /\ op = "CreateMany" => s = CompileCreateMany(data, dialect)
      /\ op = "Upsert" => s = CompileUpsert(data, dialect)
      /\ op \in {"Update", "UpdateMany"} => s = CompileUpdate(p, data, dialect)
      /\ op \in {"Delete", "DeleteMany"} => s = CompileDelete(p, dialect)
  <2> HIDE DEF s
  <2> QED
    BY <1>1 DEF Finds
<1>3. s # Failed /\ InTurn(q.filters, dialect)
  OBVIOUS
<1>4. /\ op \in Finds => /\ ~(q.distinct /\ (dialect # "postgresql" \/ q.orderBy))
                         /\ ~(p.skip /\ ~p.take /\ dialect # "postgresql")
      /\ op = "GroupBy" => ~(p.orderBy /\ dialect # "sqlite") /\ ~(p.skip /\ ~p.take /\ dialect # "postgresql")
      /\ op = "Upsert" => data # "none"
      /\ op \in {"Aggregate", "GroupBy"} => data # "all"
  BY DEF Refusal
<1> HIDE DEF s, op, dialect, data
<1>5. CASE op \in Finds
  <2>1. PICK left : /\ s \in Wheres(placeholder(dialect), 1, left)
                    /\ ~q.cursor \/ OneSide(FilterOf(q)) =>
                         left = Means(q) \cap (IF q.cursor THEN ExtraRows ELSE Rows)
    BY <1>2, <1>3, <1>4, <1>5, SelectRight
  <2>2. s \in T /\ Leaving(s) = left
    BY <2>1, WhereRows
  <2>3. ~Wrong(q, request) => ~q.cursor \/ OneSide(FilterOf(q))
    <3> DEFINE few == Len(FilterOf(q).conditions)
               more == Len(FilterOf(q).nested)
    <3>1. few \in Nat /\ more \in Nat
      BY <1>3, LastFilter
    <3>2. ~Wrong(q, request) => ~q.cursor \/ FilterOf(q).operator # "OR" \/ ~(few + more > 1)
      BY <1>5 DEF Wrong, op
    <3>3. OneSide(FilterOf(q)) <=> FilterOf(q).operator # "OR" \/ few + more <= 1
      BY DEF OneSide
    <3> HIDE DEF few, more
    <3>4. ~(few + more > 1) => few + more <= 1
      BY <3>1
    <3> QED
      BY <3>2, <3>3, <3>4
  <2>4. RowsRight(q, request, Leaving(s)) <=> Leaving(s) = Means(q) \cap (IF q.cursor THEN ExtraRows ELSE Rows)
    <3>1. op \notin {"Aggregate", "GroupBy", "Update", "UpdateMany", "Delete", "DeleteMany"}
      BY <1>5 DEF Finds
    <3> QED
      BY <1>5, <3>1 DEF RowsRight, op
  <2> QED
    BY <2>1, <2>2, <2>3, <2>4 DEF s, dialect
<1>6. CASE op = "Aggregate" \/ op = "GroupBy"
  <2>1. PICK left : /\ s \in Wheres(placeholder(dialect), 1, left)
                    /\ FilterOf(q).conditions # <<>> \/ FilterOf(q).nested = <<>> => left = Means(q)
    <3>1. CASE op = "GroupBy"
      <4>1. \E left : /\ compileGroupBy(p, data, dialect) \in Wheres(placeholder(dialect), 1, left)
                      /\ FilterOf(q).conditions # <<>> \/ FilterOf(q).nested = <<>> => left = Means(q)
        BY <1>3, <1>4, <3>1, GroupsRight
      <4> QED
        BY <1>2, <3>1, <4>1
    <3>2. CASE op = "Aggregate"
      <4>1. \E left : /\ compileAggregate(p, data, dialect) \in Wheres(placeholder(dialect), 1, left)
                      /\ FilterOf(q).conditions # <<>> \/ FilterOf(q).nested = <<>> => left = Means(q)
        BY <1>3, <1>4, <3>2, AggregatesRight
      <4> QED
        BY <1>2, <3>2, <4>1
    <3> QED
      BY <1>6, <3>1, <3>2
  <2>2. s \in T /\ Leaving(s) = left
    BY <2>1, WhereRows
  <2>3. ~Wrong(q, request) => FilterOf(q).conditions # <<>> \/ FilterOf(q).nested = <<>>
    BY <1>6 DEF Wrong, op
  <2>4. RowsRight(q, request, Leaving(s)) <=> Leaving(s) = Means(q)
    BY <1>6 DEF RowsRight, op, Finds
  <2> QED
    BY <2>1, <2>2, <2>3, <2>4 DEF s, dialect
<1>7. CASE op = "Create" \/ op = "CreateMany" \/ op = "Upsert"
  <2>1. s \in T
    BY <1>2, <1>3, <1>4, <1>7, CreatesRight
  <2>2. RowsRight(q, request, Leaving(s))
    BY <1>7 DEF RowsRight, op, Finds
  <2> QED
    BY <2>1, <2>2 DEF s, dialect
<1>8. CASE op \in {"Update", "UpdateMany", "Delete", "DeleteMany"}
  <2>1. s \in Wheres(placeholder(dialect), 1, Means(q))
    BY <1>2, <1>3, <1>8, ChangesRight
  <2>2. s \in T /\ Leaving(s) = Means(q)
    BY <2>1, WhereRows
  <2>3. RowsRight(q, request, Leaving(s)) <=> Leaving(s) = Means(q)
    BY <1>8 DEF RowsRight, op, Finds
  <2> QED
    BY <2>2, <2>3 DEF s, dialect
<1> QED
  BY <1>5, <1>6, <1>7, <1>8 DEF Reads, Finds, Mutations, op

-----------------------------------------------------------------------------
(* What the compiler makes of a query, as the program goes.                *)

\* A step that builds nothing keeps the meaning of the query.
LEMMA MeansStays ==
  ASSUME UNCHANGED <<ops, query>>
  PROVE  Means(query)' = Means(query)
<1> DEFINE One(o, f, before) ==
             LET parts == {Meant(i, o[i]) : i \in Range(f.conditions)} \cup {before[n] : n \in Range(f.nested)}
             IN  CASE parts = {} -> Rows
                   [] parts # {} /\ f.operator = "NOT" -> Rows \ UNION parts
                   [] OTHER -> Joined(parts, f.operator)
           All(o, q) ==
             LET means[k \in 0..Len(q.filters)] ==
                   IF k = 0 THEN <<>> ELSE LET before == means[k - 1] IN Append(before, One(o, q.filters[k], before))
             IN  Last(means[Len(q.filters)])
<1>1. Means(query) = All(ops, query) /\ Means(query)' = All(ops', query')
  BY DEF Means, MeansOf
<1> HIDE DEF All
<1> QED
  BY <1>1

\* A query with its filters in order, and its options.
BuiltQueries(n) ==
  [filters : Seq([conditions : Seq(1..n), nested : Seq(Nat), operator : Operators3]),
   take : BOOLEAN, skip : BOOLEAN, cursor : BOOLEAN, distinct : BOOLEAN, having : BOOLEAN,
   orderBy : BOOLEAN]

CompilerInv ==
  /\ ops \in Operators
  /\ query \in BuiltQueries(Len(ops)) /\ Shaped(query.filters, Len(ops))
  /\ CompiledAsAsked

\* So it keeps which refusals and faults are known.
LEMMA RefusalStays ==
  ASSUME NEW request, UNCHANGED <<ops, query>>, compiled'.request = request
  PROVE  /\ KnownRefusal' <=> Refusal(query, request)
         /\ Miscompiled' <=> Wrong(query, request)
         /\ RowsAsAsked' <=> RowsRight(query, request, compiled'.rows)
<1>1. ops' = ops /\ query' = query /\ Op' = request.operation /\ Dialect' = request.dialect
  BY DEF Op, Dialect
<1>2. ConditionsOf(query)' = ConditionsOf(query) /\ FilterOf(query)' = FilterOf(query)
  BY <1>1 DEF ConditionsOf, FilterOf
<1>3. Means(query)' = Means(query)
  BY <1>1, MeansStays
<1>4. KnownRefusal' <=> Refusal(query, request)
  <2> HIDE DEF ConditionsOf
  <2> QED
    BY <1>1, <1>2 DEF KnownRefusal, Refusal
<1>5. Miscompiled' <=> Wrong(query, request)
  <2> HIDE DEF FilterOf
  <2> QED
    BY <1>1, <1>2 DEF Miscompiled, Wrong
<1>6. RowsAsAsked' <=> RowsRight(query, request, compiled'.rows)
  BY <1>1, <1>3 DEF RowsAsAsked, RowsRight
<1> QED
  BY <1>4, <1>5, <1>6

\* Execute sends what was asked.
LEMMA ExecutePreserves ==
  ASSUME CompilerInv, NEW request \in Requests[ops], request.via # "relation", Execute(request)
  PROVE  CompiledAsAsked'
<1> DEFINE p == Asking(request)
           s == Compile(p, request)
<1>1. UNCHANGED <<ops, query>> /\ compiled' = Outcome(request, s)
  BY DEF Execute
<1>2. /\ compiled'.request = request /\ compiled'.error = s.error /\ compiled'.rows = Leaving(s)
      /\ compiled'.accepted <=> Accepts(request.dialect, s)
      /\ compiled'.bound <=> Accepts(request.dialect, s) /\ BoundRight(request.dialect, s)
  BY <1>1 DEF Outcome
<1>3. request.operation \in Reads \cup Mutations /\ request.dialect \in Databases
  BY RequestsAssumption DEF CompilerInv, RequestTypes, Databases
<1>4. /\ p.filters = query.filters /\ p.cursor = query.cursor /\ p.distinct = query.distinct
      /\ p.orderBy = query.orderBy
      /\ p.skip /\ ~p.take => query.skip /\ ~query.take
  <2>1. query \in BuiltQueries(Len(ops))
    BY DEF CompilerInv
  <2> QED
    BY <2>1 DEF Asking, BuiltQueries
<1>5. CASE s.error
  BY <1>2, <1>5 DEF CompiledAsAsked, Compiled
<1>6. CASE Refusal(query, request)
  BY <1>1, <1>2, <1>6, RefusalStays DEF CompiledAsAsked
<1>7. CASE ~s.error /\ ~Refusal(query, request)
  <2>1. s # Failed
    BY <1>7 DEF Failed, Fresh
  <2>2. InTurn(query.filters, request.dialect)
    <3>1. \A i \in ConditionsOf(query) : ~NotItsSQL(ops[i], request.dialect)
      BY <1>7 DEF Refusal
    <3> QED
      BY <3>1, ShapedInTurn DEF CompilerInv
  <2> HIDE DEF p
  <2>3. /\ s \in TextsFrom(placeholder(request.dialect), 1)
        /\ ~Wrong(query, request) => RowsRight(query, request, Leaving(s))
    BY <1>3, <1>4, <1>7, <2>1, <2>2, CompileRight
  <2> HIDE DEF s
  <2>4. Accepts(request.dialect, s) /\ BoundRight(request.dialect, s)
    BY <1>3, <2>3, TextBinds
  <2>5. compiled'.accepted /\ compiled'.bound
    BY <1>2, <2>4
  <2>6. ~Miscompiled' => RowsAsAsked'
    BY <1>1, <1>2, <2>3, RefusalStays
  <2> QED
    BY <1>2, <2>5, <2>6 DEF CompiledAsAsked
<1> QED
  BY <1>5, <1>6, <1>7

\* What one statement of a write to a relation does to the children.
ChildrenWith(c, t) ==
  CASE t.effect = "attach" -> c \cup t.rows
    [] t.effect \in {"detach", "delete"} -> c \ t.rows
    [] OTHER -> c

\* The children after each statement of a relation write.
LEMMA ChildrenInTurn ==
  ASSUME NEW T, NEW list \in Seq(T), \A t \in T : t.rows \in SUBSET Rows
  PROVE  \E v \in [0..Len(list) -> SUBSET Rows] :
           /\ v[0] = ExtraRows /\ v[Len(list)] = ChildrenAfter(list)
           /\ \A k \in 0..Len(list) : k < Len(list) => v[k + 1] = ChildrenWith(v[k], list[k + 1])
<1> DEFINE S == SUBSET Rows
           n == Len(list)
           base == ExtraRows
           step == [x \in S \X (1..n) |-> ChildrenWith(x[1], list[x[2]])]
           IsFold(h) == h = [c \in SUBSET (1..n) |->
                              IF c = {} THEN base ELSE ChildrenWith(h[c \ {Max(c)}], list[Max(c)])]
           f == CHOOSE h : IsFold(h)
<1>0. n \in Nat /\ DOMAIN list = 1..n /\ \A k \in 1..n : list[k].rows \in S
  OBVIOUS
<1>b. base \in S
  BY ExtraIsPart
<1>1. \A c \in S, k \in 1..n : ChildrenWith(c, list[k]) \in S
  BY <1>0 DEF ChildrenWith
<1> HIDE DEF S, n, base
<1>2. step \in Steps(S, n)
  BY <1>1 DEF Steps
<1>3. \A t \in S, k \in 1..n : step[<<t, k>>] = ChildrenWith(t, list[k])
  OBVIOUS
<1> HIDE DEF step
<1>m. \A c \in SUBSET (1..n) : c # {} => Max(c) \in 1..n /\ c \ {Max(c)} \in SUBSET (1..n)
  BY <1>0, Greatest
<1>4. \E h : IsFold(h)
  <2> PICK h : FoldOf(h, S, n, base, step)
    BY <1>0, <1>b, <1>2, FoldExists
  <2>1. /\ h \in [SUBSET (1..n) -> S]
        /\ h = [c \in SUBSET (1..n) |-> IF c = {} THEN base ELSE step[<<h[c \ {Max(c)}], Max(c)>>]]
    BY DEF FoldOf
  <2> DEFINE other == [c \in SUBSET (1..n) |->
                        IF c = {} THEN base ELSE ChildrenWith(h[c \ {Max(c)}], list[Max(c)])]
  <2>2. ASSUME NEW c \in SUBSET (1..n) PROVE h[c] = other[c]
    BY <1>3, <1>m, <2>1
  <2>3. h = other
    BY <2>1, <2>2
  <2>4. IsFold(h)
    BY <2>3
  <2> HIDE DEF IsFold
  <2> QED
    BY <2>4
<1>5. IsFold(f)
  BY <1>4
<1>6. ChildrenAfter(list) = f[1..n]
  BY <1>0 DEF ChildrenAfter, ChildrenWith, FoldLeft, MapThenFoldSet, n, base
<1> HIDE DEF f
<1>7. Follows(f, S, n, base, step)
  BY <1>3, <1>5, <1>m DEF Follows
<1> HIDE DEF IsFold
<1>8. PICK v : Turns(v, S, n, base, step) /\ v[n] = f[1..n]
  BY <1>0, <1>b, <1>2, <1>7, FoldValues
<1>9. v \in [0..n -> S] /\ v[0] = base /\ \A k \in 0..n : k < n => v[k + 1] = step[<<v[k], k + 1>>]
  BY <1>8 DEF Turns
<1>10. ASSUME NEW k \in 0..n, k < n PROVE v[k + 1] = ChildrenWith(v[k], list[k + 1])
  <2>1. k + 1 \in 1..n /\ v[k] \in S
    BY <1>0, <1>9, <1>10
  <2> QED
    BY <1>3, <1>9, <1>10, <2>1
<1> QED
  BY <1>6, <1>8, <1>9, <1>10 DEF S, n, base

\* After the only one.
LEMMA ChildrenOfOne ==
  ASSUME NEW t, t.rows \in SUBSET Rows
  PROVE  ChildrenAfter(<<t>>) = ChildrenWith(ExtraRows, t)
<1> DEFINE list == <<t>>
<1>1. list \in Seq({t}) /\ Len(list) = 1 /\ list[1] = t
  OBVIOUS
<1> HIDE DEF list
<1>2. PICK v \in [0..Len(list) -> SUBSET Rows] :
        /\ v[0] = ExtraRows /\ v[Len(list)] = ChildrenAfter(list)
        /\ \A k \in 0..Len(list) : k < Len(list) => v[k + 1] = ChildrenWith(v[k], list[k + 1])
  BY <1>1, ChildrenInTurn
<1>3. v[0 + 1] = ChildrenWith(v[0], list[0 + 1])
  BY <1>1, <1>2
<1> QED
  BY <1>1, <1>2, <1>3 DEF list

\* After two.
LEMMA ChildrenOfTwo ==
  ASSUME NEW t, t.rows \in SUBSET Rows, NEW u, u.rows \in SUBSET Rows
  PROVE  ChildrenAfter(<<t, u>>) = ChildrenWith(ChildrenWith(ExtraRows, t), u)
<1> DEFINE list == <<t, u>>
           T == {t, u}
<1>1. list \in Seq(T) /\ Len(list) = 2 /\ list[1] = t /\ list[2] = u
  OBVIOUS
<1> HIDE DEF list
<1>r. \A x \in T : x.rows \in SUBSET Rows
  OBVIOUS
<1> HIDE DEF T
<1>2. PICK v \in [0..Len(list) -> SUBSET Rows] :
        /\ v[0] = ExtraRows /\ v[Len(list)] = ChildrenAfter(list)
        /\ \A k \in 0..Len(list) : k < Len(list) => v[k + 1] = ChildrenWith(v[k], list[k + 1])
  BY <1>1, <1>r, ChildrenInTurn
<1>3. v[0 + 1] = ChildrenWith(v[0], list[0 + 1]) /\ v[1 + 1] = ChildrenWith(v[1], list[1 + 1])
  BY <1>1, <1>2
<1> QED
  BY <1>1, <1>2, <1>3 DEF list

\* Setting the relation starts from a query without a filter.
LEMMA NoFilterInTurn ==
  ASSUME NEW dialect
  PROVE  /\ InTurn(NewQueryBuilder.filters, dialect) /\ OwnConditions(NewQueryBuilder)
         /\ Means(NewQueryBuilder) = Rows
<1> DEFINE q == NewQueryBuilder
           none == <<>>
           style == placeholder(dialect)
<1>1. q.filters = <<NoFilter>> /\ FilterOf(q) = NoFilter /\ Len(q.filters) = 1 /\ q.filters[1] = NoFilter
  BY DEF NewQueryBuilder, FilterOf, Last
<1>2. NoFilter.conditions = none /\ NoFilter.nested = none /\ Len(none) = 0
  BY DEF NoFilter
<1>3. NoFilter \in Filters(1..0, dialect) /\ IsEmpty(NoFilter)
  <2>1. NoFilter \in [conditions : Seq(1..MaxConditions), nested : Seq(1..0), operator : Operators3]
    BY DEF NoFilter, Operators3
  <2> HIDE DEF none
  <2> QED
    BY <1>2, <2>1 DEF Filters, IsEmpty
<1> HIDE DEF q, none, style
<1>4. InTurn(q.filters, dialect)
  BY <1>1, <1>3 DEF InTurn
<1>5. OwnConditions(q)
  <2>1. [NoFilter EXCEPT !.conditions = NoFilter.conditions] = NoFilter
    BY DEF NoFilter
  <2> QED
    BY <1>1, <2>1 DEF OwnConditions
<1>6. Means(q) = Rows
  <2>1. style \in {"$", "?"} /\ Fresh \in Wheres(style, 1, Rows) /\ Fresh \in TextsFrom(style, 1) /\ Fresh.parts = <<>>
    BY StyleOf, FreshWheres DEF Wheres, style
  <2>2. PICK piece : piece \in TextOf(FilterOf(q), style, Fresh.next, Means(q))
    <3>1. \E piece \in TextOf(FilterOf(q), placeholder(dialect), Fresh.next, Means(q)) :
            buildWhereClause(Fresh, q.filters, dialect) = AddText(Fresh, piece)
      BY <1>4, <2>1, WhereText, 1 \in Nat DEF style
    <3> QED
      BY <3>1 DEF style
  <2> QED
    BY <1>1, <1>3, <2>2 DEF TextOf
<1> QED
  BY <1>4, <1>5, <1>6 DEF q

-----------------------------------------------------------------------------
(* Writes to a relation.                                                   *)

\* A relation write of one statement has its effect.
LEMMA OneStatement ==
  ASSUME NEW style, NEW rows, NEW x \in Wheres(style, 1, rows), NEW effect
  PROVE  LET done == <<Statement(x, effect)>>
         IN  /\ DOMAIN done = {1} /\ done[1].s = x /\ Last(done).rows = rows
             /\ effect = "attach" => ChildrenAfter(done) = ExtraRows \cup rows
             /\ effect \in {"detach", "delete"} => ChildrenAfter(done) = ExtraRows \ rows
<1> DEFINE t == Statement(x, effect)
           done == <<t>>
<1>1. t.rows = rows /\ t.rows \in SUBSET Rows /\ t.effect = effect /\ t.s = x
  BY WhereRows, 1 \in Nat DEF Statement
<1> HIDE DEF t
<1>2. DOMAIN done = {1} /\ done[1] = t /\ Last(done) = t
  BY DEF Last
<1>3. ChildrenAfter(done) = ChildrenWith(ExtraRows, t)
  BY <1>1, ChildrenOfOne
<1> HIDE DEF done
<1>4. /\ effect = "attach" => ChildrenAfter(done) = ExtraRows \cup rows
      /\ effect \in {"detach", "delete"} => ChildrenAfter(done) = ExtraRows \ rows
  BY <1>1, <1>3 DEF ChildrenWith
<1> QED
  BY <1>1, <1>2, <1>4 DEF done, t

\* What the statements are made of.
LEMMA RelationStatements ==
  ASSUME NEW dialect, NEW q, InTurn(q.filters, dialect), OwnConditions(q)
  PROVE  LET style == placeholder(dialect)
         IN  /\ Place(Attach(dialect), style, Set) \in Wheres(style, 1, Rows)
             /\ OfConditions(Attach(dialect), q, dialect) \in Wheres(style, 1, Means(q))
             /\ OfConditions(Fresh, q, dialect) \in Wheres(style, 1, Means(q))
             /\ OfChildren(Place(Fresh, style, Set), q, dialect) \in Wheres(style, 1, ExtraRows \cap Means(q))
             /\ OfChildren(Fresh, q, dialect) \in Wheres(style, 1, ExtraRows \cap Means(q))
             /\ OfChildren(Fresh, NewQueryBuilder, dialect) \in Wheres(style, 1, ExtraRows)
<1> DEFINE style == placeholder(dialect)
           parent == <<Value("parent")>>
           attach == Place(Fresh, style, parent)
           set == Place(Fresh, style, Set)
           create == Place(attach, style, Set)
<1>1. style \in {"$", "?"} /\ Fresh \in Wheres(style, 1, Rows) /\ Fresh \in TextsFrom(style, 1) /\ Fresh.parts = <<>>
  BY StyleOf, FreshWheres DEF Wheres
<1>2. Set \in Seq(Vals) /\ parent \in Seq(Vals)
  <2>1. "parent" \in Names
    BY DEF Names
  <2> QED
    BY <2>1, TheValues, ValuesOf
<1>3. Attach(dialect) = attach
  BY DEF Attach
<1> HIDE DEF style, parent
<1>4. /\ attach \in TextsFrom(style, 1) /\ attach.parts = <<>> /\ set \in TextsFrom(style, 1)
      /\ attach \in Wheres(style, 1, Rows)
  <2>1. attach \in TextsFrom(style, 1) /\ attach.parts = Fresh.parts /\ set \in TextsFrom(style, 1)
    BY <1>1, <1>2, TextPlaced, 1 \in Nat
  <2>2. attach \in Wheres(style, 1, Rows)
    BY <1>1, <1>2, PlaceWheres, 1 \in Nat
  <2> QED
    BY <1>1, <2>1, <2>2
<1> HIDE DEF attach, set
<1>5. create \in Wheres(style, 1, Rows)
  BY <1>1, <1>2, <1>4, PlaceWheres, 1 \in Nat
<1>6. \A start : OfConditions(start, q, dialect) = buildWhereClause(start, q.filters, dialect)
  BY DEF OfConditions, OwnConditions
<1>7. OfConditions(attach, q, dialect) \in Wheres(style, 1, Means(q))
  BY <1>4, <1>6, QueryWheres, 1 \in Nat DEF style
<1>8. OfConditions(Fresh, q, dialect) \in Wheres(style, 1, Means(q))
  BY <1>1, <1>6, QueryWheres, 1 \in Nat DEF style
<1>9. /\ OfChildren(set, q, dialect) \in Wheres(style, 1, ExtraRows \cap Means(q))
      /\ OfChildren(Fresh, q, dialect) \in Wheres(style, 1, ExtraRows \cap Means(q))
  BY <1>1, <1>4, ChildrenWheres, 1 \in Nat DEF style
<1>10. OfChildren(Fresh, NewQueryBuilder, dialect) \in Wheres(style, 1, ExtraRows)
  <2>1. OfChildren(Fresh, NewQueryBuilder, dialect) \in Wheres(style, 1, ExtraRows \cap Means(NewQueryBuilder))
    BY <1>1, NoFilterInTurn, ChildrenWheres, 1 \in Nat DEF style
  <2>2. ExtraRows \cap Means(NewQueryBuilder) = ExtraRows
    BY NoFilterInTurn, ExtraIsPart
  <2> QED
    BY <2>1, <2>2
<1> QED
  BY <1>3, <1>5, <1>7, <1>8, <1>9, <1>10 DEF style, set

\* ChildrenAsAsked of a query and a request for it.
ChildrenRight(q, request, rows, children) ==
  CASE request.operation = "connect" -> children = ExtraRows \cup Means(q)
    [] request.operation = "disconnect" -> children = ExtraRows \ Means(q)
    [] request.operation = "set" -> children = IF FilterOf(q).conditions = <<>> THEN {} ELSE Means(q)
    [] request.operation = "update" -> rows = ExtraRows \cap Means(q)
    [] request.operation = "delete" -> rows = ExtraRows \cap Means(q) /\ children = ExtraRows \ Means(q)
    [] OTHER -> TRUE

RelationWrites == {"create", "connect", "disconnect", "update", "delete", "set", "upsert"}

\* Two statements in a sequence.
LEMMA TwoOfThem ==
  ASSUME NEW t, NEW u
  PROVE  <<t>> \o <<u>> = <<t, u>>
<1> DEFINE T == {t, u}
           s == <<u>>
<1>1. s \in Seq(T) /\ Len(s) = 1 /\ s[1] = u /\ t \in T
  OBVIOUS
<1> HIDE DEF s, T
<1>2. <<t>> \o s = <<t, s[1]>>
  BY <1>1, OneAndOne
<1> QED
  BY <1>1, <1>2 DEF s

\* The statements of a relation write leave the children asked for.
LEMMA NestedWritesRight ==
  ASSUME NEW request, NEW q, InTurn(q.filters, request.dialect), OwnConditions(q), request.operation \in RelationWrites,
         NEW done, done = CompileNestedWrites(q, request.operation, request.data, request.dialect),
         \A k \in DOMAIN done : ~done[k].s.error
  PROVE  /\ \A k \in DOMAIN done : done[k].s \in TextsFrom(placeholder(request.dialect), 1)
         /\ ChildrenRight(q, request, Last(done).rows, ChildrenAfter(done))
<1> DEFINE op == request.operation
           data == request.data
           dialect == request.dialect
           style == placeholder(dialect)
           conditionless == FilterOf(q).conditions = <<>>
           create == Place(Attach(dialect), style, Set)
           connect == OfConditions(Attach(dialect), q, dialect)
           disconnect == OfConditions(Fresh, q, dialect)
           update == OfChildren(Place(Fresh, style, Set), q, dialect)
           delete == OfChildren(Fresh, q, dialect)
           clear == OfChildren(Fresh, NewQueryBuilder, dialect)
           meant == Means(q)
<1>1. /\ create \in Wheres(style, 1, Rows) /\ connect \in Wheres(style, 1, meant)
      /\ disconnect \in Wheres(style, 1, meant) /\ update \in Wheres(style, 1, ExtraRows \cap meant)
      /\ delete \in Wheres(style, 1, ExtraRows \cap meant) /\ clear \in Wheres(style, 1, ExtraRows)
  BY RelationStatements
<1>2. /\ op = "create" => done = IF data = "none" THEN <<Statement(Failed, "insert")>> ELSE <<Statement(create, "insert")>>
      /\ op = "connect" =>
           done = IF conditionless THEN <<Statement(Failed, "attach")>> ELSE <<Statement(connect, "attach")>>
      /\ op = "disconnect" =>
           done = IF conditionless THEN <<Statement(Failed, "detach")>> ELSE <<Statement(disconnect, "detach")>>
      /\ op = "update" => done = IF data = "none" THEN <<Statement(Failed, "change")>> ELSE <<Statement(update, "change")>>
      /\ op = "delete" => done = <<Statement(delete, "delete")>>
      /\ op = "set" => done = <<Statement(clear, "detach")>>
                                \o (IF conditionless THEN <<>> ELSE <<Statement(connect, "attach")>>)
      /\ op = "upsert" => done = <<Statement(Failed, "insert")>>
  BY DEF CompileNestedWrites
<1> HIDE DEF create, connect, disconnect, update, delete, clear, meant
<1>f. ASSUME NEW effect, done = <<Statement(Failed, effect)>> PROVE FALSE
  <2>1. Statement(Failed, effect).s.error
    BY DEF Statement, Failed, Fresh
  <2> HIDE DEF Statement
  <2>2. 1 \in DOMAIN done /\ done[1] = Statement(Failed, effect)
    BY <1>f
  <2> QED
    BY <2>1, <2>2
<1>3. ASSUME NEW x, NEW rows, x \in Wheres(style, 1, rows), NEW effect, done = <<Statement(x, effect)>>
      PROVE  /\ \A k \in DOMAIN done : done[k].s \in TextsFrom(style, 1)
             /\ Last(done).rows = rows
             /\ effect = "attach" => ChildrenAfter(done) = ExtraRows \cup rows
             /\ effect \in {"detach", "delete"} => ChildrenAfter(done) = ExtraRows \ rows
  BY <1>3, OneStatement, WhereRows, 1 \in Nat
<1> HIDE DEF op, data, style, conditionless
<1>4. CASE op = "create"
  <2>1. done = <<Statement(create, "insert")>>
    BY <1>2, <1>4, <1>f
  <2>2. \A k \in DOMAIN done : done[k].s \in TextsFrom(style, 1)
    BY <1>1, <1>3, <2>1
  <2> QED
    BY <1>4, <2>2 DEF ChildrenRight, op, style
<1>5. CASE op = "connect"
  <2>1. done = <<Statement(connect, "attach")>>
    BY <1>2, <1>5, <1>f
  <2>2. (\A k \in DOMAIN done : done[k].s \in TextsFrom(style, 1)) /\ ChildrenAfter(done) = ExtraRows \cup meant
    BY <1>1, <1>3, <2>1
  <2> QED
    BY <1>5, <2>2 DEF ChildrenRight, op, style, meant
<1>6. CASE op = "disconnect"
  <2>1. done = <<Statement(disconnect, "detach")>>
    BY <1>2, <1>6, <1>f
  <2>2. (\A k \in DOMAIN done : done[k].s \in TextsFrom(style, 1)) /\ ChildrenAfter(done) = ExtraRows \ meant
    BY <1>1, <1>3, <2>1
  <2> QED
    BY <1>6, <2>2 DEF ChildrenRight, op, style, meant
<1>7. CASE op = "update"
  <2>1. done = <<Statement(update, "change")>>
    BY <1>2, <1>7, <1>f
  <2>2. (\A k \in DOMAIN done : done[k].s \in TextsFrom(style, 1)) /\ Last(done).rows = ExtraRows \cap meant
    BY <1>1, <1>3, <2>1
  <2> QED
    BY <1>7, <2>2 DEF ChildrenRight, op, style, meant
<1>8. CASE op = "delete"
  <2>1. done = <<Statement(delete, "delete")>>
    BY <1>2, <1>8
  <2>2. /\ \A k \in DOMAIN done : done[k].s \in TextsFrom(style, 1)
        /\ Last(done).rows = ExtraRows \cap meant /\ ChildrenAfter(done) = ExtraRows \ (ExtraRows \cap meant)
    BY <1>1, <1>3, <2>1
  <2>3. ExtraRows \ (ExtraRows \cap meant) = ExtraRows \ meant
    OBVIOUS
  <2> QED
    BY <1>8, <2>2, <2>3 DEF ChildrenRight, op, style, meant
<1>9. CASE op = "set"
  <2> DEFINE t == Statement(clear, "detach")
             u == Statement(connect, "attach")
  <2>1. CASE conditionless
    <3>1. done = <<t>>
      <4> HIDE DEF t, u
      <4>1. <<t>> \o <<>> = <<t>>
        BY <<t>> \in Seq({t}), ConcatEmptySeq
      <4> QED
        BY <1>2, <1>9, <2>1, <4>1 DEF t
    <3>2. (\A k \in DOMAIN done : done[k].s \in TextsFrom(style, 1)) /\ ChildrenAfter(done) = ExtraRows \ ExtraRows
      BY <1>1, <1>3, <3>1
    <3>3. ExtraRows \ ExtraRows = {}
      OBVIOUS
    <3> QED
      BY <1>9, <2>1, <3>2, <3>3 DEF ChildrenRight, op, style, conditionless
  <2>2. CASE ~conditionless
    <3>1. /\ t.rows = ExtraRows /\ t.rows \in SUBSET Rows /\ t.effect = "detach" /\ t.s = clear
          /\ u.rows = meant /\ u.rows \in SUBSET Rows /\ u.effect = "attach" /\ u.s = connect
      BY <1>1, WhereRows, 1 \in Nat DEF Statement
    <3>2. done = <<t, u>>
      <4> HIDE DEF t, u
      <4>1. <<t>> \o <<u>> = <<t, u>>
        BY TwoOfThem
      <4> QED
        BY <1>2, <1>9, <2>2, <4>1 DEF t, u
    <3>3. DOMAIN done = {1, 2} /\ done[1] = t /\ done[2] = u
      <4> HIDE DEF t, u
      <4> QED
        BY <3>2
    <3> HIDE DEF t, u
    <3>4. ChildrenAfter(done) = ChildrenWith(ChildrenWith(ExtraRows, t), u)
      BY <3>1, <3>2, ChildrenOfTwo
    <3>5. ChildrenWith(ExtraRows, t) = {}
      BY <3>1 DEF ChildrenWith
    <3>6. ChildrenWith({}, u) = meant
      BY <3>1 DEF ChildrenWith
    <3>7. \A k \in DOMAIN done : done[k].s \in TextsFrom(style, 1)
      BY <1>1, <3>1, <3>3, WhereRows, 1 \in Nat
    <3> QED
      BY <1>9, <2>2, <3>4, <3>5, <3>6, <3>7 DEF ChildrenRight, op, style, conditionless, meant
  <2> QED
    BY <2>1, <2>2
<1>10. CASE op = "upsert"
  BY <1>2, <1>10, <1>f
<1> QED
  BY <1>4, <1>5, <1>6, <1>7, <1>8, <1>9, <1>10 DEF RelationWrites, op

\* ExecuteNestedWrites sends what was asked.
LEMMA ExecuteNestedWritesPreserves ==
  ASSUME CompilerInv, NEW request \in Requests[ops], request.via = "relation", ExecuteNestedWrites(request)
  PROVE  CompiledAsAsked'
<1> DEFINE done == CompileNestedWrites(query, request.operation, request.data, request.dialect)
           dialect == request.dialect
<1>1. UNCHANGED <<ops, query>> /\ OwnConditions(query)
  <2>1. query = [NewQueryBuilder EXCEPT !.filters[1].conditions = FilterOf(query).conditions] /\ UNCHANGED <<ops, query>>
    BY DEF ExecuteNestedWrites
  <2> HIDE DEF FilterOf
  <2>2. [NewQueryBuilder EXCEPT !.filters[1].conditions = FilterOf(query).conditions].filters
          = <<[NoFilter EXCEPT !.conditions = FilterOf(query).conditions]>>
    BY DEF NewQueryBuilder
  <2> QED
    BY <2>1, <2>2 DEF OwnConditions
<1>2. /\ compiled'.request = request /\ compiled'.rows = Last(done).rows /\ compiled'.children = ChildrenAfter(done)
      /\ compiled'.error <=> \E k \in DOMAIN done : done[k].s.error
      /\ compiled'.accepted <=> \A k \in DOMAIN done : Accepts(dialect, done[k].s)
      /\ compiled'.bound <=> \A k \in DOMAIN done : Accepts(dialect, done[k].s) /\ BoundRight(dialect, done[k].s)
  <2> DEFINE of(k) == Outcome(request, done[k].s)
  <2>1. compiled' = [request |-> request, rows |-> Last(done).rows,
                     error |-> \E k \in DOMAIN done : of(k).error,
                     accepted |-> \A k \in DOMAIN done : of(k).accepted,
                     bound |-> \A k \in DOMAIN done : of(k).bound,
                     children |-> ChildrenAfter(done)]
    BY DEF ExecuteNestedWrites
  <2>2. \A k : /\ of(k).error = done[k].s.error /\ of(k).accepted = Accepts(dialect, done[k].s)
               /\ of(k).bound = (Accepts(dialect, done[k].s) /\ BoundRight(dialect, done[k].s))
    BY DEF Outcome
  <2> HIDE DEF of, done, dialect
  <2>3. /\ compiled'.request = request /\ compiled'.rows = Last(done).rows /\ compiled'.children = ChildrenAfter(done)
        /\ compiled'.error = \E k \in DOMAIN done : of(k).error
        /\ compiled'.accepted = \A k \in DOMAIN done : of(k).accepted
        /\ compiled'.bound = \A k \in DOMAIN done : of(k).bound
    BY <2>1
  <2> QED
    BY <2>2, <2>3
<1>3. request.operation \in RelationWrites /\ dialect \in Databases
  BY RequestsAssumption DEF CompilerInv, RequestTypes, RelationWrites, Databases
<1> HIDE DEF done
<1>4. CASE compiled'.error
  BY <1>4 DEF CompiledAsAsked, Compiled
<1>5. CASE Refusal(query, request)
  BY <1>1, <1>2, <1>5, RefusalStays DEF CompiledAsAsked
<1>6. CASE ~compiled'.error /\ ~Refusal(query, request)
  <2>1. InTurn(query.filters, dialect)
    <3>1. \A i \in ConditionsOf(query) : ~NotItsSQL(ops[i], dialect)
      BY <1>6 DEF Refusal
    <3> QED
      BY <3>1, ShapedInTurn DEF CompilerInv
  <2>2. /\ \A k \in DOMAIN done : done[k].s \in TextsFrom(placeholder(dialect), 1)
        /\ ChildrenRight(query, request, Last(done).rows, ChildrenAfter(done))
    <3>1. \A k \in DOMAIN done : ~done[k].s.error
      BY <1>2, <1>6
    <3> QED
      BY <1>1, <1>3, <2>1, <3>1, NestedWritesRight DEF done
  <2>3. compiled'.accepted /\ compiled'.bound
    <3>1. \A k \in DOMAIN done : Accepts(dialect, done[k].s) /\ BoundRight(dialect, done[k].s)
      BY <1>3, <2>2, TextBinds
    <3> QED
      BY <1>2, <3>1
  <2>4. ChildrenAsAsked'
    <3>1. Means(query)' = Means(query) /\ FilterOf(query)' = FilterOf(query) /\ Op' = request.operation
      BY <1>1, <1>2, MeansStays DEF FilterOf, Op
    <3>2. ChildrenAsAsked' <=> ChildrenRight(query, request, compiled'.rows, compiled'.children)
      <4> HIDE DEF FilterOf
      <4> QED
        BY <3>1 DEF ChildrenAsAsked, ChildrenRight
    <3> QED
      BY <1>2, <2>2, <3>2
  <2> QED
    BY <1>2, <2>3, <2>4 DEF CompiledAsAsked
<1> QED
  BY <1>4, <1>5, <1>6

-----------------------------------------------------------------------------
(* A query stays one as the program builds it.                             *)

\* A filter over n conditions.
FilterType(n) == [conditions : Seq(1..n), nested : Seq(Nat), operator : Operators3]

\* Min is the least of a set of indices.
LEMMA Least ==
  ASSUME NEW n \in Nat, NEW s \in SUBSET (1..n), s # {}
  PROVE  Min(s) \in s /\ \A k \in s : Min(s) <= k
<1>1. s \in SUBSET Nat
  OBVIOUS
<1>2. \E x \in s : \A y \in s : x <= y
  BY <1>1, LeastNumber
<1> QED
  BY <1>2 DEF Min

\* The conditions that a call adds are conditions of the program.
LEMMA LeftOver ==
  ASSUME ops \in Operators
  PROVE  /\ Len(ops) \in Nat
         /\ Left # {} => NextLeft \in 1..Len(ops)
         /\ \A n \in 1..2 : Cardinality(Left) >= n => NextLeft \in 1..Len(ops) /\ NextLeft + n - 1 \in 1..Len(ops)
<1> DEFINE m == Len(ops)
           L == Left
<1>1. m \in Nat /\ L \in SUBSET (1..m)
  BY OperatorsAssumption DEF Left
<1> HIDE DEF m, L
<1>2. L # {} => Min(L) \in L /\ \A k \in L : Min(L) <= k
  BY <1>1, Least
<1>3. ASSUME NEW n \in 1..2, Cardinality(L) >= n PROVE Min(L) \in 1..m /\ Min(L) + n - 1 \in 1..m
  <2>1. L # {}
    <3>1. Cardinality({}) = 0
      BY FS_EmptySet
    <3> QED
      BY <1>3, <3>1
  <2>2. Min(L) \in 1..m
    BY <1>1, <1>2, <2>1
  <2>3. CASE n = 1
    BY <2>2, <2>3
  <2>4. CASE n = 2
    <3>1. ASSUME Min(L) = m PROVE FALSE
      <4>1. \A k \in L : k = m
        BY <1>1, <1>2, <2>1, <3>1
      <4>2. L = {m}
        BY <2>1, <4>1
      <4>3. Cardinality({m}) = 1
        BY FS_Singleton
      <4> QED
        BY <1>3, <2>4, <4>2, <4>3
    <3> QED
      BY <1>1, <2>2, <2>4, <3>1
  <2> QED
    BY <2>2, <2>3, <2>4
<1> QED
  BY <1>1, <1>2, <1>3 DEF NextLeft, m, L

\* A built query has a filter, and all before it are filters.
LEMMA ShapedParts ==
  ASSUME NEW n \in Nat, NEW filters, Shaped(filters, n)
  PROVE  LET l == Len(filters)
         IN  /\ l \in Nat \ {0} /\ filters \in Seq(FilterType(n)) /\ l \in 1..l
             /\ Last(filters) = filters[l] /\ filters[l] \in FilterType(n) /\ filters[l].nested \in Seq(1..(l - 1))
             /\ Front(filters) \in Seq(FilterType(n)) /\ Len(Front(filters)) = l - 1
             /\ \A k \in 1..(l - 1) : Front(filters)[k] = filters[k]
<1> DEFINE F == FilterType(n)
           l == Len(filters)
<1>1. filters \in Seq(F) /\ l # 0 /\ \A k \in 1..l : filters[k].nested \in Seq(1..(k - 1))
  BY DEF Shaped, FilterType
<1> HIDE DEF F
<1>2. l \in Nat \ {0} /\ l \in 1..l /\ \A k \in 1..l : filters[k] \in F
  BY <1>1
<1>3. Front(filters) \in Seq(F) /\ Len(Front(filters)) = l - 1 /\ \A k \in 1..(l - 1) : Front(filters)[k] = filters[k]
  <2> HIDE DEF l
  <2>1. Front(filters) = SubSeq(filters, 1, l - 1)
    BY DEF Front, l
  <2>2. 1 \in Int /\ l - 1 \in Int /\ \A k \in 1..(l - 1) : filters[k] \in F
    BY <1>2
  <2>3. /\ SubSeq(filters, 1, l - 1) \in Seq(F)
        /\ Len(SubSeq(filters, 1, l - 1)) = IF 1 <= l - 1 THEN l - 1 - 1 + 1 ELSE 0
        /\ \A k \in 1..(l - 1 - 1 + 1) : SubSeq(filters, 1, l - 1)[k] = filters[1 + k - 1]
    BY <2>2, SubSeqProperties
  <2>4. l - 1 - 1 + 1 = l - 1 /\ \A k \in 1..(l - 1) : 1 + k - 1 = k
    BY <1>2
  <2>5. 1 <= l - 1 \/ l - 1 = 0
    BY <1>2
  <2> QED
    BY <2>1, <2>3, <2>4, <2>5
<1> QED
  BY <1>1, <1>2, <1>3 DEF Last, F

\* Replacing or adding the last filter keeps the shape.
LEMMA ShapedWith ==
  ASSUME NEW n \in Nat, NEW filters, Shaped(filters, n), NEW f \in FilterType(n)
  PROVE  /\ f.nested \in Seq(1..(Len(filters) - 1)) => Shaped(Append(Front(filters), f), n)
         /\ (f.nested \in Seq(1..Len(filters)) /\ Len(Last(filters).conditions) # 0) => Shaped(Append(filters, f), n)
<1> DEFINE F == FilterType(n)
           l == Len(filters)
           front == Front(filters)
           a == Append(front, f)
           b == Append(filters, f)
<1>1. /\ l \in Nat \ {0} /\ filters \in Seq(F) /\ l \in 1..l /\ Last(filters) = filters[l]
      /\ front \in Seq(F) /\ Len(front) = l - 1 /\ \A k \in 1..(l - 1) : front[k] = filters[k]
  BY ShapedParts
<1>2. /\ \A k \in 1..l : filters[k].nested \in Seq(1..(k - 1))
      /\ \A k \in 1..l : k < l => Len(filters[k].conditions) # 0
  BY DEF Shaped
<1> HIDE DEF F, l, front
<1>3. /\ a \in Seq(F) /\ Len(a) = l - 1 + 1 /\ a[l - 1 + 1] = f /\ \A k \in 1..(l - 1) : a[k] = front[k]
  BY <1>1, AppendProperties DEF F
<1>4. /\ b \in Seq(F) /\ Len(b) = l + 1 /\ b[l + 1] = f /\ \A k \in 1..l : b[k] = filters[k]
  BY <1>1, AppendProperties DEF F, l
<1> HIDE DEF a, b
<1>5. ASSUME f.nested \in Seq(1..(l - 1)) PROVE Shaped(a, n)
  <2>1. Len(a) = l /\ a[l] = f /\ Len(a) # 0
    BY <1>1, <1>3
  <2>2. ASSUME NEW k \in 1..l, k < l PROVE k \in 1..(l - 1) /\ a[k] = filters[k]
    BY <1>1, <1>3, <2>2
  <2>3. ASSUME NEW k \in 1..l PROVE a[k].nested \in Seq(1..(k - 1))
    <3>1. k < l \/ k = l
      BY <1>1
    <3> QED
      BY <1>2, <1>5, <2>1, <2>2, <3>1
  <2>4. \A k \in 1..l : k < l => Len(a[k].conditions) # 0
    BY <1>2, <2>2
  <2> QED
    BY <1>3, <2>1, <2>3, <2>4 DEF Shaped, F, FilterType
<1>6. ASSUME f.nested \in Seq(1..l), Len(Last(filters).conditions) # 0 PROVE Shaped(b, n)
  <2>1. l + 1 # 0 /\ \A k \in 1..(l + 1) : k \in 1..l \/ k = l + 1
    BY <1>1
  <2>2. l + 1 - 1 = l
    BY <1>1
  <2>3. ASSUME NEW k \in 1..(l + 1) PROVE b[k].nested \in Seq(1..(k - 1))
    <3>1. CASE k \in 1..l
      BY <1>2, <1>4, <3>1
    <3>2. CASE k = l + 1
      <4>1. k - 1 = l /\ b[k] = f
        BY <1>1, <1>4, <3>2
      <4>2. 1..(k - 1) = 1..l
        BY <4>1
      <4> QED
        BY <1>6, <4>1, <4>2
    <3> QED
      BY <2>1, <3>1, <3>2
  <2>4. ASSUME NEW k \in 1..(l + 1), k < l + 1 PROVE Len(b[k].conditions) # 0
    <3>1. k \in 1..l /\ (k < l \/ k = l)
      BY <1>1, <2>4
    <3> QED
      BY <1>1, <1>2, <1>4, <1>6, <3>1
  <2> QED
    BY <1>4, <2>1, <2>3, <2>4 DEF Shaped, F, FilterType
<1> QED
  BY <1>5, <1>6 DEF a, b, l, front

\* NewQueryBuilder has the shape.
LEMMA FreshQuery ==
  ASSUME NEW n \in Nat
  PROVE  NewQueryBuilder \in BuiltQueries(n) /\ Shaped(NewQueryBuilder.filters, n)
<1> DEFINE none == <<>>
           filters == <<NoFilter>>
<1>1. NoFilter \in FilterType(n) /\ NoFilter.nested = none
  BY DEF NoFilter, FilterType, Operators3
<1>2. none \in Seq(1..0)
  OBVIOUS
<1> HIDE DEF none
<1>3. filters \in Seq(FilterType(n)) /\ Len(filters) = 1 /\ filters[1] = NoFilter
  BY <1>1
<1>4. NewQueryBuilder.filters = filters
  BY DEF NewQueryBuilder
<1> HIDE DEF filters
<1>5. NewQueryBuilder \in BuiltQueries(n)
  BY <1>3, <1>4 DEF BuiltQueries, NewQueryBuilder, FilterType
<1>6. Shaped(filters, n)
  BY <1>1, <1>2, <1>3 DEF Shaped, FilterType
<1> QED
  BY <1>4, <1>5, <1>6

\* A sequence over a set is one over a larger set.
LEMMA MoreRoom ==
  ASSUME NEW S, NEW T, S \subseteq T, NEW s \in Seq(S)
  PROVE  s \in Seq(T)
OBVIOUS

\* The two kinds of filter AddWhere and Nest write.
LEMMA OwnFilter ==
  ASSUME NEW n \in Nat, NEW operator3 \in Operators3
  PROVE  /\ \A c \in Seq(1..n) : LET own == [NoFilter EXCEPT !.conditions = c, !.operator = operator3]
                                IN  own \in FilterType(n) /\ own.nested = <<>> /\ own.conditions = c
         /\ \A s \in Seq(Nat) : LET g == [NoFilter EXCEPT !.nested = s, !.operator = operator3]
                                IN  g \in FilterType(n) /\ g.nested = s
<1> DEFINE none == <<>>
<1>1. none \in Seq(1..n) /\ none \in Seq(Nat)
  OBVIOUS
<1>2. NoFilter = [conditions |-> none, nested |-> none, operator |-> "AND"]
  BY DEF NoFilter
<1> HIDE DEF none
<1>3. NoFilter \in FilterType(n) /\ NoFilter.nested = none
  BY <1>1, <1>2 DEF FilterType, Operators3
<1>4. ASSUME NEW c \in Seq(1..n)
      PROVE  LET own == [NoFilter EXCEPT !.conditions = c, !.operator = operator3]
             IN  own \in FilterType(n) /\ own.nested = none /\ own.conditions = c
  BY <1>3 DEF FilterType
<1>5. ASSUME NEW s \in Seq(Nat)
      PROVE  LET g == [NoFilter EXCEPT !.nested = s, !.operator = operator3]
             IN  g \in FilterType(n) /\ g.nested = s
  BY <1>3 DEF FilterType
<1> QED
  BY <1>4, <1>5 DEF none

\* What the actions that build a query leave true.
Building_query ==
  query' \in BuiltQueries(Len(ops)) /\ Shaped(query'.filters, Len(ops))

\* Only the filters of a query change.
LEMMA BuiltOf ==
  ASSUME NEW n, NEW q \in BuiltQueries(n), NEW filters, Shaped(filters, n)
  PROVE  /\ [q EXCEPT !.filters = filters] \in BuiltQueries(n)
         /\ [q EXCEPT !.filters = filters].filters = filters
<1>1. filters \in Seq([conditions : Seq(1..n), nested : Seq(Nat), operator : Operators3])
  BY DEF Shaped
<1> QED
  BY <1>1 DEF BuiltQueries

\* AddWhere keeps the shape.
LEMMA AddWhereBuilds ==
  ASSUME CompilerInv, NEW operator3 \in Operators3, AddWhere(operator3)
  PROVE  Building_query
<1> DEFINE n == Len(ops)
           F == FilterType(n)
           old == query.filters
           l == Len(old)
           f == FilterOf(query)
           more == Append(f.conditions, NextLeft)
           g == [f EXCEPT !.conditions = more, !.operator = operator3]
           new == Append(Front(old), g)
<1>1. query \in BuiltQueries(n) /\ Shaped(old, n) /\ ops \in Operators
  BY DEF CompilerInv
<1>2. Left # {} /\ query' = [query EXCEPT !.filters = new]
  BY DEF AddWhere
<1>3. n \in Nat /\ NextLeft \in 1..n
  BY <1>1, <1>2, LeftOver
<1> HIDE DEF n, old
<1>4. f \in F /\ f.nested \in Seq(1..(l - 1))
  BY <1>1, <1>3, ShapedParts DEF FilterOf, old
<1> HIDE DEF f, l
<1>5. more \in Seq(1..n)
  BY <1>3, <1>4 DEF FilterType
<1> HIDE DEF more
<1>6. g \in F /\ g.nested \in Seq(1..(l - 1))
  BY <1>4, <1>5 DEF FilterType
<1> HIDE DEF g
<1>7. Shaped(new, n)
  BY <1>1, <1>3, <1>6, ShapedWith DEF l
<1> HIDE DEF new
<1> QED
  BY <1>1, <1>2, <1>7, BuiltOf DEF Building_query, n

\* Nest keeps the shape.
LEMMA NestBuilds ==
  ASSUME CompilerInv, NEW operator3 \in Operators3, NEW m \in 1..2, Nest(operator3, m)
  PROVE  Building_query
<1> DEFINE n == Len(ops)
           F == FilterType(n)
           old == query.filters
           l == Len(old)
           f == FilterOf(query)
           added == [k \in 1..m |-> NextLeft + k - 1]
           own == [NoFilter EXCEPT !.conditions = added, !.operator = operator3]
           places == Append(f.nested, l)
           g == [f EXCEPT !.nested = places]
           first == Append(Front(old), own)
           new == Append(first, g)
<1>1. query \in BuiltQueries(n) /\ Shaped(old, n) /\ ops \in Operators
  BY DEF CompilerInv
<1>2. Cardinality(Left) >= m /\ query' = [query EXCEPT !.filters = Front(old) \o <<own, g>>]
  BY DEF Nest
<1>3. n \in Nat /\ NextLeft \in 1..n /\ NextLeft + m - 1 \in 1..n
  BY <1>1, <1>2, LeftOver
<1> HIDE DEF n, old
<1>4. /\ f \in F /\ f.nested \in Seq(1..(l - 1)) /\ l \in Nat \ {0}
      /\ Front(old) \in Seq(F) /\ Len(Front(old)) = l - 1
  BY <1>1, <1>3, ShapedParts DEF FilterOf, old
<1> HIDE DEF f, l
<1>5. added \in Seq(1..n) /\ Len(added) # 0
  <2>1. \A k \in 1..m : NextLeft + k - 1 \in 1..n
    BY <1>3
  <2> DEFINE S == 1..n
  <2>2. added \in [1..m -> S] /\ m \in Nat /\ m # 0
    BY <2>1
  <2> HIDE DEF added, S
  <2>3. added \in Seq(S) /\ DOMAIN added = 1..m
    BY <2>2, IsASeq
  <2>4. Len(added) = m
    BY <2>2, <2>3
  <2>5. Len(added) # 0 /\ added \in Seq(1..n)
    BY <2>2, <2>3, <2>4 DEF S
  <2> QED
    BY <2>5
<1> HIDE DEF added
<1>6. own \in F /\ own.nested = <<>> /\ own.conditions = added
  <2>1. \A c \in Seq(1..n) : LET it == [NoFilter EXCEPT !.conditions = c, !.operator = operator3]
                             IN  it \in F /\ it.nested = <<>> /\ it.conditions = c
    BY <1>3, OwnFilter
  <2> HIDE DEF F
  <2> QED
    BY <1>5, <2>1
<1>7. <<>> \in Seq(1..(l - 1))
  OBVIOUS
<1>8. places \in Seq(1..l)
  <2>1. \A S, T, s : S \subseteq T /\ s \in Seq(S) => s \in Seq(T)
    OBVIOUS
  <2>2. 1..(l - 1) \subseteq 1..l /\ l \in 1..l
    BY <1>4
  <2>3. f.nested \in Seq(1..l)
    BY <1>4, <2>1, <2>2
  <2> QED
    BY <2>2, <2>3
<1> HIDE DEF places
<1>9. g \in F /\ g.nested = places
  <2>1. 1..l \subseteq Nat
    BY <1>4
  <2>2. places \in Seq(Nat)
    BY <1>8, <2>1, MoreRoom
  <2> QED
    BY <1>4, <2>2 DEF FilterType
<1> HIDE DEF own, g
<1>10. Shaped(first, n) /\ Len(first) = l /\ Last(first) = own /\ new = Front(old) \o <<own, g>>
  <2>1. Shaped(first, n)
    BY <1>1, <1>3, <1>6, <1>7, ShapedWith DEF l
  <2> DEFINE front == Front(old)
  <2> HIDE DEF F
  <2>2. front \in Seq(F) /\ Len(front) = l - 1
    BY <1>4
  <2> HIDE DEF front
  <2>3. Append(front, own) \in Seq(F) /\ Len(Append(front, own)) = l /\ Append(front, own)[l] = own
    BY <1>4, <1>6, <2>2, AppendProperties
  <2>4. Append(Append(front, own), g) = front \o <<own, g>>
    BY <1>6, <1>9, <2>2
  <2> QED
    BY <2>1, <2>3, <2>4 DEF Last, front
<1> HIDE DEF first
<1>11. Shaped(new, n)
  BY <1>3, <1>5, <1>6, <1>8, <1>9, <1>10, ShapedWith
<1>12. query' = [query EXCEPT !.filters = new]
  BY <1>2, <1>10
<1> HIDE DEF new
<1> QED
  BY <1>1, <1>11, <1>12, BuiltOf DEF Building_query, n

\* Wrap keeps the shape.
LEMMA WrapBuilds ==
  ASSUME CompilerInv, NEW operator3 \in Operators3, Wrap(operator3)
  PROVE  Building_query
<1> DEFINE n == Len(ops)
           F == FilterType(n)
           old == query.filters
           l == Len(old)
           c == FilterOf(query).conditions
           places == <<l>>
           g == [NoFilter EXCEPT !.nested = places, !.operator = operator3]
           new == Append(old, g)
<1>1. query \in BuiltQueries(n) /\ Shaped(old, n) /\ ops \in Operators
  BY DEF CompilerInv
<1>2. c # <<>> /\ query' = [query EXCEPT !.filters = new]
  BY DEF Wrap
<1>3. n \in Nat
  BY <1>1, LeftOver
<1> HIDE DEF n, old
<1>4. l \in Nat \ {0} /\ c \in Seq(1..n) /\ c = Last(old).conditions
  <2>1. Last(old) \in F /\ l \in Nat \ {0}
    BY <1>1, <1>3, ShapedParts
  <2> HIDE DEF l
  <2> QED
    BY <2>1 DEF FilterType, FilterOf, old
<1> HIDE DEF l, c
<1>5. Len(Last(old).conditions) # 0
  BY <1>2, <1>4, EmptySeq
<1>6. places \in Seq(1..l) /\ places \in Seq(Nat)
  <2>1. l \in 1..l /\ l \in Nat
    BY <1>4
  <2> QED
    BY <2>1
<1> HIDE DEF places
<1>7. g \in F /\ g.nested = places
  BY <1>3, <1>6, OwnFilter
<1> HIDE DEF g
<1>8. Shaped(new, n)
  BY <1>1, <1>3, <1>5, <1>6, <1>7, ShapedWith DEF l
<1> HIDE DEF new
<1> QED
  BY <1>1, <1>2, <1>8, BuiltOf DEF Building_query, n

\* Option keeps the shape.
LEMMA OptionBuilds ==
  ASSUME CompilerInv, NEW option \in Options, Option(option)
  PROVE  Building_query
<1>1. query \in BuiltQueries(Len(ops)) /\ Shaped(query.filters, Len(ops))
  BY DEF CompilerInv
<1>2. query' = [query EXCEPT ![option] = TRUE]
  BY DEF Option
<1>3. query' \in BuiltQueries(Len(ops)) /\ query'.filters = query.filters
  BY <1>1, <1>2 DEF BuiltQueries, Options
<1> QED
  BY <1>1, <1>3 DEF Building_query

-----------------------------------------------------------------------------
(* The inductive invariant, and the theorem.                               *)

\* A step that builds a query and compiles nothing keeps the invariant.
LEMMA BuildingPreserves ==
  ASSUME CompilerInv, Building, Building_query
  PROVE  CompilerInv'
<1>1. ops' = ops /\ compiled' = NotSent
  BY DEF Building
<1>2. CompiledAsAsked'
  BY <1>1 DEF CompiledAsAsked, Compiled, NotSent
<1> QED
  BY <1>1, <1>2 DEF CompilerInv, Building_query

\* So does one that leaves the query alone and sends what was asked.
LEMMA StayingPreserves ==
  ASSUME CompilerInv, UNCHANGED <<ops, query>>, CompiledAsAsked'
  PROVE  CompilerInv'
BY DEF CompilerInv

\* Every call of the program, and what it asks for, leaves the invariant true.
LEMMA CompilerStep ==
  ASSUME CompilerInv, CompilerNext
  PROVE  CompilerInv'
<1>1. ASSUME NEW operator3 \in Operators3, AddWhere(operator3) PROVE CompilerInv'
  <2>1. Building
    BY <1>1 DEF AddWhere
  <2> QED
    BY <1>1, <2>1, AddWhereBuilds, BuildingPreserves
<1>2. ASSUME NEW operator3 \in Operators3, NEW n \in 1..2, Nest(operator3, n) PROVE CompilerInv'
  <2>1. Building
    BY <1>2 DEF Nest
  <2> QED
    BY <1>2, <2>1, NestBuilds, BuildingPreserves
<1>3. ASSUME NEW operator3 \in Operators3, Wrap(operator3) PROVE CompilerInv'
  <2>1. Building
    BY <1>3 DEF Wrap
  <2> QED
    BY <1>3, <2>1, WrapBuilds, BuildingPreserves
<1>4. ASSUME NEW option \in Options, Option(option) PROVE CompilerInv'
  <2>1. Building
    BY <1>4 DEF Option
  <2> QED
    BY <1>4, <2>1, OptionBuilds, BuildingPreserves
<1>5. ASSUME NEW request \in Requests[ops], request.via = "relation", ExecuteNestedWrites(request) PROVE CompilerInv'
  <2>1. UNCHANGED <<ops, query>>
    BY <1>5 DEF ExecuteNestedWrites
  <2> QED
    BY <1>5, <2>1, ExecuteNestedWritesPreserves, StayingPreserves
<1>6. ASSUME NEW request \in Requests[ops], request.via # "relation", Execute(request) PROVE CompilerInv'
  <2>1. UNCHANGED <<ops, query>>
    BY <1>6 DEF Execute
  <2> QED
    BY <1>6, <2>1, ExecutePreserves, StayingPreserves
<1>7. CASE Executed
  <2>1. UNCHANGED <<ops, query>> /\ compiled' = NotSent
    BY <1>7 DEF Executed
  <2>2. CompiledAsAsked'
    BY <2>1 DEF CompiledAsAsked, Compiled, NotSent
  <2> QED
    BY <2>1, <2>2, StayingPreserves
<1>8. \/ \E operator3 \in Operators3 : AddWhere(operator3) \/ (\E n \in 1..2 : Nest(operator3, n)) \/ Wrap(operator3)
      \/ \E option \in Options : Option(option)
      \/ \E request \in Requests[ops] :
           (request.via = "relation" /\ ExecuteNestedWrites(request)) \/ (request.via # "relation" /\ Execute(request))
      \/ Executed
  BY DEF CompilerNext, Operators3
<1> QED
  BY <1>1, <1>2, <1>3, <1>4, <1>5, <1>6, <1>7, <1>8

\* So does a step that changes nothing.
LEMMA CompilerStutters ==
  ASSUME CompilerInv, UNCHANGED compilerVars
  PROVE  CompilerInv'
<1>1. ops' = ops /\ query' = query /\ compiled' = compiled
  BY DEF compilerVars
<1>2. Means(query)' = Means(query)
  BY <1>1, MeansStays
<1>3. FilterOf(query)' = FilterOf(query) /\ ConditionsOf(query)' = ConditionsOf(query)
  BY <1>1 DEF FilterOf, ConditionsOf
<1>4. Op' = Op /\ Dialect' = Dialect /\ (Compiled' <=> Compiled)
  BY <1>1 DEF Op, Dialect, Compiled
<1> HIDE DEF FilterOf, ConditionsOf
<1>5. /\ KnownRefusal' <=> KnownRefusal
      /\ Miscompiled' <=> Miscompiled
      /\ RowsAsAsked' <=> RowsAsAsked
      /\ ChildrenAsAsked' <=> ChildrenAsAsked
  BY <1>1, <1>2, <1>3, <1>4 DEF KnownRefusal, Miscompiled, RowsAsAsked, ChildrenAsAsked
<1>6. CompiledAsAsked' <=> CompiledAsAsked
  BY <1>1, <1>4, <1>5 DEF CompiledAsAsked
<1> QED
  BY <1>1, <1>6 DEF CompilerInv

\* The invariant holds at the start.
LEMMA CompilerStart ==
  CompilerInit => CompilerInv
<1> SUFFICES ASSUME CompilerInit PROVE CompilerInv
  OBVIOUS
<1>1. ops \in Operators /\ query = NewQueryBuilder /\ compiled = NotSent
  BY DEF CompilerInit
<1>2. Len(ops) \in Nat
  BY <1>1, LeftOver
<1>3. CompiledAsAsked
  BY <1>1 DEF CompiledAsAsked, Compiled
<1> QED
  BY <1>1, <1>2, <1>3, FreshQuery DEF CompilerInv

\* Whatever query a program builds, for whatever operators, requests and number of options:
\* what CompileSelect, CompileUpdate, CompileNestedWrites and the others make of it is, if
\* there is no error and apart from what KnownRefusal and Miscompiled name, accepted by the
\* database, binds every placeholder to its value, and leaves the rows or the children that
\* the filter means.
THEOREM CompiledRight ==
  LibrarySpec => []CompiledAsAsked
<1>1. LibraryInit => CompilerInv
  BY CompilerStart DEF LibraryInit
<1>2. CompilerInv /\ [LibraryNext]_libraryVars => CompilerInv'
  <2> SUFFICES ASSUME CompilerInv, [LibraryNext]_libraryVars PROVE CompilerInv'
    OBVIOUS
  <2>1. CompilerNext \/ UNCHANGED compilerVars
    BY DEF LibraryNext, libraryVars
  <2> QED
    BY <2>1, CompilerStep, CompilerStutters
<1>3. CompilerInv => CompiledAsAsked
  BY DEF CompilerInv
<1> QED
  BY <1>1, <1>2, <1>3, PTL DEF LibrarySpec
=============================================================================
