--------------------------- MODULE ItineraryProofs ---------------------------
(***************************************************************************)
(* Theorems of Itinerary, for any requests, worlds and renderings.         *)
(***************************************************************************)
EXTENDS Itinerary, FiniteSetTheorems, SequenceTheorems, WellFoundedInduction, TLAPS

-----------------------------------------------------------------------------
(* The best of finitely many.                                              *)

LEMMA LeastOfWellFounded ==
  ASSUME NEW R, IsWellFoundedOn(R, Nat), \A x, y \in Nat : y < x => <<y, x>> \in R,
         NEW S, S \subseteq Nat, S # {}
  PROVE  \E x \in S : \A y \in S : x <= y
<1>1. PICK x \in S : \A y \in S : ~ (<<y, x>> \in R)
  BY WFMin
<1>2. \A y \in S : ~ (y < x)
  BY <1>1
<1>3. \A y \in S : x <= y
  BY <1>2
<1> QED BY <1>3

LEMMA HasLeast ==
  ASSUME NEW S, S \subseteq Nat, S # {}
  PROVE  \E x \in S : \A y \in S : x <= y
<1>1. IsWellFoundedOn(OpToRel(<, Nat), Nat)
  BY NatLessThanWellFounded
<1>2. \A x, y \in Nat : y < x => <<y, x>> \in OpToRel(<, Nat)
  BY DEF OpToRel
<1> QED BY <1>1, <1>2, LeastOfWellFounded

\* A transitive and total R on the elements of S.
Orders(R, S) ==
  /\ \A x, y \in S : <<x, y>> \in R \/ <<y, x>> \in R
  /\ \A x, y, z \in S : <<x, y>> \in R /\ <<y, z>> \in R => <<x, z>> \in R

IsBest(x, R, S) == x \in S /\ \A y \in S : <<x, y>> \in R

\* A finite set has a best element: a smallest one that had none would lose
\* an element and still have none.
LEMMA HasBest ==
  ASSUME NEW S, IsFiniteSet(S), S # {}, NEW R, Orders(R, S)
  PROVE  \E x : IsBest(x, R, S)
<1> SUFFICES ASSUME ~ \E x : IsBest(x, R, S)
             PROVE  FALSE
  OBVIOUS
<1> DEFINE Bad == {T \in SUBSET S : T # {} /\ ~ \E x : IsBest(x, R, T)}
           Sizes == {n \in Nat : \E T \in Bad : Cardinality(T) = n}
<1>1. \A T \in SUBSET S : IsFiniteSet(T) /\ Cardinality(T) \in Nat
  BY FS_Subset, FS_CardinalityType
<1>2. Sizes # {}
  <2>1. S \in Bad
    OBVIOUS
  <2> QED BY <1>1, <2>1
<1>3. PICK n \in Sizes : \A m \in Sizes : n <= m
  <2>1. Sizes \subseteq Nat
    OBVIOUS
  <2> HIDE DEF Sizes
  <2> QED BY <1>2, <2>1, HasLeast
<1>4. PICK T \in Bad : Cardinality(T) = n
  BY <1>3
<1>5. PICK x \in T : TRUE
  BY <1>4
<1> DEFINE U == T \ {x}
<1>6. U \in SUBSET S /\ T \in SUBSET S /\ x \in S
  BY <1>4, <1>5
<1>7. Cardinality(U) = n - 1 /\ Cardinality(U) \in Nat /\ n \in Nat
  BY <1>1, <1>4, <1>5, <1>6, FS_RemoveElement
<1>8. U \notin Bad
  BY <1>3, <1>7
<1>9. <<x, x>> \in R
  BY <1>6 DEF Orders
<1>10. U # {}
  <2> SUFFICES ASSUME U = {}
               PROVE  FALSE
    OBVIOUS
  <2>1. IsBest(x, R, T)
    BY <1>5, <1>9 DEF IsBest
  <2> QED BY <2>1, <1>4
<1>11. PICK y : IsBest(y, R, U)
  BY <1>6, <1>8, <1>10
<1>12. y \in S
  BY <1>6, <1>11 DEF IsBest
<1>13. CASE <<x, y>> \in R
  <2>1. IsBest(x, R, T)
    <3> SUFFICES ASSUME NEW z \in T PROVE <<x, z>> \in R
      BY <1>5 DEF IsBest
    <3>1. CASE z = x
      BY <3>1, <1>9
    <3>2. CASE z # x
      <4>1. <<y, z>> \in R /\ z \in S
        BY <3>2, <1>6, <1>11 DEF IsBest
      <4> QED BY <4>1, <1>6, <1>12, <1>13 DEF Orders
    <3> QED BY <3>1, <3>2
  <2> QED BY <2>1, <1>4
<1>14. CASE <<y, x>> \in R
  <2>1. IsBest(y, R, T)
    BY <1>5, <1>11, <1>14 DEF IsBest
  <2> QED BY <2>1, <1>4
<1> QED BY <1>6, <1>12, <1>13, <1>14 DEF Orders

\* Max and Min of finitely many numbers.
LEMMA FiniteMaxMin ==
  ASSUME NEW S \in SUBSET Int, IsFiniteSet(S), S # {}
  PROVE  /\ Max(S) \in S /\ \A x \in S : x <= Max(S)
         /\ Min(S) \in S /\ \A x \in S : Min(S) <= x
<1> DEFINE Up == {p \in S \X S : p[1] >= p[2]}
           Down == {p \in S \X S : p[1] <= p[2]}
<1>1. Orders(Up, S) /\ Orders(Down, S)
  BY DEF Orders
<1>2. PICK x : IsBest(x, Up, S)
  BY <1>1, HasBest
<1>3. PICK y : IsBest(y, Down, S)
  BY <1>1, HasBest
<1>4. x \in S /\ \A z \in S : x >= z
  BY <1>2 DEF IsBest
<1>5. y \in S /\ \A z \in S : y <= z
  BY <1>3 DEF IsBest
<1>6. Max(S) \in S /\ \A z \in S : Max(S) >= z
  BY <1>4 DEF Max
<1>7. Min(S) \in S /\ \A z \in S : Min(S) <= z
  BY <1>5 DEF Min
<1> QED BY <1>6, <1>7

LEMMA MaxOfTwo ==
  ASSUME NEW a \in Int, NEW b \in Int
  PROVE  /\ Max({a, b}) = IF a >= b THEN a ELSE b
         /\ Min({a, b}) = IF a <= b THEN a ELSE b
<1>1. {a, b} \in SUBSET Int /\ IsFiniteSet({a, b}) /\ {a, b} # {}
  <2>1. IsFiniteSet({a} \cup {b})
    BY FS_Singleton, FS_AddElement
  <2>2. {a} \cup {b} = {a, b}
    OBVIOUS
  <2> QED BY <2>1, <2>2
<1>2. /\ Max({a, b}) \in {a, b} /\ \A x \in {a, b} : x <= Max({a, b})
      /\ Min({a, b}) \in {a, b} /\ \A x \in {a, b} : Min({a, b}) <= x
  BY <1>1, FiniteMaxMin
<1> QED BY <1>2

-----------------------------------------------------------------------------
(* Folds and prefixes.                                                     *)

\* Induction up to n.
LEMMA UpTo ==
  ASSUME NEW n \in Nat, NEW S, 0 \in S, \A k \in 0..n - 1 : k \in S => k + 1 \in S
  PROVE  \A k \in 0..n : k \in S
<1> DEFINE Bad == {k \in 0..n : k \notin S}
<1> SUFFICES ASSUME Bad # {} PROVE FALSE
  OBVIOUS
<1>1. PICK k \in Bad : \A j \in Bad : k <= j
  <2>1. Bad \subseteq Nat
    OBVIOUS
  <2> HIDE DEF Bad
  <2> QED BY <2>1, HasLeast
<1>2. k \in 0..n /\ k \notin S
  BY <1>1
<1>3. k - 1 \in 0..n - 1 /\ k - 1 \in 0..n /\ ~ (k <= k - 1) /\ (k - 1) + 1 = k
  BY <1>2
<1>4. k - 1 \in S
  BY <1>1, <1>3
<1> QED BY <1>2, <1>3, <1>4

\* Values that are made from one another by F, first to last.
Makes(f, F, base, n) == f[0] = base /\ \A k \in 1..n : f[k] = F[k][f[k - 1]]

LEMMA PrefixExists ==
  ASSUME NEW V, NEW base \in V, NEW n \in Nat, NEW F \in [1..n -> [V -> V]]
  PROVE  \E f \in [0..n -> V] : Makes(f, F, base, n)
<1> DEFINE Upto(m) == \E f \in [0..m -> V] : Makes(f, F, base, m)
           S == {m \in 0..n : Upto(m)}
<1>1. Upto(0)
  <2> DEFINE f == [k \in 0..0 |-> base]
  <2>1. f \in [0..0 -> V] /\ Makes(f, F, base, 0)
    BY DEF Makes
  <2> HIDE DEF f
  <2> QED BY <2>1
<1>2. ASSUME NEW m \in 0..n - 1, Upto(m) PROVE Upto(m + 1)
  <2>1. PICK f \in [0..m -> V] : Makes(f, F, base, m)
    BY <1>2
  <2> DEFINE h == [k \in 0..m + 1 |-> IF k <= m THEN f[k] ELSE F[m + 1][f[m]]]
  <2>2. F[m + 1][f[m]] \in V
    OBVIOUS
  <2>3. h \in [0..m + 1 -> V]
    BY <2>2
  <2>4. h[0] = base
    BY <2>1 DEF Makes
  <2>5. ASSUME NEW k \in 1..m + 1 PROVE h[k] = F[k][h[k - 1]]
    <3>1. k - 1 \in 0..m /\ k - 1 \in 0..m + 1 /\ h[k - 1] = f[k - 1]
      OBVIOUS
    <3>2. CASE k <= m
      BY <2>1, <3>1, <3>2 DEF Makes
    <3>3. CASE k = m + 1
      BY <3>1, <3>3
    <3> QED BY <3>2, <3>3
  <2> HIDE DEF h
  <2> QED BY <2>3, <2>4, <2>5 DEF Makes
<1> HIDE DEF Upto
<1>3. \A k \in 0..n : k \in S
  <2>1. 0 \in S /\ \A k \in 0..n - 1 : k \in S => k + 1 \in S
    BY <1>1, <1>2
  <2> HIDE DEF S
  <2> QED BY <2>1, UpTo
<1>4. n \in 0..n
  OBVIOUS
<1>5. Upto(n)
  BY <1>3, <1>4
<1> QED BY <1>5 DEF Upto

LEMMA LastOf ==
  ASSUME NEW k \in Nat, NEW t \in SUBSET (1..k), t # {}
  PROVE  /\ Max(t) \in t /\ \A i \in t : i <= Max(t)
         /\ t \ {Max(t)} \in SUBSET (1..Max(t) - 1)
<1>1. IsFiniteSet(t) /\ t \in SUBSET Int
  <2>1. IsFiniteSet(1..k)
    BY FS_Interval
  <2>2. IsFiniteSet(t)
    BY <2>1, FS_Subset
  <2> QED BY <2>2
<1>2. Max(t) \in t /\ \A i \in t : i <= Max(t)
  BY <1>1, FiniteMaxMin
<1>3. Max(t) \in 1..k
  BY <1>2
<1>4. ASSUME NEW i \in t, i # Max(t) PROVE i \in 1..Max(t) - 1
  <2>1. i \in 1..k /\ i <= Max(t)
    BY <1>2
  <2> QED BY <1>3, <1>4, <2>1
<1> QED BY <1>2, <1>4

Folds(g, D, F, base) ==
  g = [t \in D |-> IF t = {} THEN base ELSE F[Max(t)][g[t \ {Max(t)}]]]

LEMMA FoldExists ==
  ASSUME NEW V, NEW base \in V, NEW n \in Nat, NEW F \in [1..n -> [V -> V]]
  PROVE  \E g \in [SUBSET (1..n) -> V] : Folds(g, SUBSET (1..n), F, base)
<1> DEFINE Upto(m) == \E g \in [SUBSET (1..m) -> V] : Folds(g, SUBSET (1..m), F, base)
           S == {m \in 0..n : Upto(m)}
<1>1. Upto(0)
  <2>1. SUBSET (1..0) = {{}}
    OBVIOUS
  <2> DEFINE g == [t \in SUBSET (1..0) |-> base]
  <2>2. g \in [SUBSET (1..0) -> V]
    OBVIOUS
  <2>3. Folds(g, SUBSET (1..0), F, base)
    BY <2>1 DEF Folds
  <2> QED BY <2>2, <2>3
<1>2. ASSUME NEW m \in 0..n - 1, Upto(m) PROVE Upto(m + 1)
  <2>1. PICK g \in [SUBSET (1..m) -> V] : Folds(g, SUBSET (1..m), F, base)
    BY <1>2
  <2> DEFINE A == SUBSET (1..m)
             B == SUBSET (1..m + 1)
             h == [t \in B |-> IF t = {} THEN base ELSE F[Max(t)][g[t \ {Max(t)}]]]
  <2>2. ASSUME NEW t \in B, t # {}
        PROVE  t \ {Max(t)} \in A /\ t \ {Max(t)} \in B /\ Max(t) \in 1..n
    <3>1. m + 1 \in Nat
      OBVIOUS
    <3>2. Max(t) \in t /\ t \ {Max(t)} \in SUBSET (1..Max(t) - 1)
      BY <2>2, <3>1, LastOf
    <3>3. Max(t) \in 1..m + 1
      BY <3>2
    <3> QED BY <3>2, <3>3
  <2>3. \A t \in B : h[t] = IF t = {} THEN base ELSE F[Max(t)][g[t \ {Max(t)}]]
    OBVIOUS
  <2>4. \A t \in A : t \in B /\ h[t] = g[t]
    <3>1. \A t \in A : g[t] = IF t = {} THEN base ELSE F[Max(t)][g[t \ {Max(t)}]]
      BY <2>1 DEF Folds
    <3>2. \A t \in A : t \in B
      OBVIOUS
    <3> QED BY <2>3, <3>1, <3>2
  <2>5. h \in [B -> V]
    <3>1. ASSUME NEW t \in B PROVE h[t] \in V
      <4>1. CASE t = {}
        BY <2>3, <4>1
      <4>2. CASE t # {}
        <5>1. t \ {Max(t)} \in A /\ Max(t) \in 1..n
          BY <2>2, <4>2
        <5>2. g[t \ {Max(t)}] \in V
          BY <5>1
        <5>3. F[Max(t)] \in [V -> V]
          BY <5>1
        <5>4. F[Max(t)][g[t \ {Max(t)}]] \in V
          BY <5>2, <5>3
        <5> HIDE DEF h
        <5> QED BY <2>3, <4>2, <5>4
      <4> QED BY <4>1, <4>2
    <3> QED BY <3>1
  <2>6. h = [t \in B |-> h[t]]
    OBVIOUS
  <2> HIDE DEF h
  <2>7. \A t \in B : h[t] = IF t = {} THEN base ELSE F[Max(t)][h[t \ {Max(t)}]]
    BY <2>2, <2>3, <2>4
  <2>8. Folds(h, B, F, base)
    BY <2>6, <2>7 DEF Folds
  <2> QED BY <2>5, <2>8
<1> HIDE DEF Upto
<1>3. \A k \in 0..n : k \in S
  <2>1. 0 \in S /\ \A k \in 0..n - 1 : k \in S => k + 1 \in S
    BY <1>1, <1>2
  <2> HIDE DEF S
  <2> QED BY <2>1, UpTo
<1>4. n \in 0..n
  OBVIOUS
<1>5. Upto(n)
  BY <1>3, <1>4
<1> QED BY <1>5 DEF Upto

\* The values a fold passes through are made from one another.
StepsBy(g, V, n, F) ==
  \A t \in SUBSET (1..n) : t # {} /\ g[t \ {Max(t)}] \in V => g[t] = F[Max(t)][g[t \ {Max(t)}]]

LEMMA FoldRuns ==
  ASSUME NEW V, NEW base \in V, NEW n \in Nat, NEW F \in [1..n -> [V -> V]],
         NEW g, g[{}] = base, StepsBy(g, V, n, F)
  PROVE  \E f \in [0..n -> V] : Makes(f, F, base, n) /\ g[1..n] = f[n]
<1>1. PICK f \in [0..n -> V] : Makes(f, F, base, n)
  BY PrefixExists
<1> DEFINE S == {k \in 0..n : g[1..k] = f[k]}
<1>3. 0 \in S
  <2>1. 1..0 = {} /\ {} \in SUBSET (1..n)
    OBVIOUS
  <2>2. g[1..0] = f[0] /\ 0 \in 0..n
    BY <1>1, <2>1 DEF Makes
  <2> QED BY <2>2
<1>4. ASSUME NEW k \in 0..n - 1, k \in S PROVE k + 1 \in S
  <2> DEFINE t == 1..k + 1
  <2>0. k \in Nat /\ k + 1 <= n
    OBVIOUS
  <2>1. t \in SUBSET (1..n) /\ t # {} /\ t \in SUBSET (1..k + 1) /\ k + 1 \in t
    <3>1. k + 1 \in t /\ t \in SUBSET (1..k + 1)
      BY <2>0
    <3>2. \A i \in 1..k + 1 : i \in 1..n
      BY <2>0
    <3> QED BY <3>1, <3>2
  <2>2. Max(t) \in t /\ \A i \in t : i <= Max(t)
    <3>1. k + 1 \in Nat
      OBVIOUS
    <3> HIDE DEF t
    <3> QED BY <2>1, <3>1, LastOf
  <2>3. Max(t) = k + 1
    <3>1. Max(t) \in 1..k + 1 /\ k + 1 <= Max(t)
      BY <2>1, <2>2
    <3> QED BY <3>1
  <2>4. t \ {k + 1} = 1..k
    OBVIOUS
  <2>5. g[t] = F[k + 1][g[1..k]]
    <3>1. g[1..k] \in V
      BY <1>4, <2>0
    <3> HIDE DEF t
    <3> QED BY <2>1, <2>3, <2>4, <3>1 DEF StepsBy
  <2>6. g[t] = f[k + 1]
    <3>1. k + 1 \in 1..n /\ (k + 1) - 1 = k /\ g[1..k] = f[k]
      BY <1>4
    <3> QED BY <1>1, <2>5, <3>1 DEF Makes
  <2> QED BY <2>6
<1>5. \A k \in 0..n : k \in S
  <2> HIDE DEF S
  <2> QED BY <1>3, <1>4, UpTo
<1>6. n \in 0..n
  OBVIOUS
<1>7. g[1..n] = f[n]
  BY <1>5, <1>6
<1> QED BY <1>1, <1>7

-----------------------------------------------------------------------------
(* Total.                                                                  *)

\* t is what the first elements of s add up to, for any number of them.
Sums(t, s, n) ==
  /\ t \in [0..n -> Int] /\ t[0] = 0
  /\ \A k \in 1..n : t[k] = t[k - 1] + s[k]

AddsUp(g, D, s) == g = [t \in D |-> IF t = {} THEN 0 ELSE g[t \ {Max(t)}] + s[Max(t)]]

LEMMA TotalUnfolds ==
  ASSUME NEW s
  PROVE  Total(s) = (CHOOSE g : AddsUp(g, SUBSET DOMAIN s, s))[DOMAIN s]
BY DEF Total, FoldLeft, MapThenFoldSet, AddsUp

LEMMA SumRuns ==
  ASSUME NEW n \in Nat, NEW s \in [1..n -> Int]
  PROVE  \E t : Sums(t, s, n) /\ Total(s) = t[n]
<1> DEFINE F == [i \in 1..n |-> [v \in Int |-> v + s[i]]]
           D == SUBSET (1..n)
<1>1. F \in [1..n -> [Int -> Int]]
  OBVIOUS
<1>2. \A k \in 1..n : \A v \in Int : F[k][v] = v + s[k]
  OBVIOUS
<1> HIDE DEF F
<1>3. \E g : AddsUp(g, D, s)
  <2>0. \A V : \A base \in V : F \in [1..n -> [V -> V]] =>
           \E g \in [SUBSET (1..n) -> V] : Folds(g, SUBSET (1..n), F, base)
    BY FoldExists
  <2>1. PICK g \in [D -> Int] : Folds(g, D, F, 0)
    <3>1. 0 \in Int
      OBVIOUS
    <3> QED BY <1>1, <2>0, <3>1, Zenon
  <2>2. ASSUME NEW u \in D
        PROVE  g[u] = IF u = {} THEN 0 ELSE g[u \ {Max(u)}] + s[Max(u)]
    <3>1. g[u] = IF u = {} THEN 0 ELSE F[Max(u)][g[u \ {Max(u)}]]
      BY <2>1 DEF Folds
    <3>2. u # {} => u \ {Max(u)} \in D /\ Max(u) \in 1..n
      BY LastOf
    <3> QED BY <1>2, <2>1, <3>1, <3>2
  <2>3. g = [u \in D |-> g[u]]
    BY <2>1
  <2>4. AddsUp(g, D, s)
    BY <2>2, <2>3 DEF AddsUp
  <2> QED BY <2>4
<1> DEFINE g == CHOOSE h : AddsUp(h, D, s)
<1>4. AddsUp(g, D, s)
  BY <1>3
<1>5. Total(s) = g[1..n]
  <2>1. DOMAIN s = 1..n
    OBVIOUS
  <2> QED BY <2>1, TotalUnfolds
<1> HIDE DEF g
<1>6. \A u \in D : g[u] = IF u = {} THEN 0 ELSE g[u \ {Max(u)}] + s[Max(u)]
  BY <1>4 DEF AddsUp
<1>7. g[{}] = 0
  <2>1. {} \in D
    OBVIOUS
  <2> QED BY <1>6, <2>1, Zenon
<1>8. ASSUME NEW u \in D, u # {}, g[u \ {Max(u)}] \in Int
      PROVE  g[u] = F[Max(u)][g[u \ {Max(u)}]]
  <2>1. Max(u) \in 1..n
    BY <1>8, LastOf
  <2>2. g[u] = g[u \ {Max(u)}] + s[Max(u)]
    BY <1>6, <1>8
  <2> QED BY <1>2, <1>8, <2>1, <2>2
<1>9. PICK t \in [0..n -> Int] : Makes(t, F, 0, n) /\ g[1..n] = t[n]
  <2> DEFINE V == Int
  <2>0. StepsBy(g, Int, n, F)
    <3> HIDE DEF V
    <3> QED BY <1>8 DEF StepsBy
  <2>1. 0 \in V /\ F \in [1..n -> [V -> V]] /\ StepsBy(g, V, n, F)
    BY <1>1, <2>0
  <2> HIDE DEF V
  <2>2. \E t \in [0..n -> V] : Makes(t, F, 0, n) /\ g[1..n] = t[n]
    BY <1>7, <2>1, FoldRuns
  <2> QED BY <2>2 DEF V
<1>10. Sums(t, s, n)
  <2>1. ASSUME NEW k \in 1..n PROVE t[k] = t[k - 1] + s[k]
    <3>1. t[k - 1] \in Int
      OBVIOUS
    <3> QED BY <1>2, <1>9, <3>1 DEF Makes
  <2> QED BY <1>9, <2>1 DEF Sums, Makes
<1> QED BY <1>5, <1>9, <1>10

LEMMA SumsAgree ==
  ASSUME NEW n \in Nat, NEW m \in 0..n, NEW s, NEW u, NEW t, NEW v, Sums(t, s, n), Sums(v, u, m),
         \A k \in 1..m : s[k] = u[k]
  PROVE  t[m] = v[m]
<1> DEFINE S == {k \in 0..m : t[k] = v[k]}
<1>1. 0 \in S
  BY DEF Sums
<1>2. ASSUME NEW k \in 0..m - 1, k \in S PROVE k + 1 \in S
  <2>1. k + 1 \in 1..m /\ k + 1 \in 1..n /\ k + 1 \in 0..m /\ (k + 1) - 1 = k /\ t[k] = v[k]
    BY <1>2
  <2>2. t[k + 1] = t[(k + 1) - 1] + s[k + 1] /\ v[k + 1] = v[(k + 1) - 1] + u[k + 1]
    BY <2>1 DEF Sums
  <2>3. t[k + 1] = v[k + 1]
    BY <2>1, <2>2
  <2> QED BY <2>1, <2>3
<1>3. m \in Nat /\ m \in 0..m
  OBVIOUS
<1>4. \A k \in 0..m : k \in S
  <2> HIDE DEF S
  <2> QED BY <1>1, <1>2, <1>3, UpTo
<1> QED BY <1>3, <1>4

\* To know a total is to know what the elements add up to one by one.
LEMMA TotalIs ==
  ASSUME NEW n \in Nat, NEW s \in [1..n -> Int], NEW t, Sums(t, s, n)
  PROVE  Total(s) = t[n]
<1>1. PICK v : Sums(v, s, n) /\ Total(s) = v[n]
  BY SumRuns
<1>2. v[n] = t[n]
  <2>1. n \in 0..n
    OBVIOUS
  <2> QED BY <1>1, <2>1, SumsAgree
<1> QED BY <1>1, <1>2

LEMMA TotalIsInt ==
  ASSUME NEW n \in Nat, NEW s \in [1..n -> Int]
  PROVE  Total(s) \in Int
<1>1. PICK t : Sums(t, s, n) /\ Total(s) = t[n]
  BY SumRuns
<1> QED BY <1>1 DEF Sums

LEMMA TotalOfSum ==
  ASSUME NEW n \in Nat, NEW s \in [1..n -> Int], NEW u \in [1..n -> Int]
  PROVE  Total([i \in 1..n |-> s[i] + u[i]]) = Total(s) + Total(u)
<1> DEFINE both == [i \in 1..n |-> s[i] + u[i]]
<1>1. PICK t : Sums(t, s, n) /\ Total(s) = t[n]
  BY SumRuns
<1>2. PICK v : Sums(v, u, n) /\ Total(u) = v[n]
  BY SumRuns
<1> DEFINE w == [k \in 0..n |-> t[k] + v[k]]
<1>3. \A k \in 0..n : t[k] \in Int /\ v[k] \in Int
  BY <1>1, <1>2 DEF Sums
<1>4. Sums(w, both, n)
  <2>1. w \in [0..n -> Int] /\ w[0] = 0
    BY <1>1, <1>2, <1>3 DEF Sums
  <2>2. ASSUME NEW k \in 1..n PROVE w[k] = w[k - 1] + both[k]
    <3>1. k - 1 \in 0..n /\ k \in 0..n
      OBVIOUS
    <3>2. t[k] = t[k - 1] + s[k] /\ v[k] = v[k - 1] + u[k]
      BY <1>1, <1>2 DEF Sums
    <3>3. t[k - 1] \in Int /\ v[k - 1] \in Int /\ s[k] \in Int /\ u[k] \in Int
      BY <1>3, <3>1
    <3>4. t[k] + v[k] = (t[k - 1] + v[k - 1]) + (s[k] + u[k])
      BY <3>2, <3>3
    <3> QED BY <3>1, <3>4
  <2> HIDE DEF w, both
  <2> QED BY <2>1, <2>2 DEF Sums
<1>5. both \in [1..n -> Int]
  OBVIOUS
<1>6. w[n] = t[n] + v[n]
  OBVIOUS
<1> HIDE DEF w
<1>7. Total(both) = w[n]
  <2> HIDE DEF both
  <2> QED BY <1>4, <1>5, TotalIs
<1> QED BY <1>1, <1>2, <1>6, <1>7

LEMMA TotalOfNaturals ==
  ASSUME NEW n \in Nat, NEW s \in [1..n -> Nat]
  PROVE  /\ Total(s) \in Nat
         /\ \A k \in 1..n : s[k] <= Total(s)
<1>0. s \in [1..n -> Int]
  OBVIOUS
<1>1. PICK t : Sums(t, s, n) /\ Total(s) = t[n]
  BY <1>0, SumRuns
<1> DEFINE S == {k \in 0..n : t[k] \in Nat /\ \A j \in 1..k : s[j] <= t[k]}
<1>2. 0 \in S
  BY <1>1 DEF Sums
<1>3. ASSUME NEW k \in 0..n - 1, k \in S PROVE k + 1 \in S
  <2>1. k + 1 \in 1..n /\ k + 1 \in 0..n /\ (k + 1) - 1 = k /\ t[k] \in Nat
        /\ \A j \in 1..k : s[j] <= t[k]
    BY <1>3
  <2>2. t[k + 1] = t[k] + s[k + 1] /\ s[k + 1] \in Nat
    BY <1>1, <2>1 DEF Sums
  <2>3. t[k + 1] \in Nat /\ t[k] <= t[k + 1] /\ s[k + 1] <= t[k + 1]
    BY <2>1, <2>2
  <2>4. ASSUME NEW j \in 1..k + 1 PROVE s[j] <= t[k + 1]
    <3>1. CASE j = k + 1
      BY <2>3, <3>1
    <3>2. CASE j \in 1..k
      <4>1. s[j] <= t[k] /\ s[j] \in Nat
        BY <2>1, <3>2
      <4> QED BY <2>1, <2>3, <4>1
    <3> QED BY <3>1, <3>2
  <2> QED BY <2>1, <2>3, <2>4
<1>4. \A k \in 0..n : k \in S
  <2> HIDE DEF S
  <2> QED BY <1>2, <1>3, UpTo
<1>5. n \in 0..n
  OBVIOUS
<1> QED BY <1>1, <1>4, <1>5

LEMMA TotalAtMost ==
  ASSUME NEW n \in Nat, NEW s \in [1..n -> Int], NEW u \in [1..n -> Int],
         \A i \in 1..n : s[i] <= u[i]
  PROVE  Total(s) <= Total(u)
<1> DEFINE d == [i \in 1..n |-> u[i] - s[i]]
<1>1. d \in [1..n -> Nat] /\ d \in [1..n -> Int]
  OBVIOUS
<1>2. [i \in 1..n |-> s[i] + d[i]] = u
  OBVIOUS
<1> HIDE DEF d
<1>3. Total(u) = Total(s) + Total(d)
  BY <1>1, <1>2, TotalOfSum
<1>4. Total(d) \in Nat /\ Total(s) \in Int
  BY <1>1, TotalOfNaturals, TotalIsInt
<1> QED BY <1>3, <1>4

LEMMA TotalOfMultiples ==
  ASSUME NEW n \in Nat, NEW s \in [1..n -> Int], NEW c \in Int
  PROVE  Total([i \in 1..n |-> c * s[i]]) = c * Total(s)
<1> DEFINE all == [i \in 1..n |-> c * s[i]]
<1>1. PICK t : Sums(t, s, n) /\ Total(s) = t[n]
  BY SumRuns
<1> DEFINE w == [k \in 0..n |-> c * t[k]]
<1>2. \A k \in 0..n : t[k] \in Int
  BY <1>1 DEF Sums
<1>3. Sums(w, all, n)
  <2>1. w \in [0..n -> Int] /\ w[0] = 0
    BY <1>1, <1>2 DEF Sums
  <2>2. ASSUME NEW k \in 1..n PROVE w[k] = w[k - 1] + all[k]
    <3>1. k - 1 \in 0..n /\ k \in 0..n
      OBVIOUS
    <3>2. t[k] = t[k - 1] + s[k]
      BY <1>1 DEF Sums
    <3>3. t[k - 1] \in Int /\ s[k] \in Int
      BY <1>2, <3>1
    <3>4. \A a, b \in Int : c * (a + b) = c * a + c * b
      OBVIOUS
    <3>5. c * t[k] = c * t[k - 1] + c * s[k]
      BY <3>2, <3>3, <3>4
    <3> QED BY <3>1, <3>5
  <2> HIDE DEF w, all
  <2> QED BY <2>1, <2>2 DEF Sums
<1>4. all \in [1..n -> Int]
  OBVIOUS
<1>5. w[n] = c * t[n]
  OBVIOUS
<1> HIDE DEF w
<1>6. Total(all) = w[n]
  <2> HIDE DEF all
  <2> QED BY <1>3, <1>4, TotalIs
<1> QED BY <1>1, <1>5, <1>6

LEMMA TotalOfSame ==
  ASSUME NEW n \in Nat, NEW c \in Int
  PROVE  Total([i \in 1..n |-> c]) = n * c
<1> DEFINE s == [i \in 1..n |-> c]
           w == [k \in 0..n |-> k * c]
<1>1. Sums(w, s, n)
  <2>1. w \in [0..n -> Int] /\ w[0] = 0
    OBVIOUS
  <2>2. ASSUME NEW k \in 1..n PROVE w[k] = w[k - 1] + s[k]
    <3>1. k - 1 \in 0..n /\ k \in 0..n /\ k - 1 \in Int
      OBVIOUS
    <3>2. \A a \in Int : (a + 1) * c = a * c + c
      OBVIOUS
    <3>3. k * c = (k - 1) * c + c
      <4>1. (k - 1) + 1 = k
        OBVIOUS
      <4> QED BY <3>1, <3>2, <4>1
    <3> QED BY <3>1, <3>3
  <2> HIDE DEF w, s
  <2> QED BY <2>1, <2>2 DEF Sums
<1>2. s \in [1..n -> Int] /\ w[n] = n * c
  OBVIOUS
<1> HIDE DEF w, s
<1>3. Total(s) = w[n]
  BY <1>1, <1>2, TotalIs
<1> QED BY <1>2, <1>3 DEF s

\* As many ones as there are elements of K.
Bits(K, n) == [i \in 1..n |-> IF i \in K THEN 1 ELSE 0]

LEMMA TotalOfBits ==
  ASSUME NEW n \in Nat, NEW K \in SUBSET (1..n)
  PROVE  Total(Bits(K, n)) = Cardinality(K)
<1> DEFINE w == [k \in 0..n |-> Cardinality(K \cap (1..k))]
<1>1. \A k \in 0..n : IsFiniteSet(K \cap (1..k)) /\ Cardinality(K \cap (1..k)) \in Nat
  <2> SUFFICES ASSUME NEW k \in 0..n
               PROVE  IsFiniteSet(K \cap (1..k)) /\ Cardinality(K \cap (1..k)) \in Nat
    OBVIOUS
  <2>1. IsFiniteSet(1..k)
    BY FS_Interval
  <2>2. IsFiniteSet(K \cap (1..k))
    BY <2>1, FS_Intersection
  <2> QED BY <2>2, FS_CardinalityType
<1>2. Sums(w, Bits(K, n), n)
  <2>1. w \in [0..n -> Int]
    BY <1>1
  <2>2. w[0] = 0
    <3>1. K \cap (1..0) = {} /\ 0 \in 0..n
      OBVIOUS
    <3> QED BY <3>1, FS_EmptySet
  <2>3. ASSUME NEW k \in 1..n PROVE w[k] = w[k - 1] + Bits(K, n)[k]
    <3>1. k - 1 \in 0..n /\ k \in 0..n
      OBVIOUS
    <3> DEFINE before == K \cap (1..k - 1)
    <3>2. IsFiniteSet(before) /\ Cardinality(before) \in Nat /\ k \notin before
      BY <1>1, <3>1
    <3>3. CASE k \in K
      <4>1. K \cap (1..k) = before \cup {k}
        BY <3>3
      <4>2. Cardinality(before \cup {k}) = Cardinality(before) + 1
        <5> HIDE DEF before
        <5> QED BY <3>2, FS_AddElement
      <4> QED BY <3>1, <3>3, <4>1, <4>2 DEF Bits
    <3>4. CASE k \notin K
      <4>1. \A i \in 1..k : i \in K => i \in 1..k - 1
        BY <3>4
      <4>2. K \cap (1..k) = before
        BY <4>1
      <4> QED BY <3>1, <3>2, <3>4, <4>2 DEF Bits
    <3> QED BY <3>3, <3>4
  <2> HIDE DEF w
  <2> QED BY <2>1, <2>2, <2>3 DEF Sums
<1>3. Bits(K, n) \in [1..n -> Int]
  BY DEF Bits
<1>4. w[n] = Cardinality(K)
  <2>1. K \cap (1..n) = K
    OBVIOUS
  <2>2. n \in 0..n
    OBVIOUS
  <2> QED BY <2>1, <2>2
<1> HIDE DEF w
<1>5. Total(Bits(K, n)) = w[n]
  BY <1>2, <1>3, TotalIs
<1> QED BY <1>4, <1>5

\* One element only counts.
LEMMA TotalOfOne ==
  ASSUME NEW n \in Nat, NEW s \in [1..n -> Int], NEW k \in 1..n,
         \A i \in 1..n : i # k => s[i] = 0
  PROVE  Total(s) = s[k]
<1> DEFINE w == [j \in 0..n |-> IF j < k THEN 0 ELSE s[k]]
<1>1. Sums(w, s, n)
  <2>1. w \in [0..n -> Int] /\ w[0] = 0
    OBVIOUS
  <2>2. ASSUME NEW j \in 1..n PROVE w[j] = w[j - 1] + s[j]
    <3>1. j - 1 \in 0..n /\ j \in 0..n
      OBVIOUS
    <3>2. CASE j < k
      <4>1. j # k /\ j - 1 < k
        BY <3>2
      <4> QED BY <3>1, <3>2, <4>1
    <3>3. CASE j = k
      BY <3>1, <3>3
    <3>4. CASE j > k
      <4>1. j # k /\ ~ (j - 1 < k) /\ ~ (j < k)
        BY <3>4
      <4> QED BY <3>1, <4>1
    <3> QED BY <3>2, <3>3, <3>4
  <2> HIDE DEF w
  <2> QED BY <2>1, <2>2 DEF Sums
<1>2. w[n] = s[k]
  <2>1. n \in 0..n /\ ~ (n < k)
    OBVIOUS
  <2> QED BY <2>1
<1> HIDE DEF w
<1> QED BY <1>1, <1>2, TotalIs

\* What the first elements of a sequence add up to.
LEMMA TotalOfFirst ==
  ASSUME NEW n \in Nat, NEW s \in [1..n -> Int], NEW t, Sums(t, s, n), NEW k \in 0..n
  PROVE  Total(SubSeq(s, 1, k)) = t[k]
<1> DEFINE u == SubSeq(s, 1, k)
<1>1. k \in Nat /\ k \in Int
  OBVIOUS
<1>2. u \in [1..k -> Int] /\ \A i \in 1..k : u[i] = s[i]
  <2>1. \A i \in 1..k : s[i] \in Int
    OBVIOUS
  <2>2. /\ u \in Seq(Int) /\ Len(u) = IF 1 <= k THEN k - 1 + 1 ELSE 0
        /\ \A i \in 1..k - 1 + 1 : u[i] = s[1 + i - 1]
    <3>1. 1 \in Int
      OBVIOUS
    <3> HIDE DEF u
    <3> QED BY <1>1, <2>1, <3>1, SubSeqProperties DEF u
  <2> HIDE DEF u
  <2>3. Len(u) = k
    BY <1>1, <2>2
  <2>4. u \in [1..k -> Int]
    BY <2>2, <2>3, LenProperties
  <2>5. \A i \in 1..k : i \in 1..k - 1 + 1 /\ 1 + i - 1 = i
    BY <1>1
  <2> QED BY <2>2, <2>4, <2>5
<1> HIDE DEF u
<1>3. PICK v : Sums(v, u, k) /\ Total(u) = v[k]
  BY <1>1, <1>2, SumRuns
<1>4. t[k] = v[k]
  <2>1. \A i \in 1..k : s[i] = u[i]
    BY <1>2
  <2> QED BY <1>3, <2>1, SumsAgree
<1> QED BY <1>3, <1>4 DEF u

\* An element more.
LEMMA TotalOfAppend ==
  ASSUME NEW n \in Nat, NEW s \in [1..n -> Int], NEW u \in [1..n + 1 -> Int],
         \A i \in 1..n : u[i] = s[i]
  PROVE  Total(u) = Total(s) + u[n + 1]
<1>1. PICK t : Sums(t, s, n) /\ Total(s) = t[n]
  BY SumRuns
<1>2. n + 1 \in Nat
  OBVIOUS
<1>3. PICK v : Sums(v, u, n + 1) /\ Total(u) = v[n + 1]
  BY <1>2, SumRuns
<1>4. v[n] = t[n]
  <2>1. n \in 0..n + 1 /\ \A i \in 1..n : u[i] = s[i]
    OBVIOUS
  <2> QED BY <1>1, <1>2, <1>3, <2>1, SumsAgree
<1>5. n + 1 \in 1..n + 1 /\ (n + 1) - 1 = n
  OBVIOUS
<1>6. v[n + 1] = v[n] + u[n + 1]
  BY <1>3, <1>5 DEF Sums
<1> QED BY <1>1, <1>3, <1>4, <1>6

-----------------------------------------------------------------------------
(* Sequences some elements of which are kept.                              *)

Selects(g, D, at, s, K) ==
  g = [t \in D |-> IF t = {} THEN <<>>
                   ELSE IF at[Max(t)] \in K THEN Append(g[t \ {Max(t)}], s[at[Max(t)]])
                                            ELSE g[t \ {Max(t)}]]

LEMMA KeptUnfolds ==
  ASSUME NEW s, NEW K
  PROVE  LET at == [i \in DOMAIN s |-> i]
         IN  Kept(s, K) = (CHOOSE g : Selects(g, SUBSET DOMAIN at, at, s, K))[DOMAIN at]
BY DEF Kept, FoldLeftDomain, FoldLeft, MapThenFoldSet, Selects

\* f is what has been kept of the first elements of s, for any number of them.
Keeps(f, n, E, s, K) ==
  /\ f \in [0..n -> Seq(E)] /\ f[0] = <<>>
  /\ \A k \in 1..n : f[k] = IF k \in K THEN Append(f[k - 1], s[k]) ELSE f[k - 1]

LEMMA KeptRuns ==
  ASSUME NEW n \in Nat, NEW E, NEW s \in [1..n -> E], NEW K \in SUBSET (1..n)
  PROVE  \E f : Keeps(f, n, E, s, K) /\ Kept(s, K) = f[n]
<1> DEFINE V == Seq(E)
           D == SUBSET (1..n)
           at == [i \in DOMAIN s |-> i]
           F == [i \in 1..n |-> [v \in V |-> IF i \in K THEN Append(v, s[i]) ELSE v]]
<1>0. DOMAIN s = 1..n /\ DOMAIN at = 1..n /\ \A i \in 1..n : at[i] = i
  OBVIOUS
<1>1. F \in [1..n -> [V -> V]]
  <2>1. ASSUME NEW i \in 1..n, NEW v \in V PROVE Append(v, s[i]) \in V
    BY AppendProperties
  <2> QED BY <2>1
<1>2. \A k \in 1..n : \A v \in V : F[k][v] = IF k \in K THEN Append(v, s[k]) ELSE v
  OBVIOUS
<1>3. <<>> \in V
  OBVIOUS
<1> HIDE DEF F, V, at
<1>4. \E g : Selects(g, D, at, s, K)
  <2>0. \A W : \A base \in W : F \in [1..n -> [W -> W]] =>
           \E g \in [SUBSET (1..n) -> W] : Folds(g, SUBSET (1..n), F, base)
    BY FoldExists
  <2>1. PICK g \in [D -> V] : Folds(g, D, F, <<>>)
    BY <1>1, <1>3, <2>0, Zenon
  <2>2. ASSUME NEW u \in D
        PROVE  g[u] = IF u = {} THEN <<>>
                      ELSE IF at[Max(u)] \in K THEN Append(g[u \ {Max(u)}], s[at[Max(u)]])
                                               ELSE g[u \ {Max(u)}]
    <3>1. g[u] = IF u = {} THEN <<>> ELSE F[Max(u)][g[u \ {Max(u)}]]
      BY <2>1 DEF Folds
    <3>2. u # {} => u \ {Max(u)} \in D /\ Max(u) \in 1..n
      BY LastOf
    <3>3. u # {} => g[u \ {Max(u)}] \in V
      BY <2>1, <3>2
    <3> QED BY <1>0, <1>2, <3>1, <3>2, <3>3
  <2>3. g = [u \in D |-> g[u]]
    BY <2>1
  <2>4. Selects(g, D, at, s, K)
    BY <2>2, <2>3 DEF Selects
  <2> QED BY <2>4
<1> DEFINE g == CHOOSE h : Selects(h, D, at, s, K)
<1>5. Selects(g, D, at, s, K)
  BY <1>4
<1>6. Kept(s, K) = g[1..n]
  <2>1. Kept(s, K) = (CHOOSE h : Selects(h, SUBSET DOMAIN at, at, s, K))[DOMAIN at]
    BY KeptUnfolds DEF at
  <2> QED BY <1>0, <2>1
<1> HIDE DEF g
<1>7. \A u \in D : g[u] = IF u = {} THEN <<>>
                         ELSE IF at[Max(u)] \in K THEN Append(g[u \ {Max(u)}], s[at[Max(u)]])
                                                  ELSE g[u \ {Max(u)}]
  BY <1>5 DEF Selects
<1>8. g[{}] = <<>>
  <2>1. {} \in D
    OBVIOUS
  <2> QED BY <1>7, <2>1, Zenon
<1>9. StepsBy(g, V, n, F)
  <2> SUFFICES ASSUME NEW u \in D, u # {}, g[u \ {Max(u)}] \in V
               PROVE  g[u] = F[Max(u)][g[u \ {Max(u)}]]
    BY DEF StepsBy
  <2>1. Max(u) \in 1..n
    BY LastOf
  <2>2. at[Max(u)] = Max(u)
    BY <1>0, <2>1
  <2>3. g[u] = IF Max(u) \in K THEN Append(g[u \ {Max(u)}], s[Max(u)]) ELSE g[u \ {Max(u)}]
    <3> HIDE DEF D
    <3> QED BY <1>7, <2>2
  <2>4. F[Max(u)][g[u \ {Max(u)}]]
        = IF Max(u) \in K THEN Append(g[u \ {Max(u)}], s[Max(u)]) ELSE g[u \ {Max(u)}]
    BY <1>2, <2>1
  <2> QED BY <2>3, <2>4
<1>10. PICK f \in [0..n -> V] : Makes(f, F, <<>>, n) /\ g[1..n] = f[n]
  BY <1>1, <1>3, <1>8, <1>9, FoldRuns
<1>11. ASSUME NEW k \in 1..n
       PROVE  f[k] = IF k \in K THEN Append(f[k - 1], s[k]) ELSE f[k - 1]
  <2>1. f[k - 1] \in V
    OBVIOUS
  <2> QED BY <1>2, <1>10, <2>1 DEF Makes
<1>12. Keeps(f, n, E, s, K)
  BY <1>10, <1>11 DEF Keeps, Makes, V
<1> QED BY <1>6, <1>10, <1>12

IsKept(kept, E, s, K) ==
  /\ kept \in Seq(E)
  /\ \A j \in 1..Len(kept) : \E i \in K : kept[j] = s[i]
  /\ \A i \in K : \E j \in 1..Len(kept) : kept[j] = s[i]

\* What is kept: the elements at the places K and no others.
LEMMA KeptIs ==
  ASSUME NEW n \in Nat, NEW E, NEW s \in [1..n -> E], NEW K \in SUBSET (1..n)
  PROVE  IsKept(Kept(s, K), E, s, K)
<1>0. PICK f : Keeps(f, n, E, s, K) /\ Kept(s, K) = f[n]
  BY KeptRuns
<1>1. f \in [0..n -> Seq(E)] /\ Keeps(f, n, E, s, K) /\ Kept(s, K) = f[n]
  BY <1>0 DEF Keeps
<1> DEFINE Has(k) ==
             /\ \A j \in 1..Len(f[k]) : \E i \in K : f[k][j] = s[i]
             /\ \A i \in K : i <= k => \E j \in 1..Len(f[k]) : f[k][j] = s[i]
           S == {k \in 0..n : Has(k)}
<1>2. 0 \in S
  <2>1. f[0] = <<>> /\ Len(f[0]) = 0
    BY <1>1 DEF Keeps
  <2>2. Has(0)
    BY <2>1
  <2> QED BY <2>2
<1>3. ASSUME NEW k \in 0..n - 1, k \in S PROVE k + 1 \in S
  <2>1. k + 1 \in 1..n /\ k + 1 \in 0..n /\ (k + 1) - 1 = k /\ k \in 0..n
    OBVIOUS
  <2>2. f[k + 1] = IF k + 1 \in K THEN Append(f[k], s[k + 1]) ELSE f[k]
    BY <1>1, <2>1 DEF Keeps
  <2>3. f[k] \in Seq(E) /\ s[k + 1] \in E
    BY <1>1, <2>1
  <2>4. /\ \A j \in 1..Len(f[k]) : \E i \in K : f[k][j] = s[i]
        /\ \A i \in K : i <= k => \E j \in 1..Len(f[k]) : f[k][j] = s[i]
    BY <1>3
  <2>5. CASE k + 1 \notin K
    <3>1. \A i \in K : i <= k + 1 => i <= k
      BY <2>5
    <3>2. f[k + 1] = f[k]
      BY <2>2, <2>5
    <3>3. Has(k + 1)
      BY <2>4, <3>1, <3>2
    <3> QED BY <2>1, <3>3
  <2>6. CASE k + 1 \in K
    <3> DEFINE g == f[k + 1]
               l == Len(f[k])
    <3>1. /\ g \in Seq(E) /\ Len(g) = l + 1 /\ \A j \in 1..l : g[j] = f[k][j]
          /\ g[l + 1] = s[k + 1] /\ l \in Nat
      BY <2>2, <2>3, <2>6, AppendProperties, LenProperties
    <3> HIDE DEF g, l
    <3>2. ASSUME NEW j \in 1..Len(g) PROVE \E i \in K : g[j] = s[i]
      <4>1. CASE j = l + 1
        BY <2>6, <3>1, <4>1
      <4>2. CASE j \in 1..l
        BY <2>4, <3>1, <4>2 DEF l
      <4> QED BY <3>1, <4>1, <4>2
    <3>3. ASSUME NEW i \in K, i <= k + 1 PROVE \E j \in 1..Len(g) : g[j] = s[i]
      <4>0. 1..l \subseteq 1..Len(g) /\ l + 1 \in 1..Len(g)
        BY <3>1
      <4>1. CASE i = k + 1
        BY <3>1, <4>0, <4>1
      <4>2. CASE i <= k
        <5>1. PICK j \in 1..l : f[k][j] = s[i]
          BY <2>4, <4>2 DEF l
        <5> QED BY <3>1, <4>0, <5>1
      <4>3. i \in Nat /\ k \in Nat
        OBVIOUS
      <4> QED BY <3>3, <4>1, <4>2, <4>3
    <3>4. Has(k + 1)
      BY <3>2, <3>3 DEF g
    <3> QED BY <2>1, <3>4
  <2> QED BY <2>5, <2>6
<1>4. \A k \in 0..n : k \in S
  <2> HIDE DEF S
  <2> QED BY <1>2, <1>3, UpTo
<1>5. n \in 0..n /\ \A i \in K : i <= n
  OBVIOUS
<1>6. Has(n)
  BY <1>4, <1>5
<1>7. f[n] \in Seq(E)
  BY <1>1, <1>5
<1> QED BY <1>1, <1>5, <1>6, <1>7 DEF IsKept

\* What is left out counts for nothing, so what is kept adds up to all.
Weighs(w, n, E, s, K) == w \in [E -> Nat] /\ \A i \in (1..n) \ K : w[s[i]] = 0

LEMMA KeptTotal ==
  ASSUME NEW n \in Nat, NEW E, NEW s \in [1..n -> E], NEW K \in SUBSET (1..n),
         NEW w, Weighs(w, n, E, s, K)
  PROVE  LET kept == Kept(s, K)
         IN  Total([j \in 1..Len(kept) |-> w[kept[j]]]) = Total([i \in 1..n |-> w[s[i]]])
<1>0. PICK f : Keeps(f, n, E, s, K) /\ Kept(s, K) = f[n]
  BY KeptRuns
<1>1. f \in [0..n -> Seq(E)] /\ Keeps(f, n, E, s, K) /\ Kept(s, K) = f[n]
  BY <1>0 DEF Keeps
<1> USE DEF Weighs
<1> DEFINE all == [i \in 1..n |-> w[s[i]]]
           Of(k) == [j \in 1..Len(f[k]) |-> w[f[k][j]]]
<1>2. all \in [1..n -> Int]
  OBVIOUS
<1>3. PICK t : Sums(t, all, n) /\ Total(all) = t[n]
  <2> HIDE DEF all
  <2> QED BY <1>2, SumRuns
<1> DEFINE S == {k \in 0..n : Total(Of(k)) = t[k]}
<1>4. \A k \in 0..n : Len(f[k]) \in Nat /\ Of(k) \in [1..Len(f[k]) -> Int]
  <2> SUFFICES ASSUME NEW k \in 0..n
               PROVE  Len(f[k]) \in Nat /\ Of(k) \in [1..Len(f[k]) -> Int]
    OBVIOUS
  <2>1. f[k] \in Seq(E)
    BY <1>1
  <2>2. Len(f[k]) \in Nat /\ \A j \in 1..Len(f[k]) : f[k][j] \in E
    BY <2>1
  <2> QED BY <2>2
<1>5. 0 \in S
  <2>1. f[0] = <<>> /\ Len(f[0]) = 0 /\ t[0] = 0 /\ 0 \in 0..n
    BY <1>1, <1>3 DEF Keeps, Sums
  <2>2. Total(Of(0)) = 0
    <3> DEFINE z == [k \in 0..0 |-> 0]
    <3>1. Of(0) \in [1..0 -> Int] /\ 0 \in Nat
      BY <1>4, <2>1
    <3>2. Sums(z, Of(0), 0) /\ z[0] = 0
      BY DEF Sums
    <3> HIDE DEF z, Of
    <3> QED BY <3>1, <3>2, TotalIs
  <2> QED BY <2>1, <2>2
<1>6. ASSUME NEW k \in 0..n - 1, k \in S PROVE k + 1 \in S
  <2>1. k + 1 \in 1..n /\ k + 1 \in 0..n /\ (k + 1) - 1 = k /\ k \in 0..n
    OBVIOUS
  <2>2. f[k + 1] = IF k + 1 \in K THEN Append(f[k], s[k + 1]) ELSE f[k]
    BY <1>1, <2>1 DEF Keeps
  <2>3. t[k + 1] = t[k] + all[k + 1] /\ t[k] \in Int
    BY <1>3, <2>1 DEF Sums
  <2>4. all[k + 1] = w[s[k + 1]]
    BY <2>1
  <2>5. Total(Of(k)) = t[k]
    BY <1>6
  <2>6. CASE k + 1 \notin K
    <3>1. k + 1 \in (1..n) \ K
      BY <2>1, <2>6
    <3>2. w[s[k + 1]] = 0
      BY <3>1
    <3>3. t[k + 1] = t[k]
      BY <2>3, <2>4, <3>2
    <3>4. Of(k + 1) = Of(k)
      BY <2>2, <2>6
    <3> QED BY <2>1, <2>5, <3>3, <3>4
  <2>7. CASE k + 1 \in K
    <3> DEFINE l == Len(f[k])
    <3>1. f[k] \in Seq(E) /\ s[k + 1] \in E
      BY <1>1, <2>1
    <3>2. /\ Len(f[k + 1]) = l + 1 /\ \A j \in 1..l : f[k + 1][j] = f[k][j]
          /\ f[k + 1][l + 1] = s[k + 1] /\ l \in Nat
      BY <2>2, <2>7, <3>1, AppendProperties, LenProperties
    <3>3. /\ Of(k) \in [1..l -> Int] /\ Of(k + 1) \in [1..l + 1 -> Int]
      BY <1>4, <2>1, <3>2
    <3>4. (\A j \in 1..l : Of(k + 1)[j] = Of(k)[j]) /\ Of(k + 1)[l + 1] = w[s[k + 1]]
      <4> HIDE DEF l
      <4>1. l + 1 \in 1..l + 1 /\ \A j \in 1..l : j \in 1..l + 1
        BY <3>2
      <4> QED BY <3>2, <4>1 DEF l
    <3> HIDE DEF l, Of
    <3>5. Total(Of(k + 1)) = Total(Of(k)) + Of(k + 1)[l + 1]
      BY <3>2, <3>3, <3>4, TotalOfAppend
    <3> QED BY <2>1, <2>3, <2>4, <2>5, <3>4, <3>5
  <2> QED BY <2>6, <2>7
<1>7. \A k \in 0..n : k \in S
  <2> HIDE DEF S
  <2> QED BY <1>5, <1>6, UpTo
<1>8. n \in 0..n
  OBVIOUS
<1>9. Total(Of(n)) = t[n]
  BY <1>7, <1>8
<1> QED BY <1>1, <1>3, <1>9

-----------------------------------------------------------------------------
(* The stays asked for.                                                    *)

Repeats(kept, t) == kept # <<>> /\ Last(kept).city = t.city /\ t.days = Unstated

Collapses(g, D, s) ==
  g = [t \in D |-> IF t = {} THEN <<>>
                   ELSE IF Repeats(g[t \ {Max(t)}], s[Max(t)]) THEN g[t \ {Max(t)}]
                   ELSE Append(g[t \ {Max(t)}], s[Max(t)])]

LEMMA CollapsedUnfolds ==
  ASSUME NEW s
  PROVE  Collapsed(s) = (CHOOSE g : Collapses(g, SUBSET DOMAIN s, s))[DOMAIN s]
BY DEF Collapsed, FoldLeft, MapThenFoldSet, Collapses, Repeats

Shrinks(f, n, E, s) ==
  /\ f \in [0..n -> Seq(E)] /\ f[0] = <<>>
  /\ \A k \in 1..n : f[k] = IF Repeats(f[k - 1], s[k]) THEN f[k - 1] ELSE Append(f[k - 1], s[k])

LEMMA CollapsedRuns ==
  ASSUME NEW n \in Nat, NEW E, NEW s \in [1..n -> E]
  PROVE  \E f : Shrinks(f, n, E, s) /\ Collapsed(s) = f[n]
<1> DEFINE V == Seq(E)
           D == SUBSET (1..n)
           F == [i \in 1..n |-> [v \in V |-> IF Repeats(v, s[i]) THEN v ELSE Append(v, s[i])]]
<1>0. DOMAIN s = 1..n
  OBVIOUS
<1>1. F \in [1..n -> [V -> V]]
  <2>1. ASSUME NEW i \in 1..n, NEW v \in V PROVE Append(v, s[i]) \in V
    BY AppendProperties
  <2> QED BY <2>1
<1>2. \A k \in 1..n : \A v \in V : F[k][v] = IF Repeats(v, s[k]) THEN v ELSE Append(v, s[k])
  OBVIOUS
<1>3. <<>> \in V
  OBVIOUS
<1> HIDE DEF F, V
<1>4. \E g : Collapses(g, D, s)
  <2>0. \A W : \A base \in W : F \in [1..n -> [W -> W]] =>
           \E g \in [SUBSET (1..n) -> W] : Folds(g, SUBSET (1..n), F, base)
    BY FoldExists
  <2>1. PICK g \in [D -> V] : Folds(g, D, F, <<>>)
    BY <1>1, <1>3, <2>0, Zenon
  <2>2. ASSUME NEW u \in D
        PROVE  g[u] = IF u = {} THEN <<>>
                      ELSE IF Repeats(g[u \ {Max(u)}], s[Max(u)]) THEN g[u \ {Max(u)}]
                      ELSE Append(g[u \ {Max(u)}], s[Max(u)])
    <3>1. g[u] = IF u = {} THEN <<>> ELSE F[Max(u)][g[u \ {Max(u)}]]
      BY <2>1 DEF Folds
    <3>2. u # {} => u \ {Max(u)} \in D /\ Max(u) \in 1..n
      BY LastOf
    <3>3. u # {} => g[u \ {Max(u)}] \in V
      BY <2>1, <3>2
    <3> QED BY <1>2, <3>1, <3>2, <3>3
  <2>3. g = [u \in D |-> g[u]]
    BY <2>1
  <2>4. Collapses(g, D, s)
    BY <2>2, <2>3 DEF Collapses
  <2> QED BY <2>4
<1> DEFINE g == CHOOSE h : Collapses(h, D, s)
<1>5. Collapses(g, D, s)
  BY <1>4
<1>6. Collapsed(s) = g[1..n]
  BY <1>0, CollapsedUnfolds
<1> HIDE DEF g
<1>7. \A u \in D : g[u] = IF u = {} THEN <<>>
                         ELSE IF Repeats(g[u \ {Max(u)}], s[Max(u)]) THEN g[u \ {Max(u)}]
                         ELSE Append(g[u \ {Max(u)}], s[Max(u)])
  BY <1>5 DEF Collapses
<1>8. g[{}] = <<>>
  <2>1. {} \in D
    OBVIOUS
  <2> QED BY <1>7, <2>1, Zenon
<1>9. StepsBy(g, V, n, F)
  <2> SUFFICES ASSUME NEW u \in D, u # {}, g[u \ {Max(u)}] \in V
               PROVE  g[u] = F[Max(u)][g[u \ {Max(u)}]]
    BY DEF StepsBy
  <2>1. Max(u) \in 1..n
    BY LastOf
  <2>2. g[u] = IF Repeats(g[u \ {Max(u)}], s[Max(u)]) THEN g[u \ {Max(u)}]
               ELSE Append(g[u \ {Max(u)}], s[Max(u)])
    <3> HIDE DEF D
    <3> QED BY <1>7
  <2>3. F[Max(u)][g[u \ {Max(u)}]]
        = IF Repeats(g[u \ {Max(u)}], s[Max(u)]) THEN g[u \ {Max(u)}]
          ELSE Append(g[u \ {Max(u)}], s[Max(u)])
    BY <1>2, <2>1
  <2> QED BY <2>2, <2>3
<1>10. PICK f \in [0..n -> V] : Makes(f, F, <<>>, n) /\ g[1..n] = f[n]
  BY <1>1, <1>3, <1>8, <1>9, FoldRuns
<1>11. ASSUME NEW k \in 1..n
       PROVE  f[k] = IF Repeats(f[k - 1], s[k]) THEN f[k - 1] ELSE Append(f[k - 1], s[k])
  <2>1. f[k - 1] \in V
    OBVIOUS
  <2> QED BY <1>2, <1>10, <2>1 DEF Makes
<1>12. Shrinks(f, n, E, s)
  BY <1>10, <1>11 DEF Shrinks, Makes, V
<1> QED BY <1>6, <1>10, <1>12

\* No city is lost with a clause that only repeats it.
LEMMA CollapsedIs ==
  ASSUME NEW n \in Nat, NEW E, NEW s \in [1..n -> E]
  PROVE  /\ Collapsed(s) \in Seq(E)
         /\ \A i \in 1..n : \E j \in 1..Len(Collapsed(s)) : Collapsed(s)[j].city = s[i].city
<1>1. PICK f : Shrinks(f, n, E, s) /\ Collapsed(s) = f[n]
  BY CollapsedRuns
<1> DEFINE Has(k) == \A i \in 1..k : \E j \in 1..Len(f[k]) : f[k][j].city = s[i].city
           S == {k \in 0..n : Has(k)}
<1>2. 0 \in S
  OBVIOUS
<1>3. ASSUME NEW k \in 0..n - 1, k \in S PROVE k + 1 \in S
  <2>1. k + 1 \in 1..n /\ k + 1 \in 0..n /\ (k + 1) - 1 = k /\ k \in 0..n
    OBVIOUS
  <2>2. f[k + 1] = IF Repeats(f[k], s[k + 1]) THEN f[k] ELSE Append(f[k], s[k + 1])
    BY <1>1, <2>1 DEF Shrinks
  <2>3. f[k] \in Seq(E) /\ s[k + 1] \in E
    BY <1>1, <2>1 DEF Shrinks
  <2>4. \A i \in 1..k : \E j \in 1..Len(f[k]) : f[k][j].city = s[i].city
    BY <1>3
  <2> DEFINE l == Len(f[k])
             g == f[k + 1]
  <2>5. \A i \in 1..k + 1 : i \in 1..k \/ i = k + 1
    BY <2>1
  <2>6. CASE Repeats(f[k], s[k + 1])
    <3>1. l \in 1..Len(f[k]) /\ f[k][l].city = s[k + 1].city
      BY <2>3, <2>6, EmptySeq DEF Repeats, Last
    <3>2. Has(k + 1)
      BY <2>2, <2>4, <2>5, <2>6, <3>1
    <3> QED BY <2>1, <3>2
  <2>7. CASE ~Repeats(f[k], s[k + 1])
    <3>1. /\ Len(g) = l + 1 /\ \A j \in 1..l : g[j] = f[k][j]
          /\ g[l + 1] = s[k + 1] /\ l \in Nat
      BY <2>2, <2>3, <2>7, AppendProperties, LenProperties
    <3> HIDE DEF g, l
    <3>2. 1..l \subseteq 1..Len(g) /\ l + 1 \in 1..Len(g)
      BY <3>1
    <3>3. ASSUME NEW i \in 1..k + 1 PROVE \E j \in 1..Len(g) : g[j].city = s[i].city
      <4>1. CASE i = k + 1
        BY <3>1, <3>2, <4>1
      <4>2. CASE i \in 1..k
        <5>1. PICK j \in 1..l : f[k][j].city = s[i].city
          BY <2>4, <4>2 DEF l
        <5> QED BY <3>1, <3>2, <5>1
      <4> QED BY <2>5, <4>1, <4>2
    <3>4. Has(k + 1)
      BY <3>3 DEF g
    <3> QED BY <2>1, <3>4
  <2> QED BY <2>6, <2>7
<1>4. \A k \in 0..n : k \in S
  <2> HIDE DEF S
  <2> QED BY <1>2, <1>3, UpTo
<1>5. n \in 0..n /\ f[n] \in Seq(E)
  BY <1>1 DEF Shrinks
<1>6. Has(n)
  BY <1>4, <1>5
<1> QED BY <1>1, <1>5, <1>6

LEMMA DenoisedIs ==
  ASSUME NEW E, NEW tokens \in Seq(E)
  PROVE  /\ Denoised(tokens) \in Seq(E)
         /\ \A i \in 1..Len(tokens) :
               tokens[i].city \in Noise
               \/ \E j \in 1..Len(Denoised(tokens)) : Denoised(tokens)[j].city = tokens[i].city
<1> DEFINE n == Len(tokens)
           K == {i \in DOMAIN tokens : tokens[i].days # Unstated \/ tokens[i].city \notin Noise}
<1>1. n \in Nat /\ DOMAIN tokens = 1..n /\ tokens \in [1..n -> E]
  BY LenProperties
<1>2. Denoised(tokens) = tokens \/ Denoised(tokens) = Kept(tokens, K)
  BY DEF Denoised
<1>3. CASE Denoised(tokens) = tokens
  BY <1>3
<1>4. CASE Denoised(tokens) = Kept(tokens, K)
  <2>1. K \in SUBSET (1..n) /\ \A i \in 1..n : i \in K \/ tokens[i].city \in Noise
    BY <1>1
  <2> HIDE DEF n, K
  <2>2. /\ Kept(tokens, K) \in Seq(E)
        /\ \A i \in K : \E j \in 1..Len(Kept(tokens, K)) : Kept(tokens, K)[j] = tokens[i]
    BY <1>1, <2>1, KeptIs DEF IsKept
  <2> QED BY <1>4, <2>1, <2>2 DEF n
<1> QED BY <1>2, <1>3, <1>4

\* Every city asked for is that of a stay, unless it is none or the request was cut.
LEMMA ParseIs ==
  ASSUME NEW E, NEW tokens \in Seq(E)
  PROVE  LET plan == Parse(tokens)
         IN  /\ plan \in Seq(E)
             /\ \/ Len(plan) < Len(Collapsed(Denoised(tokens)))
                \/ \A i \in 1..Len(tokens) :
                     tokens[i].city \in Noise
                     \/ \E j \in 1..Len(plan) : plan[j].city = tokens[i].city
<1> DEFINE clean == Denoised(tokens)
           clauses == Collapsed(clean)
<1>1. clean \in Seq(E) /\ Len(clean) \in Nat /\ clean \in [1..Len(clean) -> E]
  BY DenoisedIs, LenProperties
<1>2. /\ clauses \in Seq(E) /\ Len(clauses) \in Nat
      /\ \A i \in 1..Len(clean) : \E j \in 1..Len(clauses) : clauses[j].city = clean[i].city
  <2> HIDE DEF clean
  <2>1. PICK k \in Nat : k = Len(clean)
    BY <1>1
  <2>2. clean \in [1..k -> E]
    BY <1>1, <2>1
  <2>3. /\ clauses \in Seq(E)
        /\ \A i \in 1..k : \E j \in 1..Len(clauses) : clauses[j].city = clean[i].city
    <3>1. k \in Nat
      OBVIOUS
    <3> QED BY <2>2, <3>1, CollapsedIs, Zenon
  <2>4. Len(clauses) \in Nat
    BY <2>3, LenProperties, Zenon
  <2> QED BY <2>1, <2>3, <2>4
<1>3. \A i \in 1..Len(tokens) : tokens[i].city \in Noise
         \/ \E j \in 1..Len(clauses) : clauses[j].city = tokens[i].city
  <2>1. \A i \in 1..Len(tokens) : tokens[i].city \in Noise
           \/ \E j \in 1..Len(clean) : clean[j].city = tokens[i].city
    BY DenoisedIs
  <2> HIDE DEF clean, clauses
  <2> QED BY <1>2, <2>1
<1>4. PICK m : m = Min({Len(clauses), MaxSegments})
  OBVIOUS
<1> HIDE DEF clean
<1>5. m \in Nat /\ (m = Len(clauses) \/ (m < Len(clauses) /\ m = MaxSegments))
  <2>1. MaxSegments \in Nat
    BY RhythmAssumption
  <2> HIDE DEF clauses
  <2>2. PICK a : a = Len(clauses) /\ a \in Int
    BY <1>2
  <2>3. MaxSegments \in Int
    BY <2>1
  <2>4. Min({a, MaxSegments}) = IF a <= MaxSegments THEN a ELSE MaxSegments
    BY <2>2, <2>3, MaxOfTwo
  <2>5. m = IF a <= MaxSegments THEN a ELSE MaxSegments
    BY <1>4, <2>2, <2>4
  <2> QED BY <1>2, <2>1, <2>2, <2>5
<1>6. Parse(tokens) = SubSeq(clauses, 1, m)
  BY <1>4 DEF Parse, clean
<1> HIDE DEF clauses
<1>7. SubSeq(clauses, 1, m) \in Seq(E) /\ Len(SubSeq(clauses, 1, m)) = m
  <2>1. \A i \in 1..m : clauses[i] \in E
    BY <1>2, <1>5
  <2>2. 1 \in Int /\ m \in Int
    BY <1>5
  <2>3. /\ SubSeq(clauses, 1, m) \in Seq(E)
        /\ Len(SubSeq(clauses, 1, m)) = IF 1 <= m THEN m - 1 + 1 ELSE 0
    BY <2>1, <2>2, SubSeqProperties
  <2> QED BY <1>5, <2>3
<1>8. CASE m = Len(clauses)
  <2>1. SubSeq(clauses, 1, m) = clauses
    BY <1>2, <1>8, SubSeqFull
  <2> QED BY <1>3, <1>6, <1>7, <2>1 DEF clauses, clean
<1>9. CASE m < Len(clauses)
  BY <1>6, <1>7, <1>9 DEF clauses, clean
<1> QED BY <1>5, <1>8, <1>9

-----------------------------------------------------------------------------
(* Who gets a day more.                                                    *)

\* No more than k of finitely many have at most k before them or level.
LEMMA FewRankFirst ==
  ASSUME NEW S, IsFiniteSet(S), NEW R, Orders(R, S), NEW k \in Nat
  PROVE  Cardinality({x \in S : Cardinality({y \in S : <<y, x>> \in R}) <= k}) <= k
<1> DEFINE Above(x) == {y \in S : <<y, x>> \in R}
           K == {x \in S : Cardinality(Above(x)) <= k}
           Q == {p \in S \X S : <<p[2], p[1]>> \in R}
<1>1. IsFiniteSet(K) /\ K \in SUBSET S
  BY FS_Subset
<1>2. CASE K = {}
  <2> HIDE DEF K
  <2>1. Cardinality(K) = 0
    BY <1>2, FS_EmptySet
  <2>2. Cardinality(K) <= k
    BY <2>1
  <2> QED BY <2>2 DEF K
<1>3. CASE K # {}
  <2>1. Orders(Q, K)
    BY <1>1 DEF Orders
  <2>2. PICK m : IsBest(m, Q, K)
    <3> HIDE DEF K, Q
    <3> QED BY <1>1, <1>3, <2>1, HasBest
  <2>3. m \in K /\ K \in SUBSET Above(m)
    BY <1>1, <2>2 DEF IsBest
  <2>4. IsFiniteSet(Above(m)) /\ Above(m) \in SUBSET S
    BY FS_Subset
  <2>5. Cardinality(K) <= Cardinality(Above(m)) /\ Cardinality(K) \in Nat /\ Cardinality(Above(m)) \in Nat
    <3> HIDE DEF K, Above
    <3> QED BY <1>1, <2>3, <2>4, FS_Subset, FS_CardinalityType
  <2>6. Cardinality(Above(m)) <= k
    BY <2>3
  <2> HIDE DEF K, Above
  <2>7. Cardinality(K) <= k
    BY <2>5, <2>6
  <2> QED BY <2>7 DEF K, Above
<1> QED BY <1>2, <1>3

\* Division with remainder.
LEMMA Divides ==
  ASSUME NEW a \in Nat, NEW b \in Nat \ {0}
  PROVE  a \div b \in Nat /\ a % b \in 0..b - 1 /\ a = b * (a \div b) + (a % b)
<1>1. a \div b \in Int /\ a % b \in 0..b - 1
  OBVIOUS
<1>2. a = b * (a \div b) + (a % b)
  OBVIOUS
<1>3. a \div b \in Nat
  <2>1. PICK q \in Int : q = a \div b
    BY <1>1
  <2>2. b * q >= 0 - (b - 1)
    BY <1>1, <1>2, <2>1
  <2>3. q < 0 => b * q <= 0 - b
    OBVIOUS
  <2> QED BY <2>1, <2>2, <2>3
<1> QED BY <1>1, <1>2, <1>3

\* The even share gives away everything, the first the most.
LEMMA EvenShareIs ==
  ASSUME NEW n \in Nat \ {0}, NEW total \in Nat
  PROVE  /\ EvenShare(n, total) \in [1..n -> Nat]
         /\ Total(EvenShare(n, total)) = total
         /\ total > 0 => EvenShare(n, total)[1] > 0
         /\ \A i \in 1..n : EvenShare(n, total)[i] = total \div n + Bits(1..(total % n), n)[i]
<1> DEFINE q == total \div n
           r == total % n
           even == [i \in 1..n |-> q]
<1>1. q \in Nat /\ r \in 0..n - 1 /\ total = n * q + r
  BY Divides
<1> HIDE DEF q, r
<1>2. 1..r \in SUBSET (1..n)
  BY <1>1
<1>3. Bits(1..r, n) \in [1..n -> Int] /\ \A i \in 1..n : Bits(1..r, n)[i] = IF i <= r THEN 1 ELSE 0
  BY <1>1 DEF Bits
<1>4. EvenShare(n, total) = [i \in 1..n |-> q + (IF i <= r THEN 1 ELSE 0)]
  BY DEF EvenShare, q, r
<1>5. EvenShare(n, total) = [i \in 1..n |-> even[i] + Bits(1..r, n)[i]]
  BY <1>3, <1>4
<1>6. EvenShare(n, total) \in [1..n -> Nat]
  BY <1>1, <1>4
<1>7. Total(EvenShare(n, total)) = Total(even) + Total(Bits(1..r, n))
  <2>1. even \in [1..n -> Int]
    BY <1>1
  <2> HIDE DEF even
  <2>2. PICK b : b = Bits(1..r, n) /\ b \in [1..n -> Int]
    BY <1>3
  <2>3. Total([i \in 1..n |-> even[i] + b[i]]) = Total(even) + Total(b)
    BY <2>1, <2>2, TotalOfSum
  <2> QED BY <1>5, <2>2, <2>3
<1>8. Total(even) = n * q
  <2>1. n \in Nat /\ q \in Int
    BY <1>1
  <2> QED BY <2>1, TotalOfSame, Zenon
<1>9. Total(Bits(1..r, n)) = r
  <2>1. Cardinality(1..r) = r
    BY <1>1, FS_Interval
  <2> QED BY <1>2, <2>1, TotalOfBits
<1>10. Total(EvenShare(n, total)) = total
  BY <1>1, <1>7, <1>8, <1>9
<1>11. total > 0 => EvenShare(n, total)[1] > 0
  <2> SUFFICES ASSUME total > 0, q = 0 PROVE r >= 1
    BY <1>1, <1>4
  <2>1. n * q = 0
    OBVIOUS
  <2> QED BY <1>1, <2>1
<1>12. \A i \in 1..n : EvenShare(n, total)[i] = q + Bits(1..r, n)[i]
  BY <1>3, <1>4
<1> QED BY <1>6, <1>10, <1>11, <1>12 DEF q, r

-----------------------------------------------------------------------------
(* How many days a stay gets.                                              *)

LEMMA SameUpper ==
  ASSUME NEW n \in Nat, NEW m \in Nat, 1..n = 1..m
  PROVE  n = m
<1>1. n >= 1 => n \in 1..m
  OBVIOUS
<1>2. m >= 1 => m \in 1..n
  OBVIOUS
<1> QED BY <1>1, <1>2

LEMMA IsSeq ==
  ASSUME NEW n \in Nat, NEW E, NEW f \in [1..n -> E]
  PROVE  f \in Seq(E) /\ Len(f) = n
<1>1. f \in Seq(E)
  BY SeqDef
<1>2. Len(f) \in Nat /\ DOMAIN f = 1..Len(f)
  BY <1>1, LenProperties
<1> QED BY <1>1, <1>2, SameUpper

Picks(n, E, s, K) == n \in Nat /\ s \in [1..n -> E] /\ K \in SUBSET (1..n)

LEMMA KeptOf ==
  ASSUME NEW n, NEW E, NEW s, NEW K, Picks(n, E, s, K)
  PROVE  IsKept(Kept(s, K), E, s, K)
<1>1. n \in Nat /\ s \in [1..n -> E] /\ K \in SUBSET (1..n)
  BY DEF Picks
<1> QED BY <1>1, KeptIs

LEMMA KeptAddsUp ==
  ASSUME NEW n, NEW E, NEW s, NEW K, Picks(n, E, s, K), NEW w, Weighs(w, n, E, s, K)
  PROVE  Total([j \in 1..Len(Kept(s, K)) |-> w[Kept(s, K)[j]]]) = Total([i \in 1..n |-> w[s[i]]])
<1>1. n \in Nat /\ s \in [1..n -> E] /\ K \in SUBSET (1..n)
  BY DEF Picks
<1> QED BY <1>1, KeptTotal

\* A different number of days is scaled to the target, every day given away.
LEMMA ScaleIs ==
  ASSUME NEW n \in Nat \ {0}, NEW weights \in [1..n -> Nat], NEW target \in Nat
  PROVE  /\ Scale(weights, target) \in [1..n -> Nat]
         /\ Total(Scale(weights, target)) = target
<1>1. Len(weights) = n
  BY IsSeq
<1> DEFINE floor == IF target >= n THEN target \div n ELSE 0
           fitted == [i \in 1..n |-> floor +
                         (IF weights[i] * target > floor * Total(weights) THEN 1 ELSE 0)]
<1>2. Scale(weights, target) =
        IF target >= n /\ Total(fitted) = target THEN fitted ELSE EvenShare(n, target)
  BY <1>1 DEF Scale
<1>3. floor \in Nat
  BY Divides
<1>4. fitted \in [1..n -> Nat]
  <2> HIDE DEF floor
  <2> QED BY <1>3
<1> HIDE DEF fitted
<1>5. /\ EvenShare(n, target) \in [1..n -> Nat]
      /\ Total(EvenShare(n, target)) = target
  BY EvenShareIs
<1> QED BY <1>2, <1>4, <1>5

\* The rank of a member among those of its set.
LEMMA RankIs ==
  ASSUME NEW n \in Nat, NEW set \in SUBSET (1..n)
  PROVE  /\ Cardinality(set) \in 0..n
         /\ \A i \in set : Rank(i, set) \in 1..Cardinality(set)
         /\ set # {} => \E i \in set : Rank(i, set) = 1
         /\ \A k \in Nat : Cardinality({i \in set : Rank(i, set) <= k}) <= k
<1>1. IsFiniteSet(set) /\ IsFiniteSet(1..n) /\ Cardinality(1..n) = n
  <2>1. IsFiniteSet(1..n) /\ Cardinality(1..n) = n
    BY FS_Interval
  <2> QED BY <2>1, FS_Subset
<1>2. Cardinality(set) \in 0..n
  <2>1. Cardinality(set) \in Nat
    BY <1>1, FS_CardinalityType
  <2>2. Cardinality(set) <= Cardinality(1..n)
    BY <1>1, FS_Subset
  <2> QED BY <1>1, <2>1, <2>2
<1>3. ASSUME NEW i \in set
      PROVE  Rank(i, set) \in 1..Cardinality(set)
  <2> DEFINE K == {j \in set : j <= i}
  <2>1. K \in SUBSET set /\ i \in K
    OBVIOUS
  <2> HIDE DEF K
  <2>2. IsFiniteSet(K) /\ Cardinality(K) <= Cardinality(set) /\ Cardinality(K) \in Nat
    BY <1>1, <2>1, FS_Subset, FS_CardinalityType
  <2>3. Cardinality(K) # 0
    BY <2>1, <2>2, FS_EmptySet
  <2>4. Cardinality(K) \in 1..Cardinality(set)
    BY <1>2, <2>2, <2>3
  <2> QED BY <2>4 DEF Rank, K
<1>4. ASSUME set # {}
      PROVE  \E i \in set : Rank(i, set) = 1
  <2>1. Min(set) \in set /\ \A x \in set : Min(set) <= x
    <3>1. set \in SUBSET Int
      OBVIOUS
    <3> QED BY <1>1, <1>4, <3>1, FiniteMaxMin
  <2>2. PICK m \in set : \A x \in set : m <= x
    BY <2>1
  <2>3. {j \in set : j <= m} = {m}
    <3>1. \A j \in set : j \in Int
      OBVIOUS
    <3>2. \A j \in set : j <= m <=> j = m
      BY <2>2, <3>1
    <3> QED BY <3>2
  <2>4. Rank(m, set) = 1
    BY <2>3, FS_Singleton DEF Rank
  <2> QED BY <2>4
<1>5. ASSUME NEW k \in Nat
      PROVE  Cardinality({i \in set : Rank(i, set) <= k}) <= k
  <2> DEFINE R == {p \in set \X set : p[1] <= p[2]}
  <2>1. Orders(R, set)
    BY DEF Orders
  <2>2. \A i \in set : {y \in set : <<y, i>> \in R} = {j \in set : j <= i}
    OBVIOUS
  <2> HIDE DEF R
  <2>3. Cardinality({x \in set : Cardinality({y \in set : <<y, x>> \in R}) <= k}) <= k
    BY <1>1, <2>1, FewRankFirst
  <2>4. {x \in set : Cardinality({y \in set : <<y, x>> \in R}) <= k} = {i \in set : Rank(i, set) <= k}
    BY <2>2 DEF Rank
  <2> QED BY <2>3, <2>4
<1> QED BY <1>2, <1>3, <1>4, <1>5

LEMMA TotalPositive ==
  ASSUME NEW n \in Nat, NEW s \in [1..n -> Nat], Total(s) > 0
  PROVE  \E i \in 1..n : s[i] > 0
<1> SUFFICES ASSUME \A i \in 1..n : s[i] <= 0
             PROVE  FALSE
  OBVIOUS
<1> DEFINE zero == [i \in 1..n |-> 0]
<1>1. Total(zero) = n * 0
  <2>1. 0 \in Int
    OBVIOUS
  <2> QED BY <2>1, TotalOfSame, Zenon
<1>2. s \in [1..n -> Int] /\ zero \in [1..n -> Int] /\ \A i \in 1..n : s[i] <= zero[i]
  OBVIOUS
<1> HIDE DEF zero
<1>3. Total(s) <= Total(zero) /\ Total(s) \in Int
  BY <1>2, TotalAtMost, TotalIsInt
<1> QED BY <1>1, <1>3

\* The days a stay was asked for, or none.
Asked(tokens) == [i \in DOMAIN tokens |-> tokens[i].days]

\* Open stays share what the stated days leave of the target; no day is given
\* twice and somebody gets one.
LEMMA CompleteDaysIs ==
  ASSUME NEW E, \A t \in E : t.days \in Nat, NEW tokens \in Seq(E), tokens # <<>>,
         NEW target \in Nat \ {0}
  PROVE  LET c == CompleteDays(tokens, target)
             n == Len(tokens)
         IN  /\ c \in [1..n -> Nat]
             /\ Total(c) <= target
             /\ \E i \in 1..n : c[i] > 0
<1>1. PICK n \in Nat \ {0} : n = Len(tokens) /\ DOMAIN tokens = 1..n /\ tokens \in [1..n -> E]
  BY LenProperties, EmptySeq
<1>2. PICK asked : asked = Asked(tokens) /\ asked \in [1..n -> Nat] /\ asked \in [1..n -> Int]
  <2>1. PICK asked : asked = Asked(tokens)
    OBVIOUS
  <2>2. asked = [i \in 1..n |-> tokens[i].days]
    BY <1>1, <2>1 DEF Asked
  <2>3. \A i \in 1..n : tokens[i] \in E
    BY <1>1
  <2>4. \A i \in 1..n : tokens[i].days \in Nat
    BY <2>3
  <2>5. asked \in [1..n -> Nat] /\ asked \in [1..n -> Int]
    BY <2>2, <2>4
  <2> QED BY <2>1, <2>5, Zenon
<1>3. PICK open : open = {i \in 1..n : asked[i] = Unstated}
  OBVIOUS
<1>4. PICK m : m = Cardinality(open)
  OBVIOUS
<1>5. PICK weights : weights = [i \in 1..n |-> IF i \in open THEN 1 ELSE asked[i]]
  OBVIOUS
<1>6. weights \in [1..n -> Nat]
  BY <1>2, <1>5
<1>7. PICK share : share = EvenShare(m, target - Total(asked))
  OBVIOUS
<1>8. PICK c : c = CompleteDays(tokens, target)
  OBVIOUS
<1>9. c = IF open = {} \/ Total(asked) > target THEN Scale(weights, target)
          ELSE [i \in 1..n |-> IF i \in open THEN share[Rank(i, open)] ELSE asked[i]]
  <2>1. Asked(tokens) = [i \in 1..n |-> tokens[i].days]
    BY <1>1 DEF Asked
  <2>2. asked = [i \in 1..n |-> tokens[i].days]
    BY <1>2, <2>1
  <2> QED BY <1>1, <2>2, <1>3, <1>4, <1>5, <1>7, <1>8 DEF CompleteDays
<1>10. Total(asked) \in Nat
  BY <1>1, <1>2, TotalOfNaturals
<1>11. CASE open = {} \/ Total(asked) > target
  <2>1. c = Scale(weights, target)
    BY <1>9, <1>11
  <2>2. c \in [1..n -> Nat] /\ Total(c) = target
    BY <1>1, <1>6, <2>1, ScaleIs
  <2>3. \E i \in 1..n : c[i] > 0
    <3>1. n \in Nat /\ Total(c) > 0
      BY <2>2
    <3> QED BY <2>2, <3>1, TotalPositive
  <2> QED BY <1>1, <1>8, <2>2, <2>3
<1>12. CASE open # {} /\ Total(asked) <= target
  <2>1. c = [i \in 1..n |-> IF i \in open THEN share[Rank(i, open)] ELSE asked[i]]
    BY <1>9, <1>10, <1>12
  <2>2. open \in SUBSET (1..n) /\ \A i \in open : asked[i] = 0
    BY <1>3 DEF Unstated
  <2>3. /\ m \in 0..n /\ \A i \in open : Rank(i, open) \in 1..m
        /\ \E i \in open : Rank(i, open) = 1
        /\ \A k \in Nat : Cardinality({i \in open : Rank(i, open) <= k}) <= k
    BY <1>1, <1>4, <1>12, <2>2, RankIs
  <2>4. m \in Nat \ {0}
    BY <1>12, <2>3
  <2>5. PICK rest \in Nat : rest = target - Total(asked)
    BY <1>10, <1>12
  <2>6. PICK q \in Nat, r \in 0..m - 1 : q = rest \div m /\ r = rest % m /\ rest = m * q + r
    <3>1. rest \in Nat /\ m \in Nat \ {0}
      BY <2>4, <2>5
    <3>2. rest \div m \in Nat /\ rest % m \in 0..m - 1 /\ rest = m * (rest \div m) + (rest % m)
      BY <3>1, Divides
    <3> QED BY <3>2, Zenon
  <2>7. /\ share \in [1..m -> Nat] /\ (rest > 0 => share[1] > 0)
        /\ \A j \in 1..m : share[j] = q + Bits(1..r, m)[j]
    BY <1>7, <2>4, <2>5, <2>6, EvenShareIs
  <2>8. \A j \in 1..m : share[j] = q + (IF j <= r THEN 1 ELSE 0)
    BY <2>6, <2>7 DEF Bits
  <2> DEFINE K == {i \in open : Rank(i, open) <= r}
  <2>9. K \in SUBSET (1..n) /\ Cardinality(K) <= r
    <3>1. r \in Nat
      BY <2>4, <2>6
    <3>2. Cardinality({i \in open : Rank(i, open) <= r}) <= r
      BY <2>3, <3>1
    <3> QED BY <2>2, <3>2
  <2>10. c \in [1..n -> Nat]
    BY <1>2, <2>1, <2>3, <2>7
  <2>11. PICK a, b : a = Bits(open, n) /\ b = Bits(K, n)
    OBVIOUS
  <2>12. a \in [1..n -> Int] /\ b \in [1..n -> Int]
    BY <2>11 DEF Bits
  <2>13. \A i \in 1..n : c[i] = (asked[i] + q * a[i]) + b[i]
    <3> SUFFICES ASSUME NEW i \in 1..n PROVE c[i] = (asked[i] + q * a[i]) + b[i]
      OBVIOUS
    <3>1. CASE i \in open
      <4>1. c[i] = q + (IF Rank(i, open) <= r THEN 1 ELSE 0)
        BY <2>1, <2>3, <2>8, <3>1
      <4>2. a[i] = 1 /\ asked[i] = 0 /\ b[i] = (IF Rank(i, open) <= r THEN 1 ELSE 0)
        BY <2>2, <2>11, <3>1 DEF Bits
      <4> QED BY <4>1, <4>2, <2>6
    <3>2. CASE i \notin open
      <4>1. c[i] = asked[i] /\ a[i] = 0 /\ b[i] = 0
        BY <2>1, <2>11, <3>2 DEF Bits
      <4> QED BY <4>1, <2>6, <1>2
    <3> QED BY <3>1, <3>2
  <2> HIDE DEF K
  <2>14. PICK qa : qa = [i \in 1..n |-> q * a[i]] /\ qa \in [1..n -> Int]
    <3>1. \A x, y \in Int : x * y \in Int
      OBVIOUS
    <3>2. \A i \in 1..n : q * a[i] \in Int
      BY <2>6, <2>12, <3>1
    <3>3. [i \in 1..n |-> q * a[i]] \in [1..n -> Int]
      BY <3>2
    <3> QED BY <3>3, Zenon
  <2>15. PICK dq : dq = [i \in 1..n |-> asked[i] + qa[i]] /\ dq \in [1..n -> Int]
    <3>1. \A i \in 1..n : asked[i] + qa[i] \in Int
      BY <1>2, <2>14
    <3>2. [i \in 1..n |-> asked[i] + qa[i]] \in [1..n -> Int]
      BY <3>1
    <3> QED BY <3>2, Zenon
  <2>16. c = [i \in 1..n |-> dq[i] + b[i]]
    BY <2>10, <2>13, <2>14, <2>15
  <2>17. Total(c) = Total(dq) + Total(b)
    <3>1. n \in Nat /\ dq \in [1..n -> Int] /\ b \in [1..n -> Int]
      BY <1>1, <2>12, <2>15
    <3>2. Total([i \in 1..n |-> dq[i] + b[i]]) = Total(dq) + Total(b)
      BY <3>1, TotalOfSum
    <3> QED BY <2>16, <3>2, Zenon
  <2>18. Total(dq) = Total(asked) + Total(qa)
    <3>1. n \in Nat /\ asked \in [1..n -> Int] /\ qa \in [1..n -> Int]
      BY <1>2, <2>14
    <3>2. Total([i \in 1..n |-> asked[i] + qa[i]]) = Total(asked) + Total(qa)
      BY <3>1, TotalOfSum
    <3> QED BY <2>15, <3>2
  <2>19. Total(qa) = q * Total(a)
    <3>1. n \in Nat /\ q \in Int
      BY <1>1, <2>6
    <3> QED BY <2>12, <2>14, <3>1, TotalOfMultiples
  <2>20. Total(a) = m /\ Total(b) = Cardinality(K)
    BY <1>1, <1>4, <2>2, <2>9, <2>11, TotalOfBits
  <2>21. Total(b) \in Int
    BY <1>1, <2>12, TotalIsInt
  <2>22. Total(c) <= target
    <3>1. Total(c) = Total(asked) + q * m + Total(b)
      BY <2>17, <2>18, <2>19, <2>20
    <3>2. Total(b) <= r
      BY <2>9, <2>20
    <3>3. q * m \in Nat /\ q * m = m * q
      BY <2>4, <2>6
    <3> QED BY <1>10, <2>5, <2>6, <2>21, <3>1, <3>2, <3>3
  <2>23. \E i \in 1..n : c[i] > 0
    <3>1. CASE rest > 0
      <4>1. PICK i \in open : Rank(i, open) = 1
        BY <2>3
      <4>2. c[i] = share[1] /\ i \in 1..n
        BY <2>1, <2>2, <4>1
      <4> QED BY <2>7, <3>1, <4>2
    <3>2. CASE rest = 0
      <4>1. Total(asked) > 0
        BY <1>10, <2>5, <3>2
      <4>2. PICK i \in 1..n : asked[i] > 0
        BY <1>1, <1>2, <4>1, TotalPositive
      <4>3. c[i] = asked[i]
        BY <2>1, <2>2, <4>2
      <4> QED BY <4>2, <4>3
    <3> QED BY <3>1, <3>2
  <2> QED BY <1>1, <1>8, <2>10, <2>22, <2>23
<1>13. open = {} \/ Total(asked) > target \/ (open # {} /\ Total(asked) <= target)
  BY <1>10
<1> QED BY <1>11, <1>12, <1>13

LEMMA DaysOfIs ==
  ASSUME NEW E, \A t \in E : t.days \in Nat, NEW tokens \in Seq(E), tokens # <<>>,
         NEW tripDays \in Nat \ {0}
  PROVE  LET c == DaysOf(tokens, tripDays)
             n == Len(tokens)
             aside == TransferDays(tokens, tripDays)
         IN  /\ aside \in 0..tripDays - 1
             /\ c \in [1..n -> Nat]
             /\ Total(c) <= tripDays - aside
             /\ \E i \in 1..n : c[i] > 0
             /\ Literal(tokens, tripDays) => aside = 0 /\ Total(c) = tripDays
<1>1. PICK n \in Nat \ {0} : n = Len(tokens) /\ DOMAIN tokens = 1..n /\ tokens \in [1..n -> E]
  BY LenProperties, EmptySeq
<1>2. PICK c, aside : c = DaysOf(tokens, tripDays) /\ aside = TransferDays(tokens, tripDays)
  OBVIOUS
<1>3. CASE Literal(tokens, tripDays)
  <2>1. aside = 0
    BY <1>2, <1>3 DEF TransferDays
  <2>2. c = [i \in 1..n |-> tokens[i].days] /\ Total(c) = tripDays
    BY <1>1, <1>2, <1>3 DEF DaysOf, Literal
  <2>3. \A i \in 1..n : tokens[i] \in E
    BY <1>1
  <2>4. \A i \in 1..n : tokens[i].days \in Nat
    BY <2>3
  <2>5. c \in [1..n -> Nat]
    BY <2>2, <2>4
  <2>6. \E i \in 1..n : c[i] > 0
    <3>1. n \in Nat /\ Total(c) > 0
      BY <1>1, <2>2
    <3> QED BY <2>5, <3>1, TotalPositive
  <2> QED BY <1>1, <1>2, <2>1, <2>2, <2>5, <2>6
<1>4. CASE ~ Literal(tokens, tripDays)
  <2>1. aside = Min({n - 1, tripDays - 1})
    BY <1>1, <1>2, <1>4 DEF TransferDays
  <2>2. PICK a, b : a = n - 1 /\ b = tripDays - 1
    OBVIOUS
  <2> a \in Nat /\ b \in Nat /\ a \in Int /\ b \in Int
    BY <1>1, <2>2
  <2>3. aside = IF a <= b THEN a ELSE b
    <3>1. Min({a, b}) = IF a <= b THEN a ELSE b
      BY MaxOfTwo
    <3> QED BY <2>1, <2>2, <3>1
  <2>4. aside \in 0..tripDays - 1
    <3>1. aside \in 0..b
      BY <2>3
    <3> QED BY <2>2, <3>1
  <2>5. PICK target \in Nat \ {0} : target = tripDays - aside
    BY <2>4
  <2>6. c = CompleteDays(tokens, target)
    BY <1>2, <1>4, <2>5 DEF DaysOf
  <2>7. c \in [1..n -> Nat] /\ Total(c) <= target /\ \E i \in 1..n : c[i] > 0
    BY <1>1, <2>6, CompleteDaysIs
  <2> QED BY <1>1, <1>2, <1>4, <2>4, <2>5, <2>7
<1> QED BY <1>3, <1>4

\* What a list of stays is good for: it is not empty, every stay has a day.
Settled(plan) ==
  /\ Len(plan) \in Nat \ {0} /\ DOMAIN plan = 1..Len(plan)
  /\ \A i \in 1..Len(plan) : plan[i].days \in Nat \ {0}

LEMMA AllocateIs ==
  ASSUME NEW E, \A t \in E : t.days \in Nat, NEW tokens \in Seq(E), tokens # <<>>,
         NEW tripDays \in Nat \ {0}
  PROVE  LET plan == Allocate(tokens, tripDays)
         IN  /\ Settled(plan)
             /\ Total([j \in 1..Len(plan) |-> plan[j].days]) = Total(DaysOf(tokens, tripDays))
             /\ \A i \in 1..Len(tokens) :
                   \/ \E j \in 1..Len(plan) : plan[j].city = tokens[i].city
                   \/ tokens[i].city \in Dropped(tokens, tripDays)
<1>1. PICK n \in Nat \ {0} : n = Len(tokens) /\ DOMAIN tokens = 1..n /\ tokens \in [1..n -> E]
  BY LenProperties, EmptySeq
<1>2. PICK c : c = DaysOf(tokens, tripDays)
  OBVIOUS
<1>3. c \in [1..n -> Nat] /\ \E i \in 1..n : c[i] > 0
  BY <1>1, <1>2, DaysOfIs
<1>4. PICK all : all = [i \in 1..n |-> [city |-> tokens[i].city, days |-> c[i],
                                       stated |-> tokens[i].days # Unstated]]
  OBVIOUS
<1>5. PICK K : K = {i \in 1..n : c[i] > 0}
  OBVIOUS
<1>6. PICK plan : plan = Allocate(tokens, tripDays)
  OBVIOUS
<1>7. plan = Kept(all, K)
  BY <1>1, <1>2, <1>4, <1>5, <1>6 DEF Allocate
<1>8. PICK S : S = {all[i] : i \in 1..n}
  OBVIOUS
<1>9. all \in [1..n -> S] /\ \A i \in 1..n : all[i].days = c[i] /\ all[i].city = tokens[i].city
  BY <1>4, <1>8
<1>10. K \in SUBSET (1..n) /\ K # {}
  BY <1>3, <1>5
<1>11. /\ plan \in Seq(S)
       /\ \A j \in 1..Len(plan) : \E i \in K : plan[j] = all[i]
       /\ \A i \in K : \E j \in 1..Len(plan) : plan[j] = all[i]
  <2>1. n \in Nat
    BY <1>1
  <2>2. Picks(n, S, all, K)
    BY <1>9, <1>10, <2>1 DEF Picks
  <2>3. IsKept(plan, S, all, K)
    BY <1>7, <2>2, KeptOf
  <2> QED BY <2>3 DEF IsKept
<1>12. PICK m : m = Len(plan) /\ m \in Nat /\ DOMAIN plan = 1..m
  BY <1>11, LenProperties
<1>13. m # 0
  BY <1>10, <1>11, <1>12
<1>14. Settled(plan)
  <2>1. \A j \in 1..m : plan[j].days \in Nat \ {0}
    <3> SUFFICES ASSUME NEW j \in 1..m PROVE plan[j].days \in Nat \ {0}
      OBVIOUS
    <3>1. PICK i \in K : plan[j] = all[i]
      BY <1>11, <1>12
    <3>2. plan[j].days = c[i] /\ c[i] > 0 /\ c[i] \in Nat
      BY <1>3, <1>5, <1>9, <3>1
    <3> QED BY <3>2
  <2> QED BY <1>12, <1>13, <2>1 DEF Settled
<1>15. Total([j \in 1..m |-> plan[j].days]) = Total(c)
  <2>1. PICK w : w = [x \in S |-> x.days]
    OBVIOUS
  <2>2. \A i \in 1..n : all[i] \in S /\ w[all[i]] = c[i]
    BY <1>9, <2>1
  <2>3. \A i \in (1..n) \ K : c[i] = 0
    BY <1>3, <1>5
  <2>4. Weighs(w, n, S, all, K)
    BY <1>3, <1>4, <1>8, <2>1, <2>2, <2>3 DEF Weighs
  <2>5. Total([j \in 1..m |-> w[plan[j]]]) = Total([i \in 1..n |-> w[all[i]]])
    <3>1. Picks(n, S, all, K)
      BY <1>1, <1>9, <1>10 DEF Picks
    <3>2. Total([j \in 1..Len(Kept(all, K)) |-> w[Kept(all, K)[j]]]) = Total([i \in 1..n |-> w[all[i]]])
      BY <2>4, <3>1, KeptAddsUp
    <3> QED BY <1>7, <1>12, <3>2
  <2>6. [i \in 1..n |-> w[all[i]]] = c
    BY <1>3, <2>2
  <2>7. \A j \in 1..m : plan[j] \in S
    BY <1>9, <1>10, <1>11, <1>12
  <2>8. [j \in 1..m |-> w[plan[j]]] = [j \in 1..m |-> plan[j].days]
    BY <2>1, <2>7
  <2> QED BY <2>5, <2>6, <2>8
<1>16. \A i \in 1..n : \/ \E j \in 1..m : plan[j].city = tokens[i].city
                       \/ tokens[i].city \in Dropped(tokens, tripDays)
  <2> SUFFICES ASSUME NEW i \in 1..n
               PROVE  \/ \E j \in 1..m : plan[j].city = tokens[i].city
                      \/ tokens[i].city \in Dropped(tokens, tripDays)
    OBVIOUS
  <2>1. CASE i \in K
    BY <1>9, <1>11, <1>12, <2>1
  <2>2. CASE i \notin K
    <3>1. c[i] = 0
      BY <1>3, <1>5, <2>2
    <3> QED BY <1>1, <1>2, <3>1 DEF Dropped
  <2> QED BY <2>1, <2>2
<1> QED BY <1>1, <1>2, <1>6, <1>12, <1>14, <1>15, <1>16

-----------------------------------------------------------------------------
(* How the calendar days are given out.                                    *)

LEMMA Products ==
  ASSUME NEW a \in Nat \ {0}
  PROVE  /\ \A x, y \in Int : a * x <= a * y => x <= y
         /\ \A x, y \in Int : x <= y => a * x <= a * y
         /\ \A x, y \in Nat : x * y \in Nat /\ x * y = y * x
<1>1. ASSUME NEW x \in Int, NEW y \in Int, a * x <= a * y
      PROVE  x <= y
  <2>1. y < x => \E k \in Nat : x = y + k + 1
    <3> SUFFICES ASSUME y < x PROVE \E k \in Nat : x = y + k + 1
      OBVIOUS
    <3>1. x - y - 1 \in Nat /\ x = y + (x - y - 1) + 1
      OBVIOUS
    <3> QED BY <3>1
  <2>2. \A k \in Nat : a * (y + k + 1) = a * y + a * k + a
    OBVIOUS
  <2>3. \A k \in Nat : a * k >= 0
    OBVIOUS
  <2>4. a * y \in Int /\ \A k \in Nat : a * k \in Int
    OBVIOUS
  <2> SUFFICES ASSUME y < x PROVE FALSE
    OBVIOUS
  <2>5. PICK k \in Nat : x = y + k + 1
    BY <2>1
  <2>6. a * x = a * y + a * k + a
    BY <2>2, <2>5
  <2> QED BY <1>1, <2>3, <2>4, <2>6
<1>2. ASSUME NEW x \in Int, NEW y \in Int, x <= y
      PROVE  a * x <= a * y
  <2>1. y - x \in Nat /\ a * (y - x) >= 0 /\ a * (y - x) = a * y - a * x
    BY <1>2
  <2>2. a * y \in Int /\ a * x \in Int
    OBVIOUS
  <2> QED BY <2>1, <2>2
<1>3. \A x, y \in Nat : x * y \in Nat /\ x * y = y * x
  OBVIOUS
<1> QED BY <1>1, <1>2, <1>3

\* Dividing what is at least d times as much gives at least d.
LEMMA AtLeastTimes ==
  ASSUME NEW a \in Nat \ {0}, NEW d \in Nat, NEW x \in Nat, a * d <= x
  PROVE  d <= x \div a /\ a * (x \div a) <= x
<1>1. PICK q \in Nat, r \in 0..a - 1 : q = x \div a /\ x = a * q + r
  BY Divides
<1>2. a * q \in Nat /\ a * d \in Nat
  BY Products
<1>3. a * (q + 1) = a * q + a
  OBVIOUS
<1>4. q + 1 <= d => a * (q + 1) <= a * d
  BY Products
<1> QED BY <1>1, <1>2, <1>3, <1>4

\* A trip with room for every stay gives each at least what it desires, and
\* no day that the trip does not have.
LEMMA DistributeIs ==
  ASSUME NEW n \in Nat \ {0}, NEW desired \in [1..n -> Nat], \A i \in 1..n : desired[i] >= 1,
         NEW target \in Nat, Total(desired) <= target
  PROVE  LET layout == Distribute(desired, target)
         IN  /\ layout \in [1..n -> Nat]
             /\ \A i \in 1..n : layout[i] >= desired[i]
             /\ Total(layout) <= target
             /\ Total(desired) = target => layout = desired
<1>1. n \in Nat /\ Len(desired) = n /\ desired \in [1..n -> Int]
  BY IsSeq
<1>2. PICK all : all = Total(desired)
  OBVIOUS
<1>3. all \in Nat /\ n <= all
  <2> DEFINE one == [i \in 1..n |-> 1]
  <2>1. Total(one) = n * 1
    <3>1. 1 \in Int
      OBVIOUS
    <3> QED BY <1>1, <3>1, TotalOfSame, Zenon
  <2>2. one \in [1..n -> Int] /\ \A i \in 1..n : one[i] <= desired[i]
    OBVIOUS
  <2> HIDE DEF one
  <2>3. Total(one) <= Total(desired) /\ Total(desired) \in Nat
    BY <1>1, <2>2, TotalAtMost, TotalOfNaturals
  <2> QED BY <1>2, <2>1, <2>3
<1>4. PICK layout : layout = Distribute(desired, target)
  OBVIOUS
<1>5. CASE target = all
  <2>1. layout = desired
    BY <1>1, <1>2, <1>3, <1>4, <1>5 DEF Distribute
  <2> QED BY <1>2, <1>4, <1>5, <2>1
<1>6. CASE target # all
  <2>0. all \in Nat \ {0} /\ target > all /\ ~ (target < n)
    BY <1>2, <1>3, <1>6
  <2> DEFINE Whole(i) == (target * desired[i]) \div all
             Part(i) == (target * desired[i]) % all
             Before(j, i) == Part(j) > Part(i) \/ (Part(j) = Part(i) /\ j <= i)
             R == {p \in (1..n) \X (1..n) : Before(p[1], p[2])}
  <2>1. \A i \in 1..n : target * desired[i] \in Nat
    <3>1. \A x, y \in Nat : x * y \in Nat
      BY Products
    <3> QED BY <3>1
  <2>2. \A i \in 1..n : Whole(i) \in Nat /\ Part(i) \in Nat
    <3> SUFFICES ASSUME NEW i \in 1..n PROVE Whole(i) \in Nat /\ Part(i) \in Nat
      OBVIOUS
    <3>1. PICK x \in Nat : x = target * desired[i]
      BY <2>1
    <3>2. x \div all \in Nat /\ x % all \in Nat
      <4>1. x \div all \in Nat /\ x % all \in 0..all - 1
        BY <2>0, Divides
      <4> QED BY <2>0, <4>1
    <3> QED BY <3>1, <3>2
  <2>3. \A i \in 1..n : desired[i] <= Whole(i) /\ all * Whole(i) <= target * desired[i]
    <3> SUFFICES ASSUME NEW i \in 1..n
                 PROVE  desired[i] <= Whole(i) /\ all * Whole(i) <= target * desired[i]
      OBVIOUS
    <3>1. PICK x, d \in Nat : d = desired[i] /\ x = target * d /\ x \in Nat
      BY <2>1
    <3>2. all * d <= x
      <4>1. all * d = d * all /\ x = d * target /\ all * d \in Nat
        BY <1>3, <3>1, Products
      <4>2. d # 0
        BY <3>1
      <4>3. d * all <= d * target
        BY <2>0, <4>2, Products
      <4> QED BY <4>1, <4>3
    <3>3. d <= x \div all /\ all * (x \div all) <= x
      BY <2>0, <3>1, <3>2, AtLeastTimes
    <3> QED BY <3>1, <3>3
  <2>4. PICK whole : whole = [i \in 1..n |-> Whole(i)]
    OBVIOUS
  <2>5. whole \in [1..n -> Nat] /\ whole \in [1..n -> Int]
    BY <2>2, <2>4
  <2>6. PICK left : left = target - Total(whole)
    OBVIOUS
  <2>7. left \in Nat /\ Total(whole) \in Nat
    <3>1. Total(whole) \in Nat
      BY <1>1, <2>5, TotalOfNaturals
    <3>2. PICK u, v : u = [i \in 1..n |-> all * whole[i]] /\ v = [i \in 1..n |-> target * desired[i]]
      OBVIOUS
    <3>3. u \in [1..n -> Int] /\ v \in [1..n -> Int] /\ \A i \in 1..n : u[i] <= v[i]
      <4>1. \A i \in 1..n : u[i] = all * Whole(i) /\ v[i] = target * desired[i]
        BY <2>4, <3>2
      <4>2. \A i \in 1..n : all * Whole(i) \in Int
        <5>1. \A x, y \in Nat : x * y \in Nat
          BY Products
        <5> HIDE DEF Whole
        <5> QED BY <2>0, <2>2, <5>1
      <4> HIDE DEF Whole
      <4> QED BY <2>1, <2>3, <2>4, <3>2, <4>1, <4>2
    <3>4. Total(u) <= Total(v)
      BY <1>1, <3>3, TotalAtMost
    <3>5. Total(u) = all * Total(whole) /\ Total(v) = target * all
      <4>1. all \in Int /\ target \in Int
        BY <1>3
      <4> QED BY <1>1, <1>2, <2>5, <3>2, <4>1, TotalOfMultiples
    <3>6. all * Total(whole) <= all * target
      <4>1. target * all = all * target
        BY <1>3
      <4> QED BY <3>4, <3>5, <4>1
    <3>7. Total(whole) <= target
      BY <2>0, <3>1, <3>6, Products
    <3> QED BY <2>6, <3>1, <3>7
  <2> DEFINE K == {i \in 1..n : Cardinality({j \in 1..n : Before(j, i)}) <= left}
  <2>8. layout = [i \in 1..n |-> Whole(i) + (IF i \in K THEN 1 ELSE 0)]
    <3>1. Total([i \in 1..n |-> Whole(i)]) = Total(whole)
      BY <2>4
    <3> HIDE DEF Whole
    <3> QED BY <1>1, <1>2, <1>4, <1>6, <2>0, <2>6, <3>1 DEF Distribute, Whole
  <2>9. Cardinality(K) <= left
    <3>1. Orders(R, 1..n)
      <4>1. \A i \in 1..n : Part(i) \in Int
        BY <2>2
      <4> HIDE DEF Part, Whole
      <4>2. \A x, y \in 1..n : Before(x, y) \/ Before(y, x)
        BY <4>1
      <4>3. \A x, y, z \in 1..n : Before(x, y) /\ Before(y, z) => Before(x, z)
        BY <4>1
      <4>4. \A x, y \in 1..n : <<x, y>> \in R <=> Before(x, y)
        OBVIOUS
      <4> HIDE DEF R, Before
      <4> QED BY <4>2, <4>3, <4>4 DEF Orders
    <3>2. \A i \in 1..n : {y \in 1..n : <<y, i>> \in R} = {j \in 1..n : Before(j, i)}
      <4> HIDE DEF Part
      <4> QED OBVIOUS
    <3>3. IsFiniteSet(1..n)
      BY <1>1, FS_Interval
    <3> HIDE DEF R
    <3>4. Cardinality({x \in 1..n : Cardinality({y \in 1..n : <<y, x>> \in R}) <= left}) <= left
      <4>1. PICK S : S = 1..n
        OBVIOUS
      <4>2. IsFiniteSet(S) /\ Orders(R, S) /\ left \in Nat
        BY <2>7, <3>1, <3>3, <4>1
      <4>3. Cardinality({x \in S : Cardinality({y \in S : <<y, x>> \in R}) <= left}) <= left
        BY <4>2, FewRankFirst
      <4> QED BY <4>1, <4>3
    <3>5. {x \in 1..n : Cardinality({y \in 1..n : <<y, x>> \in R}) <= left} = K
      <4> HIDE DEF Part, Before
      <4> QED BY <3>2
    <3> HIDE DEF K
    <3> QED BY <3>4, <3>5
  <2>10. K \in SUBSET (1..n)
    OBVIOUS
  <2> HIDE DEF K, Whole
  <2>11. PICK b : b = Bits(K, n)
    OBVIOUS
  <2>12. b \in [1..n -> Nat] /\ b \in [1..n -> Int] /\ \A i \in 1..n : b[i] = IF i \in K THEN 1 ELSE 0
    BY <2>11 DEF Bits
  <2>13. layout = [i \in 1..n |-> whole[i] + b[i]]
    BY <2>4, <2>8, <2>12
  <2>14. layout \in [1..n -> Nat] /\ \A i \in 1..n : layout[i] >= desired[i]
    <3> SUFFICES ASSUME NEW i \in 1..n
                 PROVE  layout[i] \in Nat /\ layout[i] >= desired[i]
      BY <2>13
    <3>1. desired[i] <= whole[i] /\ whole[i] \in Nat /\ b[i] \in {0, 1}
      BY <2>3, <2>4, <2>5, <2>12
    <3>2. layout[i] = whole[i] + b[i]
      BY <2>13
    <3> QED BY <3>1, <3>2
  <2>15. Total(layout) = Total(whole) + Total(b)
    BY <1>1, <2>5, <2>12, <2>13, TotalOfSum
  <2>16. Total(b) = Cardinality(K)
    BY <1>1, <2>10, <2>11, TotalOfBits
  <2>17. Total(b) \in Int
    BY <1>1, <2>12, TotalIsInt
  <2>18. Total(layout) <= target
    BY <2>6, <2>7, <2>9, <2>15, <2>16, <2>17
  <2> QED BY <1>2, <1>4, <1>6, <2>14, <2>18
<1> QED BY <1>5, <1>6

\* The calendar of n stays: stay i is from day b[i] to the day before b[i + 1].
Calendar(b, n, tripDays) ==
  /\ b \in [1..n + 1 -> Nat] /\ b[1] = 1 /\ b[n + 1] = tripDays + 1
  /\ \A i, j \in 1..n + 1 : i < j => b[i] < b[j]

Within(b, i, d) == b[i] <= d /\ d < b[i + 1]

\* Which city a day has, and that only a stay's last day is one of moving on.
IsDayOf(window, plan, b, i, d) ==
  /\ {"city", "stay", "moving", "sleeps", "transfer", "extra"} \subseteq DOMAIN window
  /\ window.stay = i /\ window.city = plan[i].city
  /\ window.moving => i < Len(plan) /\ d + 1 = b[i + 1]

Covers(calendar, plan, b, tripDays) ==
  \A i \in 1..Len(plan), d \in 1..tripDays :
    Within(b, i, d) => IsDayOf(calendar[d], plan, b, i, d)

LEMMA Climbs ==
  ASSUME NEW m \in Nat, NEW b \in [1..m -> Nat], \A i \in 1..m - 1 : b[i] < b[i + 1]
  PROVE  \A i, j \in 1..m : i < j => b[i] < b[j]
<1> SUFFICES ASSUME NEW i \in 1..m
             PROVE  \A j \in 1..m : i < j => b[i] < b[j]
  OBVIOUS
<1> DEFINE S == {k \in 0..m : i < k => b[i] < b[k]}
<1>1. 0 \in S
  OBVIOUS
<1>2. ASSUME NEW k \in 0..m - 1, k \in S
      PROVE  k + 1 \in S
  <2>1. CASE i = k
    <3>1. k \in 1..m - 1 /\ b[k] < b[k + 1]
      BY <2>1
    <3> QED BY <2>1, <3>1
  <2>2. CASE i < k
    <3>1. k \in 1..m - 1 /\ b[k] < b[k + 1] /\ b[i] < b[k] /\ k + 1 \in 1..m
      BY <1>2, <2>2
    <3>2. b[i] \in Nat /\ b[k] \in Nat /\ b[k + 1] \in Nat
      BY <3>1
    <3> QED BY <3>1, <3>2
  <2>3. CASE i > k
    BY <2>3
  <2> QED BY <2>1, <2>2, <2>3
<1>3. \A k \in 0..m : k \in S
  <2> HIDE DEF S
  <2> QED BY <1>1, <1>2, UpTo
<1> QED BY <1>3

\* Every day is in one stay.
LEMMA DayHasStay ==
  ASSUME NEW n \in Nat \ {0}, NEW tripDays \in Nat, NEW b, Calendar(b, n, tripDays), NEW d \in 1..tripDays
  PROVE  /\ \E i \in 1..n : Within(b, i, d)
         /\ \A i, j \in 1..n : Within(b, i, d) /\ Within(b, j, d) => i = j
<1>1. /\ b \in [1..n + 1 -> Nat] /\ b[1] = 1 /\ b[n + 1] = tripDays + 1
      /\ \A i, j \in 1..n + 1 : i < j => b[i] < b[j]
  BY DEF Calendar
<1>2. \E i \in 1..n : Within(b, i, d)
  <2> DEFINE T == {i \in 1..n : b[i] <= d}
  <2>1. T \in SUBSET (1..n) /\ 1 \in T
    BY <1>1
  <2> HIDE DEF T
  <2>2. PICK i : i = Max(T) /\ i \in T /\ \A j \in T : j <= i
    BY <2>1, LastOf
  <2>3. i \in 1..n /\ b[i] <= d
    BY <2>2 DEF T
  <2>4. i + 1 \in 1..n + 1 /\ b[i + 1] \in Nat
    BY <1>1, <2>3
  <2>5. d < b[i + 1]
    <3>1. CASE i = n
      BY <1>1, <3>1
    <3>2. CASE i < n
      <4>1. i + 1 \in 1..n /\ ~ (i + 1 <= i)
        BY <2>3, <3>2
      <4>2. i + 1 \notin T
        BY <2>2, <4>1
      <4>3. ~ (b[i + 1] <= d)
        BY <4>1, <4>2 DEF T
      <4> QED BY <2>4, <4>3
    <3> QED BY <2>3, <3>1, <3>2
  <2> QED BY <2>3, <2>5 DEF Within
<1>3. ASSUME NEW i \in 1..n, NEW j \in 1..n, Within(b, i, d), Within(b, j, d), i < j
      PROVE  FALSE
  <2>1. b[j] <= d /\ d < b[i + 1]
    BY <1>3 DEF Within
  <2>2. i + 1 \in 1..n + 1 /\ j \in 1..n + 1
    OBVIOUS
  <2>3. b[i + 1] <= b[j] /\ b[i + 1] \in Nat /\ b[j] \in Nat
    <3>1. CASE i + 1 = j
      BY <1>1, <2>2, <3>1
    <3>2. CASE i + 1 < j
      BY <1>1, <2>2, <3>2
    <3> QED BY <1>3, <3>1, <3>2
  <2> QED BY <2>1, <2>3
<1>4. ASSUME NEW i \in 1..n, NEW j \in 1..n, Within(b, i, d), Within(b, j, d)
      PROVE  i = j
  <2>1. i < j \/ j < i \/ i = j
    OBVIOUS
  <2> QED BY <1>3, <1>4, <2>1
<1> QED BY <1>2, <1>4

\* One stay begins where the one before it ends, a moving day later if there is one.
Paces(n, layout, reserved) ==
  LET B(i) == Begins(layout, reserved, i)
  IN  /\ B(1) = 1 /\ \A i \in 1..n : B(i) \in Nat
      /\ \A i \in 1..n - 1 : B(i + 1) = B(i) + layout[i] + (IF i <= reserved THEN 1 ELSE 0)
      /\ B(n) + layout[n] = 1 + Total(layout) + reserved

LEMMA BeginsIs ==
  ASSUME NEW n \in Nat \ {0}, NEW layout \in [1..n -> Nat], NEW reserved \in 0..n - 1
  PROVE  Paces(n, layout, reserved)
<1> DEFINE B(i) == Begins(layout, reserved, i)
<1>1. n \in Nat /\ layout \in [1..n -> Int]
  OBVIOUS
<1>2. PICK t : Sums(t, layout, n) /\ Total(layout) = t[n]
  BY <1>1, SumRuns
<1>3. t \in [0..n -> Int] /\ t[0] = 0 /\ \A k \in 1..n : t[k] = t[k - 1] + layout[k]
  BY <1>2 DEF Sums
<1>4. \A k \in 0..n : t[k] \in Nat
  <2> DEFINE S == {k \in 0..n : t[k] \in Nat}
  <2>1. 0 \in S
    BY <1>3
  <2>2. ASSUME NEW k \in 0..n - 1, k \in S PROVE k + 1 \in S
    <3>1. k + 1 \in 1..n /\ (k + 1) - 1 = k
      OBVIOUS
    <3>2. t[k + 1] = t[k] + layout[k + 1] /\ t[k] \in Nat
      BY <1>3, <2>2, <3>1
    <3> QED BY <3>1, <3>2
  <2> HIDE DEF S
  <2>3. \A k \in 0..n : k \in S
    BY <1>1, <2>1, <2>2, UpTo
  <2> QED BY <2>3 DEF S
<1>5. ASSUME NEW i \in 1..n
      PROVE  B(i) = 1 + t[i - 1] + (IF i - 1 <= reserved THEN i - 1 ELSE reserved)
  <2>1. PICK k \in 0..n : k = i - 1
    OBVIOUS
  <2>2. Total(SubSeq(layout, 1, k)) = t[k]
    BY <1>1, <1>2, TotalOfFirst
  <2>3. k \in Int /\ reserved \in Int
    OBVIOUS
  <2>4. Min({k, reserved}) = IF k <= reserved THEN k ELSE reserved
    BY <2>3, MaxOfTwo
  <2> QED BY <2>1, <2>2, <2>4 DEF Begins
<1> HIDE DEF B
<1>6. B(1) = 1
  <2>1. 1 \in 1..n /\ 1 - 1 = 0
    OBVIOUS
  <2> QED BY <1>3, <1>5, <2>1
<1>7. \A i \in 1..n : B(i) \in Nat
  <2> SUFFICES ASSUME NEW i \in 1..n PROVE B(i) \in Nat
    OBVIOUS
  <2>1. i - 1 \in 0..n
    OBVIOUS
  <2>2. t[i - 1] \in Nat
    BY <1>4, <2>1
  <2>3. (IF i - 1 <= reserved THEN i - 1 ELSE reserved) \in Nat
    BY <2>1
  <2>4. B(i) = 1 + t[i - 1] + (IF i - 1 <= reserved THEN i - 1 ELSE reserved)
    BY <1>5
  <2> QED BY <2>2, <2>3, <2>4
<1>8. ASSUME NEW i \in 1..n - 1
      PROVE  B(i + 1) = B(i) + layout[i] + (IF i <= reserved THEN 1 ELSE 0)
  <2>1. i \in 1..n /\ i + 1 \in 1..n /\ (i + 1) - 1 = i /\ i - 1 \in 0..n
    OBVIOUS
  <2>2. B(i + 1) = 1 + t[i] + (IF i <= reserved THEN i ELSE reserved)
    BY <1>5, <2>1
  <2>3. B(i) = 1 + t[i - 1] + (IF i - 1 <= reserved THEN i - 1 ELSE reserved)
    BY <1>5, <2>1
  <2>4. t[i] = t[i - 1] + layout[i] /\ t[i - 1] \in Nat /\ layout[i] \in Nat
    BY <1>3, <1>4, <2>1
  <2>5. CASE i <= reserved
    <3>1. i - 1 <= reserved
      BY <2>5
    <3> QED BY <2>2, <2>3, <2>4, <2>5, <3>1
  <2>6. CASE i > reserved
    <3>1. /\ (IF i - 1 <= reserved THEN i - 1 ELSE reserved) = reserved
          /\ (IF i <= reserved THEN i ELSE reserved) = reserved
          /\ (IF i <= reserved THEN 1 ELSE 0) = 0
      BY <2>6
    <3>2. B(i + 1) = 1 + t[i] + reserved /\ B(i) = 1 + t[i - 1] + reserved
      BY <2>2, <2>3, <3>1
    <3> QED BY <2>4, <3>1, <3>2
  <2> QED BY <2>5, <2>6
<1>9. B(n) + layout[n] = 1 + Total(layout) + reserved
  <2>1. n \in 1..n /\ n - 1 \in 0..n
    OBVIOUS
  <2>2. B(n) = 1 + t[n - 1] + (IF n - 1 <= reserved THEN n - 1 ELSE reserved)
    BY <1>5, <2>1
  <2>3. t[n] = t[n - 1] + layout[n] /\ t[n - 1] \in Nat /\ layout[n] \in Nat
    BY <1>3, <1>4, <2>1
  <2> QED BY <1>2, <2>2, <2>3
<1> QED BY <1>6, <1>7, <1>8, <1>9 DEF B, Paces

\* The days that are set aside for moving.
LEMMA SetAside ==
  ASSUME NEW n \in Nat \ {0}, NEW tripDays \in Nat \ {0}, NEW aside \in 0..tripDays - 1
  PROVE  LET reserved == Min({aside, n - 1, tripDays - 1})
         IN  reserved \in 0..aside /\ reserved \in 0..n - 1
<1>1. PICK S : S = {aside, n - 1, tripDays - 1}
  OBVIOUS
<1>2. IsFiniteSet(S)
  <2>1. S = (({aside} \cup {n - 1}) \cup {tripDays - 1})
    BY <1>1
  <2> QED BY <2>1, FS_Singleton, FS_AddElement
<1>3. S \in SUBSET Int /\ S # {}
  BY <1>1
<1>4. PICK r : r = Min(S) /\ r \in S /\ \A x \in S : r <= x
  BY <1>2, <1>3, FiniteMaxMin
<1>5. r \in Nat /\ r <= aside /\ r <= n - 1
  BY <1>1, <1>4
<1> QED BY <1>1, <1>4, <1>5

\* The length of the stays of a calendar, and when it is as desired.
Lasts(b, plan) ==
  \A i \in 1..Len(plan) : b[i + 1] - b[i] >= plan[i].days

Fits(b, plan) ==
  \A i \in 1..Len(plan) : b[i + 1] - b[i] = plan[i].days

Desired(plan) == [i \in 1..Len(plan) |-> plan[i].days]

\* The window of a day, with the lengths of the stays and the moving days given.
Leaving(d, layout, reserved) == {i \in 1..reserved : d = Begins(layout, reserved, i) + layout[i]}
Here(d, n, layout, reserved) ==
  {i \in 1..n : /\ Begins(layout, reserved, i) <= d
                /\ d < Begins(layout, reserved, i) + layout[i]}
StayOf(d, n, layout, reserved) ==
  IF Leaving(d, layout, reserved) # {} THEN Min(Leaving(d, layout, reserved))
  ELSE IF Here(d, n, layout, reserved) # {} THEN Min(Here(d, n, layout, reserved)) ELSE n
NightOf(d, n, layout, reserved) ==
  IF Leaving(d, layout, reserved) # {} THEN StayOf(d, n, layout, reserved) + 1
  ELSE StayOf(d, n, layout, reserved)
WindowOf(d, plan, n, layout, reserved) ==
  [city |-> plan[StayOf(d, n, layout, reserved)].city, stay |-> StayOf(d, n, layout, reserved),
   moving |-> Leaving(d, layout, reserved) # {},
   sleeps |-> City(plan[NightOf(d, n, layout, reserved)].city), transfer |-> <<>>,
   extra |-> Leaving(d, layout, reserved) \cup Here(d, n, layout, reserved) = {}]

LEMMA AssignUnfolds ==
  ASSUME NEW plan, NEW tripDays, NEW aside, Len(plan) # 0
  PROVE  LET n == Len(plan)
             reserved == Min({aside, n - 1, tripDays - 1})
             layout == Distribute([i \in 1..n |-> plan[i].days], tripDays - reserved)
         IN  AssignDays(plan, tripDays, aside) =
                 [d \in 1..tripDays |-> WindowOf(d, plan, n, layout, reserved)]
BY Zenon DEF AssignDays, WindowOf, NightOf, StayOf, Here, Leaving

\* The calendar of a trip: the stays in their order, none shorter than desired,
\* all as desired when the days come to the length of the trip.
LEMMA AssignedIs ==
  ASSUME NEW plan, Settled(plan), NEW tripDays \in Nat \ {0}, NEW aside \in 0..tripDays - 1,
         Total(Desired(plan)) <= tripDays - aside
  PROVE  LET calendar == AssignDays(plan, tripDays, aside)
         IN  /\ calendar = [d \in 1..tripDays |-> calendar[d]]
             /\ \A d \in 1..tripDays : calendar[d].transfer = <<>>
             /\ \E b : /\ Calendar(b, Len(plan), tripDays)
                       /\ Covers(calendar, plan, b, tripDays)
                       /\ Lasts(b, plan)
                       /\ aside = 0 /\ Total(Desired(plan)) = tripDays => Fits(b, plan)
<1>1. PICK n \in Nat \ {0} : n = Len(plan) /\ n \in Nat
  BY DEF Settled
<1>2. PICK desired : desired = Desired(plan)
  OBVIOUS
<1>3. /\ desired = [i \in 1..n |-> plan[i].days] /\ desired \in [1..n -> Nat]
      /\ \A i \in 1..n : desired[i] = plan[i].days /\ desired[i] >= 1
  <2>1. \A i \in 1..n : plan[i].days \in Nat \ {0}
    BY <1>1 DEF Settled
  <2>2. desired = [i \in 1..n |-> plan[i].days]
    BY <1>1, <1>2 DEF Desired
  <2> QED BY <2>1, <2>2
<1>4. PICK reserved : reserved = Min({aside, n - 1, tripDays - 1})
  OBVIOUS
<1>5. reserved \in 0..aside /\ reserved \in 0..n - 1
  BY <1>1, <1>4, SetAside
<1>6. PICK target \in Nat : target = tripDays - reserved
  BY <1>5
<1>7. Total(desired) \in Nat /\ Total(desired) <= target
  <2>1. Total(desired) \in Nat
    BY <1>1, <1>3, TotalOfNaturals
  <2> QED BY <1>2, <1>5, <1>6, <2>1
<1>8. PICK layout : layout = Distribute(desired, target)
  OBVIOUS
<1>9. /\ layout \in [1..n -> Nat] /\ \A i \in 1..n : layout[i] >= desired[i]
      /\ Total(layout) <= target
      /\ Total(desired) = target => layout = desired
  BY <1>1, <1>3, <1>6, <1>7, <1>8, DistributeIs
<1>10. Total(layout) \in Nat
  BY <1>1, <1>9, TotalOfNaturals
<1> DEFINE B(i) == Begins(layout, reserved, i)
<1>11. /\ B(1) = 1 /\ \A i \in 1..n : B(i) \in Nat
       /\ \A i \in 1..n - 1 : B(i + 1) = B(i) + layout[i] + (IF i <= reserved THEN 1 ELSE 0)
       /\ B(n) + layout[n] = 1 + Total(layout) + reserved
  <2>1. Paces(n, layout, reserved)
    BY <1>5, <1>9, BeginsIs
  <2> QED BY <2>1 DEF Paces
<1>12. PICK b : b = [i \in 1..n + 1 |-> IF i <= n THEN B(i) ELSE tripDays + 1]
  OBVIOUS
<1>13. PICK calendar : calendar = AssignDays(plan, tripDays, aside)
  OBVIOUS
<1>14. calendar = [d \in 1..tripDays |-> WindowOf(d, plan, n, layout, reserved)]
  <2>1. n # 0
    OBVIOUS
  <2>2. layout = Distribute([i \in 1..n |-> plan[i].days], tripDays - reserved)
    BY <1>3, <1>6, <1>8
  <2> QED BY <1>1, <1>4, <1>13, <2>1, <2>2, AssignUnfolds
<1> HIDE DEF B
<1>15. /\ b \in [1..n + 1 -> Nat] /\ b[1] = 1 /\ b[n + 1] = tripDays + 1
       /\ \A i \in 1..n : b[i] = B(i)
  <2>1. 1 \in 1..n /\ tripDays + 1 \in Nat /\ n + 1 \in 1..n + 1 /\ ~ (n + 1 <= n)
    OBVIOUS
  <2>2. \A i \in 1..n : b[i] = B(i)
    BY <1>12
  <2>3. b[n + 1] = tripDays + 1
    BY <1>12, <2>1
  <2>4. \A i \in 1..n + 1 : (IF i <= n THEN B(i) ELSE tripDays + 1) \in Nat
    BY <1>11, <2>1
  <2>5. b \in [1..n + 1 -> Nat]
    BY <1>12, <2>4
  <2> QED BY <1>11, <2>1, <2>2, <2>3, <2>5
<1>16. /\ \A i \in 1..n : layout[i] \in Nat /\ layout[i] >= plan[i].days /\ layout[i] >= 1
       /\ \A i \in 1..n - 1 : b[i + 1] = b[i] + layout[i] + (IF i <= reserved THEN 1 ELSE 0)
       /\ b[n] + layout[n] <= b[n + 1]
  <2>1. \A i \in 1..n : layout[i] \in Nat /\ layout[i] >= plan[i].days /\ layout[i] >= 1
    <3> SUFFICES ASSUME NEW i \in 1..n
                 PROVE  layout[i] \in Nat /\ layout[i] >= plan[i].days /\ layout[i] >= 1
      OBVIOUS
    <3>1. layout[i] >= desired[i] /\ desired[i] = plan[i].days /\ desired[i] >= 1
      BY <1>3, <1>9
    <3>2. layout[i] \in Nat /\ desired[i] \in Nat
      BY <1>3, <1>9
    <3> QED BY <3>1, <3>2
  <2>2. \A i \in 1..n - 1 : b[i + 1] = b[i] + layout[i] + (IF i <= reserved THEN 1 ELSE 0)
    <3> SUFFICES ASSUME NEW i \in 1..n - 1
                 PROVE  b[i + 1] = b[i] + layout[i] + (IF i <= reserved THEN 1 ELSE 0)
      OBVIOUS
    <3>1. i \in 1..n /\ i + 1 \in 1..n
      OBVIOUS
    <3> QED BY <1>11, <1>15, <3>1
  <2>3. n \in 1..n
    OBVIOUS
  <2>4. b[n] + layout[n] = 1 + Total(layout) + reserved
    BY <1>11, <1>15, <2>3
  <2>5. b[n] + layout[n] <= b[n + 1]
    BY <1>5, <1>6, <1>9, <1>10, <1>15, <2>4
  <2> QED BY <2>1, <2>2, <2>5
<1>17. \A i \in 1..n : b[i] \in Nat /\ b[i + 1] \in Nat /\ b[i] + layout[i] <= b[i + 1]
  <2> SUFFICES ASSUME NEW i \in 1..n
               PROVE  b[i] \in Nat /\ b[i + 1] \in Nat /\ b[i] + layout[i] <= b[i + 1]
    OBVIOUS
  <2>1. i \in 1..n + 1 /\ i + 1 \in 1..n + 1
    OBVIOUS
  <2>2. b[i] \in Nat /\ b[i + 1] \in Nat /\ layout[i] \in Nat
    BY <1>15, <1>16, <2>1
  <2>3. CASE i = n
    BY <1>16, <2>2, <2>3
  <2>4. CASE i # n
    <3>1. i \in 1..n - 1
      BY <2>4
    <3>2. b[i + 1] = b[i] + layout[i] + (IF i <= reserved THEN 1 ELSE 0)
      BY <1>16, <3>1
    <3> QED BY <2>2, <3>2
  <2> QED BY <2>3, <2>4
<1>18. Calendar(b, n, tripDays)
  <2>1. PICK m \in Nat : m = n + 1
    OBVIOUS
  <2>2. \A i \in 1..m - 1 : b[i] < b[i + 1]
    <3> SUFFICES ASSUME NEW i \in 1..m - 1 PROVE b[i] < b[i + 1]
      OBVIOUS
    <3>1. i \in 1..n
      BY <2>1
    <3> QED BY <1>16, <1>17, <3>1
  <2>3. b \in [1..m -> Nat]
    BY <1>15, <2>1
  <2>4. \A i, j \in 1..m : i < j => b[i] < b[j]
    BY <2>2, <2>3, Climbs
  <2> QED BY <1>15, <2>1, <2>4 DEF Calendar
<1>19. Lasts(b, plan)
  <2> SUFFICES ASSUME NEW i \in 1..n PROVE b[i + 1] - b[i] >= plan[i].days
    BY <1>1 DEF Lasts
  <2>1. plan[i].days \in Nat
    BY <1>1 DEF Settled
  <2> QED BY <1>16, <1>17, <2>1
<1>20. ASSUME aside = 0, Total(desired) = tripDays
       PROVE  Fits(b, plan)
  <2>1. reserved = 0
    BY <1>5, <1>20
  <2>2. layout = desired
    BY <1>6, <1>9, <1>20, <2>1
  <2>3. Total(layout) = tripDays
    BY <1>20, <2>2
  <2> SUFFICES ASSUME NEW i \in 1..n PROVE b[i + 1] - b[i] = plan[i].days
    BY <1>1 DEF Fits
  <2>4. layout[i] = plan[i].days
    BY <1>3, <2>2
  <2>5. CASE i = n
    <3>1. b[n] + layout[n] = b[n + 1]
      <4>1. n \in 1..n
        OBVIOUS
      <4>2. b[n] + layout[n] = 1 + Total(layout) + reserved
        BY <1>11, <1>15, <4>1
      <4> QED BY <1>15, <2>1, <2>3, <4>2
    <3> QED BY <1>16, <1>17, <2>4, <2>5, <3>1
  <2>6. CASE i # n
    <3>1. i \in 1..n - 1 /\ ~ (i <= reserved)
      BY <2>1, <2>6
    <3>2. b[i + 1] = b[i] + layout[i]
      BY <1>16, <1>17, <3>1
    <3> QED BY <1>16, <1>17, <2>4, <3>2
  <2> QED BY <2>5, <2>6
<1>21. ASSUME NEW i \in 1..n, NEW d \in 1..tripDays, Within(b, i, d)
       PROVE  IsDayOf(calendar[d], plan, b, i, d)
  <2> DEFINE leaving == Leaving(d, layout, reserved)
             here == Here(d, n, layout, reserved)
  <2>1. \A j \in 1..n : Within(b, j, d) => j = i
    BY <1>18, <1>21, DayHasStay
  <2>2. \A j \in leaving : j = i /\ i < n /\ d + 1 = b[i + 1]
    <3> SUFFICES ASSUME NEW j \in leaving PROVE j = i /\ i < n /\ d + 1 = b[i + 1]
      OBVIOUS
    <3>1. j \in 1..n /\ j \in 1..n - 1 /\ j <= reserved /\ d = B(j) + layout[j]
      BY <1>5 DEF Leaving, B
    <3>2. d + 1 = b[j + 1] /\ b[j] <= d
      <4>1. b[j + 1] = b[j] + layout[j] + 1
        BY <1>16, <3>1
      <4>2. b[j] = B(j) /\ b[j] \in Nat /\ layout[j] \in Nat
        BY <1>15, <1>16, <1>17, <3>1
      <4> QED BY <3>1, <4>1, <4>2
    <3>3. Within(b, j, d)
      BY <1>17, <3>1, <3>2 DEF Within
    <3>4. j = i
      BY <2>1, <3>1, <3>3
    <3> QED BY <3>1, <3>2, <3>4
  <2>3. \A j \in here : j = i
    <3> SUFFICES ASSUME NEW j \in here PROVE j = i
      OBVIOUS
    <3>1. j \in 1..n /\ B(j) <= d /\ d < B(j) + layout[j]
      BY DEF Here, B
    <3>2. Within(b, j, d)
      BY <1>15, <1>16, <1>17, <3>1 DEF Within
    <3> QED BY <2>1, <3>1, <3>2
  <2>4. Min({i}) = i
    <3>1. PICK S : S = {i}
      OBVIOUS
    <3>2. S \in SUBSET Int /\ IsFiniteSet(S) /\ S # {}
      BY <3>1, FS_Singleton
    <3>3. Min(S) \in S
      BY <3>2, FiniteMaxMin
    <3> QED BY <3>1, <3>3
  <2>5. leaving = {} /\ here = {} => i = n
    <3> SUFFICES ASSUME leaving = {}, here = {}, i # n PROVE FALSE
      OBVIOUS
    <3>1. i \in 1..n - 1 /\ b[i] = B(i) /\ b[i] \in Nat /\ layout[i] \in Nat
      BY <1>15, <1>16, <1>17
    <3>2. b[i] <= d /\ d < b[i + 1]
      BY <1>21 DEF Within
    <3>3. ~ (d < b[i] + layout[i])
      <4>1. ~ (B(i) <= d /\ d < B(i) + layout[i])
        BY DEF Here, B
      <4> QED BY <3>1, <3>2, <4>1
    <3>4. b[i + 1] = b[i] + layout[i] + (IF i <= reserved THEN 1 ELSE 0)
      BY <1>16, <3>1
    <3>5. i <= reserved /\ d = B(i) + layout[i]
      BY <3>1, <3>2, <3>3, <3>4
    <3>6. i \in 1..reserved
      BY <1>5, <3>5
    <3>7. i \in leaving
      BY <3>5, <3>6 DEF Leaving, B
    <3> QED BY <3>7
  <2>6. StayOf(d, n, layout, reserved) = i
    <3>1. StayOf(d, n, layout, reserved) =
            IF leaving # {} THEN Min(leaving) ELSE IF here # {} THEN Min(here) ELSE n
      BY DEF StayOf
    <3> HIDE DEF leaving, here
    <3>2. CASE leaving # {}
      <4>1. leaving = {i}
        BY <2>2, <3>2
      <4> QED BY <2>4, <3>1, <3>2, <4>1
    <3>3. CASE leaving = {} /\ here # {}
      <4>1. here = {i}
        BY <2>3, <3>3
      <4> QED BY <2>4, <3>1, <3>3, <4>1
    <3>4. CASE leaving = {} /\ here = {}
      BY <2>5, <3>1, <3>4
    <3> QED BY <3>2, <3>3, <3>4
  <2>7. /\ calendar[d].stay = i /\ calendar[d].city = plan[i].city
        /\ calendar[d].moving = (leaving # {})
    <3>1. calendar[d] = WindowOf(d, plan, n, layout, reserved)
      BY <1>14
    <3> QED BY <2>6, <3>1 DEF WindowOf
  <2>8. {"city", "stay", "moving", "sleeps", "transfer", "extra"} \subseteq DOMAIN calendar[d]
    <3>1. calendar[d] = WindowOf(d, plan, n, layout, reserved)
      BY <1>14
    <3> QED BY <3>1 DEF WindowOf
  <2> QED BY <1>1, <2>2, <2>7, <2>8 DEF IsDayOf
<1>22. Covers(calendar, plan, b, tripDays)
  BY <1>1, <1>21 DEF Covers
<1>23. calendar = [d \in 1..tripDays |-> calendar[d]]
  BY <1>14
<1>24. \A d \in 1..tripDays : calendar[d].transfer = <<>>
  <2> SUFFICES ASSUME NEW d \in 1..tripDays PROVE calendar[d].transfer = <<>>
    OBVIOUS
  <2>1. calendar[d] = WindowOf(d, plan, n, layout, reserved)
    BY <1>14
  <2> QED BY <2>1 DEF WindowOf
<1> QED BY <1>1, <1>2, <1>13, <1>18, <1>19, <1>20, <1>22, <1>23, <1>24

-----------------------------------------------------------------------------
(* What a leg may be.                                                      *)

Value == Nat \cup {Unknown}

IsCandidate(c) == {c.minutes, c.price} \subseteq Value /\ c.veto \in BOOLEAN

\* The image of a finite set by f.
LEMMA FiniteImage ==
  ASSUME NEW S, IsFiniteSet(S), NEW f, f = [x \in S |-> f[x]]
  PROVE  IsFiniteSet({f[x] : x \in S})
<1>1. f \in Surjection(S, {f[x] : x \in S})
  BY DEF Surjection
<1> QED BY <1>1, FS_Surjection

LEMMA ValuesFinite ==
  ASSUME NEW set, IsFiniteSet(set), \A c \in set : IsCandidate(c)
  PROVE  /\ IsFiniteSet({c.minutes : c \in set}) /\ {c.minutes : c \in set} \subseteq Value
         /\ IsFiniteSet({c.price : c \in set}) /\ {c.price : c \in set} \subseteq Value
<1> DEFINE m == [c \in set |-> c.minutes]
           p == [c \in set |-> c.price]
<1>1. IsFiniteSet({m[c] : c \in set}) /\ IsFiniteSet({p[c] : c \in set})
  BY FiniteImage
<1>2. {m[c] : c \in set} = {c.minutes : c \in set} /\ {p[c] : c \in set} = {c.price : c \in set}
  OBVIOUS
<1> QED BY <1>1, <1>2 DEF IsCandidate

LEMMA CandidateIs ==
  ASSUME NEW world, NEW place, NEW mode, NEW minutes \in Value, NEW price \in Value,
         world.sky[place] \in Sky
  PROVE  IsCandidate(Candidate(world, place, mode, minutes, price))
<1>1. Vetoed(world.sky[place], mode) \in BOOLEAN
  BY DEF Vetoed
<1> QED BY <1>1 DEF IsCandidate, Candidate

LEMMA TrainsFinite ==
  ASSUME NEW world, NEW place, IsPlace(world, place)
  PROVE  /\ IsFiniteSet(DOMAIN world.trains[place])
         /\ IsFiniteSet(RailCandidates(world, place))
         /\ \A c \in RailCandidates(world, place) : IsCandidate(c)
         /\ \A i \in DOMAIN world.trains[place] : IsTrain(world.trains[place][i], place)
<1> DEFINE trains == world.trains[place]
           f == [i \in DOMAIN trains |-> TrainCandidate(world, place, i)]
<1>1. trains \in Seq(Range(trains)) /\ \A t \in Range(trains) : IsTrain(t, place)
  BY DEF IsPlace
<1>2. DOMAIN trains = 1..Len(trains) /\ Len(trains) \in Nat
  BY <1>1
<1>3. IsFiniteSet(DOMAIN trains)
  BY <1>2, FS_Interval
<1>4. IsFiniteSet({f[i] : i \in DOMAIN trains})
  BY <1>3, FiniteImage
<1>5. {f[i] : i \in DOMAIN trains} = RailCandidates(world, place)
  BY DEF RailCandidates
<1>6. \A i \in DOMAIN trains : IsTrain(trains[i], place)
  BY <1>1 DEF Range
<1>7. ASSUME NEW i \in DOMAIN trains PROVE IsCandidate(TrainCandidate(world, place, i))
  BY <1>6, CandidateIs DEF TrainCandidate, IsTrain, Value, IsPlace
<1> QED BY <1>3, <1>4, <1>5, <1>6, <1>7 DEF RailCandidates

LEMMA RoadsFinite ==
  ASSUME NEW world, NEW place, IsPlace(world, place)
  PROVE  /\ IsFiniteSet(RoadCandidates(world, place))
         /\ \A c \in RoadCandidates(world, place) : IsCandidate(c)
<1> DEFINE modes == {m \in RoadModes : /\ world.origin
                                       /\ world.km[place] <= MaxKm(m)
                                       /\ world.road[place][m] >= 0}
           f == [m \in modes |-> Candidate(world, place, m, world.road[place][m], Unknown)]
<1>1. IsFiniteSet(RoadModes)
  <2>1. RoadModes = {"driving"} \cup {"bicycling"} \cup {"walking"}
    BY DEF RoadModes
  <2> QED BY <2>1, FS_Singleton, FS_AddElement
<1>2. modes \in SUBSET RoadModes
  OBVIOUS
<1>3. IsFiniteSet(modes)
  BY <1>1, <1>2, FS_Subset
<1>4. IsFiniteSet({f[m] : m \in modes})
  BY <1>3, FiniteImage
<1>5. {f[m] : m \in modes} = RoadCandidates(world, place)
  BY DEF RoadCandidates
<1>6. ASSUME NEW m \in modes
      PROVE  IsCandidate(Candidate(world, place, m, world.road[place][m], Unknown))
  <2>1. world.road[place][m] \in Nat
    BY DEF IsPlace, NoRoute, Unavailable
  <2> QED BY <2>1, CandidateIs DEF IsPlace, Value
<1> QED BY <1>4, <1>5, <1>6 DEF RoadCandidates

LEMMA CandidatesFinite ==
  ASSUME NEW world, IsWorld(world)
  PROVE  /\ IsFiniteSet(Candidates(world))
         /\ \A c \in Candidates(world) : IsCandidate(c)
<1> DEFINE dests == world.dests
           f == [p \in Range(dests) |-> CandidatesTo(world, p)]
           each == {f[p] : p \in Range(dests)}
<1>1. dests \in Seq(Range(dests)) /\ \A p \in Range(dests) : IsPlace(world, p)
  BY DEF IsWorld
<1>2. IsFiniteSet(Range(dests))
  <2>1. DOMAIN dests = 1..Len(dests) /\ Len(dests) \in Nat
    BY <1>1
  <2>2. IsFiniteSet(DOMAIN dests)
    BY <2>1, FS_Interval
  <2>3. dests \in Surjection(DOMAIN dests, Range(dests))
    BY <1>1 DEF Surjection, Range
  <2> QED BY <2>2, <2>3, FS_Surjection
<1>3. \A p \in Range(dests) : /\ IsFiniteSet(CandidatesTo(world, p))
                              /\ \A c \in CandidatesTo(world, p) : IsCandidate(c)
  BY <1>1, TrainsFinite, RoadsFinite DEF CandidatesTo
<1>4. IsFiniteSet(each)
  BY <1>2, FiniteImage
<1>5. \A T \in each : IsFiniteSet(T)
  BY <1>3
<1>6. UNION each = Candidates(world)
  BY DEF Candidates
<1>7. IsFiniteSet(UNION each)
  BY <1>4, <1>5, FS_UNION
<1> QED BY <1>3, <1>6, <1>7 DEF Candidates

-----------------------------------------------------------------------------
(* The choice.                                                             *)

LEMMA SpanMeasures ==
  ASSUME NEW values \in SUBSET Value, IsFiniteSet(values)
  PROVE  /\ Span(values) \in Nat \ {0}
         /\ Known(values) # {} => \A v \in Nat : Goodness(v, values) \in Int
         /\ \A v, w \in Known(values) :
              /\ v <= w => Goodness(v, values) >= Goodness(w, values)
              /\ v < w => Goodness(v, values) > Goodness(w, values)
<1>1. /\ Known(values) \in SUBSET values /\ Known(values) \in SUBSET Nat
      /\ Known(values) \in SUBSET Int
  <2>1. \A v \in Known(values) : v \in values /\ v # Unknown /\ v \in Value
    BY DEF Known
  <2>2. \A v \in Known(values) : v \in Nat
    BY <2>1 DEF Value
  <2> QED BY <2>1, <2>2
<1>2. IsFiniteSet(Known(values))
  BY <1>1, FS_Subset
<1>3. CASE Known(values) = {}
  BY <1>3 DEF Span
<1>4. CASE Known(values) # {}
  <2> DEFINE low == Min(Known(values))
             high == Max(Known(values))
  <2>1. low \in Nat /\ high \in Nat /\ \A v \in Known(values) : low <= v /\ v <= high
    BY <1>1, <1>2, <1>4, FiniteMaxMin
  <2>2. Span(values) = IF 1 >= high - low THEN 1 ELSE high - low
    <3>1. Span(values) = Max({1, high - low})
      BY <1>4 DEF Span
    <3> HIDE DEF high, low
    <3> QED BY <3>1, <2>1, MaxOfTwo
  <2>3. ASSUME NEW v \in Nat
        PROVE  Beyond(v, values) = IF 0 >= v - low THEN 0 ELSE v - low
    <3>1. Beyond(v, values) = Max({0, v - low})
      BY DEF Beyond
    <3> HIDE DEF low
    <3> QED BY <3>1, <2>1, MaxOfTwo
  <2>4. \A v \in Nat : Goodness(v, values) = Span(values) - Beyond(v, values)
    BY DEF Goodness
  <2>5. Span(values) \in Nat \ {0}
    <3> HIDE DEF low, high
    <3> QED BY <2>1, <2>2
  <2>6. \A v \in Nat : Goodness(v, values) \in Int
    <3> HIDE DEF low, high
    <3> QED BY <2>1, <2>3, <2>4, <2>5
  <2>7. \A v \in Known(values) : v \in Nat /\ Goodness(v, values) = Span(values) - (v - low)
    <3> HIDE DEF low, high
    <3> QED BY <1>1, <2>1, <2>3, <2>4
  <2>8. \A v, w \in Known(values) :
          /\ v <= w => Goodness(v, values) >= Goodness(w, values)
          /\ v < w => Goodness(v, values) > Goodness(w, values)
    <3> HIDE DEF low, high
    <3> QED BY <2>1, <2>5, <2>7
  <2> QED BY <2>5, <2>6, <2>8
<1> QED BY <1>3, <1>4

LEMMA PenaltyIsNat ==
  ASSUME NEW sky, NEW mode
  PROVE  Penalty(sky, mode) \in Nat
  BY DEF Penalty

\* A score, taken apart.
Minutes(set) == {d.minutes : d \in set}
Prices(set) == {d.price : d \in set}

HasTime(c, set) == c.minutes # Unknown /\ Known(Minutes(set)) # {}
HasPrice(c, set) == c.price # Unknown /\ Known(Prices(set)) # {}
TimePart(c, set) ==
  IF HasTime(c, set) THEN Goodness(c.minutes, Minutes(set)) * Span(Prices(set)) ELSE 0
PricePart(c, set) ==
  IF HasPrice(c, set) THEN Goodness(c.price, Prices(set)) * Span(Minutes(set)) ELSE 0
Weighed(c, set) ==
  IF HasTime(c, set) /\ HasPrice(c, set) THEN TimePart(c, set) + PricePart(c, set)
  ELSE 2 * (TimePart(c, set) + PricePart(c, set))
Malus(c) == Penalty(c.sky, c.mode) + (IF c.sky = "beyond" THEN 75 ELSE 45)

LEMMA ScoreIs ==
  ASSUME NEW c, NEW set
  PROVE  Score(c, set) = 1000 * Weighed(c, set)
                         - 2 * Span(Minutes(set)) * Span(Prices(set)) * Malus(c)
  BY DEF Score, Weighed, TimePart, PricePart, HasTime, HasPrice, Minutes, Prices, Malus

LEMMA Times ==
  ASSUME NEW a \in Int, NEW b \in Int, NEW k \in Nat \ {0}
  PROVE  /\ a * k \in Int
         /\ a <= b => a * k <= b * k /\ k * a <= k * b
         /\ a < b => a * k < b * k /\ k * a < k * b
  OBVIOUS

LEMMA PartsOfScore ==
  ASSUME NEW set, IsFiniteSet(set), \A c \in set : IsCandidate(c)
  PROVE  /\ Span(Minutes(set)) \in Nat \ {0} /\ Span(Prices(set)) \in Nat \ {0}
         /\ \A c \in set : /\ TimePart(c, set) \in Int /\ PricePart(c, set) \in Int
                           /\ Weighed(c, set) \in Int
                           /\ Malus(c) \in Nat
<1>1. /\ IsFiniteSet(Minutes(set)) /\ Minutes(set) \in SUBSET Value
      /\ IsFiniteSet(Prices(set)) /\ Prices(set) \in SUBSET Value
  BY ValuesFinite DEF Minutes, Prices
<1>2. /\ Span(Minutes(set)) \in Nat \ {0} /\ Span(Prices(set)) \in Nat \ {0}
      /\ Known(Minutes(set)) # {} => \A v \in Nat : Goodness(v, Minutes(set)) \in Int
      /\ Known(Prices(set)) # {} => \A v \in Nat : Goodness(v, Prices(set)) \in Int
  BY <1>1, SpanMeasures
<1>3. ASSUME NEW c \in set PROVE TimePart(c, set) \in Int /\ PricePart(c, set) \in Int
  <2>1. /\ c.minutes # Unknown => c.minutes \in Nat
        /\ c.price # Unknown => c.price \in Nat
    BY DEF IsCandidate, Value
  <2>2. HasTime(c, set) => Goodness(c.minutes, Minutes(set)) \in Int
    BY <1>2, <2>1 DEF HasTime
  <2>3. HasPrice(c, set) => Goodness(c.price, Prices(set)) \in Int
    BY <1>2, <2>1 DEF HasPrice
  <2> QED BY <1>2, <2>2, <2>3, Times DEF TimePart, PricePart
<1>4. \A c \in set : Malus(c) \in Nat
  BY PenaltyIsNat DEF Malus
<1> QED BY <1>2, <1>3, <1>4 DEF Weighed

LEMMA ScoreIsInt ==
  ASSUME NEW set, IsFiniteSet(set), \A c \in set : IsCandidate(c), NEW c \in set
  PROVE  Score(c, set) \in Int
<1> DEFINE k == Span(Minutes(set))
           l == Span(Prices(set))
<1>1. k \in Int /\ l \in Int /\ Weighed(c, set) \in Int /\ Malus(c) \in Int
  BY PartsOfScore
<1>2. Score(c, set) = 1000 * Weighed(c, set) - 2 * k * l * Malus(c)
  BY ScoreIs
<1> HIDE DEF k, l
<1> QED BY <1>1, <1>2

LEMMA BetterScoresMore ==
  ASSUME NEW set, IsFiniteSet(set), \A c \in set : IsCandidate(c),
         NEW c \in set, NEW d \in set, Better(d, c)
  PROVE  Score(d, set) > Score(c, set)
<1> DEFINE k == Span(Minutes(set))
           l == Span(Prices(set))
           Gt(e) == Goodness(e.minutes, Minutes(set))
           Gp(e) == Goodness(e.price, Prices(set))
<1>1. /\ IsFiniteSet(Minutes(set)) /\ Minutes(set) \in SUBSET Value
      /\ IsFiniteSet(Prices(set)) /\ Prices(set) \in SUBSET Value
  BY ValuesFinite DEF Minutes, Prices
<1>2. k \in Nat \ {0} /\ l \in Nat \ {0} /\ Malus(c) \in Int /\ Malus(d) \in Int
  BY PartsOfScore
<1>3. \A e \in {c, d} : e.minutes \in Known(Minutes(set)) /\ HasTime(e, set)
  BY DEF Better, Known, Minutes, HasTime
<1>4. /\ Gt(c) \in Int /\ Gt(d) \in Int /\ Gt(d) >= Gt(c)
      /\ d.minutes < c.minutes => Gt(d) > Gt(c)
  <2>1. c.minutes \in Nat /\ d.minutes \in Nat /\ d.minutes <= c.minutes
    BY DEF Better, IsCandidate, Value
  <2> QED BY <1>1, <1>3, <2>1, SpanMeasures
<1>5. TimePart(c, set) = Gt(c) * l /\ TimePart(d, set) = Gt(d) * l
  BY <1>3 DEF TimePart
<1>6. /\ Malus(d) <= Malus(c)
      /\ Penalty(d.sky, d.mode) < Penalty(c.sky, c.mode) => Malus(d) < Malus(c)
  BY PenaltyIsNat DEF Malus, Better
<1>7. \A e \in {c, d} : Score(e, set) = 1000 * Weighed(e, set) - 2 * k * l * Malus(e)
  BY ScoreIs
<1>8. d.minutes < c.minutes \/ d.price < c.price
      \/ Penalty(d.sky, d.mode) < Penalty(c.sky, c.mode)
  BY DEF Better
<1> DEFINE q == 2 * k * l
<1>9. q \in Nat \ {0}
  <2> HIDE DEF k, l
  <2>1. k * l \in Nat \ {0}
    BY <1>2
  <2>2. 2 * k * l = 2 * (k * l)
    BY <1>2
  <2> QED BY <2>1, <2>2
<1>12. /\ q * Malus(c) \in Int /\ q * Malus(d) \in Int /\ q * Malus(d) <= q * Malus(c)
       /\ Malus(d) < Malus(c) => q * Malus(d) < q * Malus(c)
  <2> HIDE DEF q
  <2> QED BY <1>2, <1>6, <1>9, Times
<1>10. CASE d.price = Unknown /\ c.price = Unknown
  <2>1. ~HasPrice(c, set) /\ ~HasPrice(d, set)
    BY <1>10 DEF HasPrice
  <2>2. \A e \in {c, d} : Weighed(e, set) = 2 * (Gt(e) * l + 0)
    BY <2>1, <1>5 DEF Weighed, PricePart
  <2>3. d.minutes < c.minutes \/ Penalty(d.sky, d.mode) < Penalty(c.sky, c.mode)
    BY <1>8, <1>10 DEF Unknown
  <2>4. /\ Gt(c) * l \in Int /\ Gt(d) * l \in Int /\ Gt(d) * l >= Gt(c) * l
        /\ d.minutes < c.minutes => Gt(d) * l > Gt(c) * l
    BY <1>2, <1>4, Times
  <2> DEFINE x == Gt(c) * l
             y == Gt(d) * l
  <2>6. /\ Score(c, set) = 1000 * (2 * (x + 0)) - q * Malus(c)
        /\ Score(d, set) = 1000 * (2 * (y + 0)) - q * Malus(d)
    BY <1>7, <2>2
  <2>7. /\ x \in Int /\ y \in Int /\ y >= x
        /\ d.minutes < c.minutes => y > x
    BY <2>4
  <2> HIDE DEF q, x, y
  <2> QED BY <1>6, <1>12, <2>3, <2>6, <2>7
<1>11. CASE {d.price, c.price} \cap {Unknown, 0} = {}
  <2>1. \A e \in {c, d} : e.price \in Known(Prices(set)) /\ HasPrice(e, set)
    BY <1>11 DEF Known, Prices, HasPrice
  <2>2. /\ Gp(c) \in Int /\ Gp(d) \in Int /\ Gp(d) >= Gp(c)
        /\ d.price < c.price => Gp(d) > Gp(c)
    <3>1. c.price \in Nat /\ d.price \in Nat /\ d.price <= c.price
      BY <1>11 DEF Better, IsCandidate, Value
    <3> QED BY <1>1, <2>1, <3>1, SpanMeasures
  <2>3. \A e \in {c, d} : Weighed(e, set) = Gt(e) * l + Gp(e) * k
    BY <2>1, <1>3, <1>5 DEF Weighed, PricePart
  <2> DEFINE x == Gt(c) * l
             y == Gt(d) * l
             u == Gp(c) * k
             v == Gp(d) * k
  <2>4. /\ x \in Int /\ y \in Int /\ y >= x
        /\ d.minutes < c.minutes => y > x
    BY <1>2, <1>4, Times
  <2>5. /\ u \in Int /\ v \in Int /\ v >= u
        /\ d.price < c.price => v > u
    BY <1>2, <2>2, Times
  <2>7. /\ Score(c, set) = 1000 * (x + u) - q * Malus(c)
        /\ Score(d, set) = 1000 * (y + v) - q * Malus(d)
    BY <1>7, <2>3
  <2> HIDE DEF q, x, y, u, v
  <2> QED BY <1>6, <1>8, <1>12, <2>4, <2>5, <2>7
<1> QED BY <1>10, <1>11 DEF Better

LEMMA SelectedRanksFirst ==
  ASSUME NEW set, IsFiniteSet(set), set # {}, \A c \in set : IsCandidate(c)
  PROVE  Selected(set) \in set /\ \A d \in set : Ranks(Selected(set), d, set)
<1> DEFINE R == {p \in set \X set : Ranks(p[1], p[2], set)}
<1>1. \A c, d \in set : <<c, d>> \in R <=> Ranks(c, d, set)
  OBVIOUS
<1>2. \A c \in set : c.veto \in BOOLEAN /\ Score(c, set) \in Int
  BY ScoreIsInt DEF IsCandidate
<1>3. Orders(R, set)
  <2>1. \A c, d \in set : Ranks(c, d, set) \/ Ranks(d, c, set)
    BY <1>2 DEF Ranks
  <2>2. \A c, d, e \in set : Ranks(c, d, set) /\ Ranks(d, e, set) => Ranks(c, e, set)
    BY <1>2 DEF Ranks
  <2> HIDE DEF R
  <2> QED BY <1>1, <2>1, <2>2 DEF Orders
<1>4. PICK x : IsBest(x, R, set)
  BY <1>3, HasBest
<1>5. x \in set /\ \A d \in set : Ranks(x, d, set)
  BY <1>1, <1>4 DEF IsBest
<1> QED BY <1>5 DEF Selected
\* What a step of the choice promises of a leg.
Chooses(leg) ==
  \A c \in leg.pick, d \in leg.options :
    (c.veto => d.veto) /\ (d.veto = c.veto => ~Better(d, c))

LEMMA SingleChooses ==
  ASSUME NEW world, IsWorld(world), NEW from, NEW to
  PROVE  Chooses(SingleLeg(world, from, to))
<1> DEFINE set == Candidates(world)
           leg == SingleLeg(world, from, to)
<1>1. IsFiniteSet(set) /\ \A c \in set : IsCandidate(c)
  BY CandidatesFinite
<1>2. leg.options = set /\ leg.pick = (IF set = {} THEN {} ELSE {Selected(set)})
  BY DEF SingleLeg, Leg
<1> SUFFICES ASSUME NEW c \in leg.pick, NEW d \in leg.options
             PROVE  (c.veto => d.veto) /\ (d.veto = c.veto => ~Better(d, c))
  BY DEF Chooses
<1>3. set # {} /\ c = Selected(set) /\ d \in set
  BY <1>2
<1>4. c \in set /\ Ranks(c, d, set)
  BY <1>1, <1>3, SelectedRanksFirst
<1>5. Better(d, c) => Score(d, set) > Score(c, set)
  BY <1>1, <1>3, <1>4, BetterScoresMore
<1>6. Score(d, set) \in Int /\ Score(c, set) \in Int
  BY <1>1, <1>3, <1>4, ScoreIsInt
<1>7. c.veto \in BOOLEAN /\ d.veto \in BOOLEAN
  BY <1>1, <1>3, <1>4 DEF IsCandidate
<1> HIDE DEF set
<1>8. c.veto => d.veto
  BY <1>4, <1>7 DEF Ranks
<1>9. d.veto = c.veto => ~Better(d, c)
  BY <1>4, <1>5, <1>6, <1>7 DEF Ranks
<1> QED BY <1>8, <1>9
-----------------------------------------------------------------------------
(* The chain.                                                              *)

Kinds == {"single", "road", "rail"}

\* What moving a leg to its day needs to know of it.
HasTimes(leg) ==
  /\ {"kind", "from", "to", "depart", "arrive", "minutes", "price", "approx"} \subseteq DOMAIN leg
  /\ leg.depart \in Int /\ leg.arrive \in Int /\ leg.minutes \in Value

IsLeg(leg) ==
  /\ leg.kind \in Kinds
  /\ HasTimes(leg) /\ leg.price \in Value
  /\ Timed(leg) => leg.arrive >= leg.depart
  /\ Chooses(leg)

\* leg can be left for next with the time its kind needs, no more.
Joins(leg, next) ==
  /\ leg.to = next.from
  /\ leg.arrive # NoClock /\ next.depart # NoClock
  /\ next.depart = leg.arrive + Buffer(leg)

IsChain(legs) ==
  /\ legs # <<>> /\ Len(legs) \in Nat \ {0} /\ DOMAIN legs = 1..Len(legs)
  /\ \A i \in DOMAIN legs : IsLeg(legs[i])
  /\ \A i \in 1..Len(legs) - 1 : Joins(legs[i], legs[i + 1])

LEMMA ChainKeepsTime ==
  ASSUME NEW legs, IsChain(legs)
  PROVE  ~OutOfOrder(legs) /\ ~ShortOfTime(legs)
<1>1. Len(legs) \in Nat /\ DOMAIN legs = 1..Len(legs)
  BY DEF IsChain
<1>2. \A i \in DOMAIN legs : ~(Timed(legs[i]) /\ legs[i].arrive < legs[i].depart)
  BY DEF IsChain, IsLeg, HasTimes, Timed
<1>3. ASSUME NEW i \in 1..Len(legs) - 1
      PROVE  /\ ~(legs[i + 1].depart < legs[i].arrive)
             /\ ~(legs[i + 1].depart - legs[i].arrive < Buffer(legs[i]))
  <2>1. i \in DOMAIN legs
    BY <1>1
  <2>2. legs[i].arrive \in Int /\ legs[i + 1].depart = legs[i].arrive + Buffer(legs[i])
    BY <2>1 DEF IsChain, IsLeg, HasTimes, Timed, Joins
  <2>3. Buffer(legs[i]) \in {3, 4}
    BY DEF Buffer
  <2> QED BY <2>2, <2>3
<1> QED BY <1>2, <1>3 DEF OutOfOrder, ShortOfTime

LEMMA OneLeg ==
  ASSUME NEW leg, IsLeg(leg)
  PROVE  IsChain(<<leg>>)
  BY DEF IsChain

LEMMA LegIs ==
  ASSUME NEW kind \in Kinds, NEW from, NEW to, NEW depart \in Int, NEW arrive \in Int,
         NEW minutes \in Value, NEW price \in Value,
         depart # NoClock /\ arrive # NoClock => arrive >= depart
  PROVE  /\ IsLeg(Leg(kind, from, to, depart, arrive, minutes, price))
         /\ LET leg == Leg(kind, from, to, depart, arrive, minutes, price)
            IN  /\ leg.kind = kind /\ leg.from = from /\ leg.to = to
                /\ leg.depart = depart /\ leg.arrive = arrive
  BY DEF Leg, IsLeg, HasTimes, Timed, Chooses

LEMMA SingleIsLeg ==
  ASSUME NEW world, IsWorld(world), NEW from, NEW to
  PROVE  IsLeg(SingleLeg(world, from, to))
<1>1. Chooses(SingleLeg(world, from, to))
  BY SingleChooses
<1>2. /\ SingleLeg(world, from, to).kind = "single"
      /\ SingleLeg(world, from, to).depart = NoClock
      /\ SingleLeg(world, from, to).arrive = NoClock
      /\ SingleLeg(world, from, to).minutes = Unknown
      /\ SingleLeg(world, from, to).price = Unknown
  BY DEF SingleLeg, Leg
<1>3. NoClock \in Int
  BY DEF NoClock
<1>4. {"kind", "from", "to", "depart", "arrive", "minutes", "price", "approx"} \subseteq DOMAIN SingleLeg(world, from, to)
  BY DEF SingleLeg, Leg
<1> QED BY <1>1, <1>2, <1>3, <1>4 DEF IsLeg, HasTimes, Kinds, Timed, Value

LEMMA OnDay ==
  ASSUME NEW day \in Nat \ {0}, NEW clock \in 0..Day - 1
  PROVE  /\ On(day, clock) = (day - 1) * Day + clock
         /\ On(day, clock) \in Nat /\ On(day, clock) # NoClock
  BY DEF On, Day, NoClock

\* What a train's two clock times become on the day of the trip.
LEMMA TrainTimes ==
  ASSUME NEW day \in Nat \ {0}, NEW d \in 0..Day - 1, NEW a \in 0..Day - 1
  PROVE  LET depart == On(day, d)
             arrive == On(IF a < d THEN day + 1 ELSE day, a)
         IN  depart \in Nat /\ arrive \in Nat /\ depart <= arrive
<1>1. PICK n \in Nat : day = n + 1
  <2>1. day - 1 \in Nat /\ day = (day - 1) + 1
    OBVIOUS
  <2> QED BY <2>1
<1>2. d \in 0..95 /\ a \in 0..95
  BY DEF Day
<1>3. On(day, d) = n * 96 + d /\ On(day, a) = n * 96 + a
  <2>1. On(day, d) = (day - 1) * Day + d /\ On(day, a) = (day - 1) * Day + a
    BY OnDay
  <2>2. day - 1 = n
    BY <1>1
  <2> QED BY <2>1, <2>2 DEF Day
<1>4. On(day + 1, a) = (n + 1) * 96 + a
  <2>1. day + 1 \in Nat \ {0} /\ (day + 1) - 1 = n + 1
    BY <1>1
  <2> QED BY <2>1, OnDay DEF Day
<1>5. CASE a < d
  BY <1>2, <1>3, <1>4, <1>5
<1>6. CASE ~(a < d)
  BY <1>2, <1>3, <1>6
<1> QED BY <1>5, <1>6

\* A train's leg with a way to it and one from it, or without.
LEMMA Concatenations ==
  ASSUME NEW a, NEW b, NEW c
  PROVE  /\ (<<>> \o <<b>>) \o <<>> = <<b>> /\ (<<a>> \o <<b>>) \o <<>> = <<a, b>>
         /\ (<<>> \o <<b>>) \o <<c>> = <<b, c>> /\ (<<a>> \o <<b>>) \o <<c>> = <<a, b, c>>
<1> DEFINE S == {a, b, c}
<1>1. /\ <<>> \in Seq(S) /\ <<a>> \in Seq(S) /\ <<b>> \in Seq(S) /\ <<c>> \in Seq(S)
      /\ <<a, b>> \in Seq(S) /\ <<b, c>> \in Seq(S)
  OBVIOUS
<1>2. <<>> \o <<b>> = <<b>> /\ <<b>> \o <<>> = <<b>> /\ <<a, b>> \o <<>> = <<a, b>>
  BY <1>1, ConcatEmptySeq
<1>3. /\ <<a>> \o <<b>> = <<a, b>> /\ <<b>> \o <<c>> = <<b, c>>
      /\ <<a, b>> \o <<c>> = <<a, b, c>>
  <2>1. /\ Append(<<a>>, b) = <<a, b>> /\ Append(<<b>>, c) = <<b, c>>
        /\ Append(<<a, b>>, c) = <<a, b, c>>
    <3>1. ASSUME NEW x \in S, NEW y \in S
          PROVE  Append(<<x>>, y) = <<x, y>>
      <4>1. <<x>> \in Seq(S) /\ <<x, y>> \in Seq(S) /\ Len(<<x>>) = 1 /\ Len(<<x, y>>) = 2
        OBVIOUS
      <4>2. /\ Append(<<x>>, y) \in Seq(S) /\ Len(Append(<<x>>, y)) = 2
            /\ Append(<<x>>, y)[1] = x /\ Append(<<x>>, y)[2] = y
        BY <4>1, AppendProperties
      <4>3. \A i \in 1..2 : Append(<<x>>, y)[i] = <<x, y>>[i]
        BY <4>2
      <4> QED BY <4>1, <4>2, <4>3, SeqEqual
    <3>2. Append(<<a, b>>, c) = <<a, b, c>>
      <4>1. /\ <<a, b>> \in Seq(S) /\ <<a, b, c>> \in Seq(S) /\ c \in S
            /\ Len(<<a, b>>) = 2 /\ Len(<<a, b, c>>) = 3
        OBVIOUS
      <4>2. /\ Append(<<a, b>>, c) \in Seq(S) /\ Len(Append(<<a, b>>, c)) = 3
            /\ Append(<<a, b>>, c)[1] = a /\ Append(<<a, b>>, c)[2] = b
            /\ Append(<<a, b>>, c)[3] = c
        BY <4>1, AppendProperties
      <4>3. \A i \in 1..3 : Append(<<a, b>>, c)[i] = <<a, b, c>>[i]
        BY <4>2
      <4> QED BY <4>1, <4>2, <4>3, SeqEqual
    <3> QED BY <3>1, <3>2
  <2>2. b \in S /\ c \in S
    OBVIOUS
  <2> HIDE DEF S
  <2> QED BY <1>1, <2>1, <2>2, AppendIsConcat
<1> HIDE DEF S
<1> QED BY <1>2, <1>3

\* A train, with or without a way to it and a way from it.
LEMMA ThreeLegs ==
  ASSUME NEW way, NEW rail, NEW out, IsLeg(way), IsLeg(rail), IsLeg(out),
         Joins(way, rail), Joins(rail, out)
  PROVE  /\ IsChain(<<rail>>) /\ IsChain(<<way, rail>>) /\ IsChain(<<rail, out>>)
         /\ IsChain(<<way, rail, out>>)
<1>1. IsChain(<<rail>>)
  BY OneLeg
<1>2. IsChain(<<way, rail>>)
  BY DEF IsChain
<1>3. IsChain(<<rail, out>>)
  BY DEF IsChain
<1>4. IsChain(<<way, rail, out>>)
  <2> DEFINE legs == <<way, rail, out>>
  <2>1. legs # <<>> /\ Len(legs) = 3 /\ DOMAIN legs = 1..3
    OBVIOUS
  <2>2. legs[1] = way /\ legs[2] = rail /\ legs[3] = out
    OBVIOUS
  <2> HIDE DEF legs
  <2>3. \A i \in 1..3 : IsLeg(legs[i])
    <3>1. \A i \in 1..3 : i = 1 \/ i = 2 \/ i = 3
      OBVIOUS
    <3> QED BY <2>2, <3>1
  <2>4. \A i \in 1..2 : Joins(legs[i], legs[i + 1])
    <3>1. \A i \in 1..2 : (i = 1 /\ i + 1 = 2) \/ (i = 2 /\ i + 1 = 3)
      OBVIOUS
    <3> QED BY <2>2, <3>1
  <2>5. Len(legs) \in Nat /\ 1..Len(legs) - 1 = 1..2
    BY <2>1
  <2>6. IsChain(legs)
    BY <2>1, <2>3, <2>4, <2>5 DEF IsChain
  <2> QED BY <2>6 DEF legs
<1> QED BY <1>1, <1>2, <1>3, <1>4

LEMMA LegsLead ==
  ASSUME NEW way, NEW rail, NEW out, NEW from, NEW to,
         way.from = City(from), way.to = Station(from), rail.from = Station(from),
         rail.to \in {City(to), Station(to)}, out.from = rail.to, out.to = City(to)
  PROVE  /\ Leads(<<rail>>, from, to) /\ Leads(<<way, rail>>, from, to)
         /\ Leads(<<rail, out>>, from, to) /\ Leads(<<way, rail, out>>, from, to)
<1>1. Leads(<<rail>>, from, to)
  BY DEF Leads, Last
<1>2. Leads(<<way, rail>>, from, to)
  BY DEF Leads, Last
<1>3. Leads(<<rail, out>>, from, to)
  BY DEF Leads, Last
<1>4. Leads(<<way, rail, out>>, from, to)
  <2> DEFINE legs == <<way, rail, out>>
  <2>1. legs # <<>> /\ Head(legs) = way /\ Last(legs) = out /\ Len(legs) = 3
    BY DEF Last
  <2>2. legs[1] = way /\ legs[2] = rail /\ legs[3] = out
    OBVIOUS
  <2> HIDE DEF legs
  <2>3. \A i \in 1..2 : legs[i].to = legs[i + 1].from
    <3>1. \A i \in 1..2 : (i = 1 /\ i + 1 = 2) \/ (i = 2 /\ i + 1 = 3)
      OBVIOUS
    <3> QED BY <2>2, <3>1
  <2>4. 1..Len(legs) - 1 = 1..2
    BY <2>1
  <2>5. Leads(legs, from, to)
    BY <2>1, <2>3, <2>4 DEF Leads
  <2> QED BY <2>5 DEF legs
<1> QED BY <1>1, <1>2, <1>3, <1>4

\* A train with a timetable makes a chain.
LEMMA ChainOfTrain ==
  ASSUME NEW world, IsWorld(world), NEW train, NEW from, NEW to, IsTrain(train, to),
         NEW day \in Nat \ {0}
  PROVE  LET legs == ChainFor(world, train, from, to, day)
         IN  IF NoClock \in {train.depart, train.arrive} THEN legs = <<>>
             ELSE IsChain(legs) /\ Leads(legs, from, to)
<1>1. CASE NoClock \in {train.depart, train.arrive}
  BY <1>1 DEF ChainFor
<1>2. CASE NoClock \notin {train.depart, train.arrive}
  <2>1. train.depart \in 0..Day - 1 /\ train.arrive \in 0..Day - 1
    BY <1>2 DEF IsTrain
  <2>2. world.access \in 0..800 /\ world.egress \in 0..800
    BY DEF IsWorld
  <2>3. train.minutes \in Value /\ train.price \in Value /\ train.to \in {City(to), Station(to)}
    BY DEF IsTrain, Value
  <2>4. PICK depart \in Nat, arrive \in Nat :
             /\ depart = On(day, train.depart)
             /\ arrive = On(IF train.arrive < train.depart THEN day + 1 ELSE day, train.arrive)
             /\ depart <= arrive
    BY <2>1, TrainTimes
  <2>5. PICK comes, goes : /\ comes \in 0..800 /\ goes \in 0..800
                          /\ comes = world.access /\ goes = world.egress
    BY <2>2, Zenon
  <2> DEFINE way == Leg("road", City(from), Station(from), (depart - 3) - comes, depart - 3,
                        comes, Unknown)
             out == Leg("road", train.to, City(to), arrive + 4, (arrive + 4) + goes,
                        goes, Unknown)
             rail == RailLeg(train, from, to, depart, arrive)
             before == IF ~world.origin \/ comes = 0 THEN <<>> ELSE <<way>>
             after == IF goes = 0 THEN <<>> ELSE <<out>>
             legs == (before \o <<rail>>) \o after
  <2>6. /\ depart - 3 \in Int /\ (depart - 3) - comes \in Int /\ (depart - 3) - comes <= depart - 3
        /\ arrive + 4 \in Int /\ (arrive + 4) + goes \in Int
        /\ arrive + 4 <= (arrive + 4) + goes
        /\ depart - 3 # NoClock /\ depart # NoClock /\ arrive # NoClock /\ arrive + 4 # NoClock
        /\ depart = (depart - 3) + 3 /\ comes \in Value /\ goes \in Value
    <3>1. comes \in 0..800 /\ goes \in 0..800
      BY <2>5
    <3>2. comes \in Nat /\ goes \in Nat
      BY <3>1
    <3>3. /\ depart - 3 \in Int /\ (depart - 3) - comes \in Int
          /\ (depart - 3) - comes <= depart - 3
      BY <3>2
    <3>4. arrive + 4 \in Int /\ (arrive + 4) + goes \in Int /\ arrive + 4 <= (arrive + 4) + goes
      BY <3>2
    <3>5. depart - 3 # NoClock /\ depart # NoClock /\ arrive # NoClock /\ arrive + 4 # NoClock
      BY DEF NoClock
    <3>6. depart = (depart - 3) + 3
      OBVIOUS
    <3>7. comes \in Value /\ goes \in Value
      BY <3>2 DEF Value
    <3> QED BY <3>3, <3>4, <3>5, <3>6, <3>7
  <2>7. "road" \in Kinds /\ "rail" \in Kinds /\ Unknown \in Value
    BY DEF Kinds, Value
  <2>8. /\ IsLeg(way) /\ way.kind = "road" /\ way.to = Station(from) /\ way.arrive = depart - 3
        /\ way.from = City(from)
    BY <2>6, <2>7, LegIs
  <2>9. /\ IsLeg(out) /\ out.from = train.to /\ out.depart = arrive + 4 /\ out.to = City(to)
    BY <2>6, <2>7, LegIs
  <2>10. /\ IsLeg(rail) /\ rail.kind = "rail" /\ rail.from = Station(from) /\ rail.to = train.to
         /\ rail.depart = depart /\ rail.arrive = arrive
    <3>1. depart \in Int /\ arrive \in Int
      OBVIOUS
    <3>2. rail = Leg("rail", Station(from), train.to, depart, arrive, train.minutes, train.price)
      BY DEF RailLeg
    <3> HIDE DEF rail
    <3> QED BY <2>3, <2>4, <2>7, <3>1, <3>2, LegIs
  <2>11. Joins(way, rail) /\ Joins(rail, out)
    <3>1. Buffer(way) = 3 /\ Buffer(rail) = 4
      <4> HIDE DEF way, rail
      <4> QED BY <2>8, <2>10 DEF Buffer
    <3> HIDE DEF way, rail, out
    <3> QED BY <3>1, <2>6, <2>8, <2>9, <2>10 DEF Joins
  <2>12. legs \in {<<rail>>, <<way, rail>>, <<rail, out>>, <<way, rail, out>>}
    <3> HIDE DEF way, rail, out
    <3>1. before \in {<<>>, <<way>>} /\ after \in {<<>>, <<out>>}
      OBVIOUS
    <3> HIDE DEF before, after
    <3>2. \A u \in {<<>>, <<way>>}, v \in {<<>>, <<out>>} :
             (u \o <<rail>>) \o v \in {<<rail>>, <<way, rail>>, <<rail, out>>, <<way, rail, out>>}
      <4>1. ASSUME NEW u \in {<<>>, <<way>>}, NEW v \in {<<>>, <<out>>}
            PROVE  (u \o <<rail>>) \o v
                     \in {<<rail>>, <<way, rail>>, <<rail, out>>, <<way, rail, out>>}
        <5>1. (u = <<>> \/ u = <<way>>) /\ (v = <<>> \/ v = <<out>>)
          OBVIOUS
        <5>2. /\ (<<>> \o <<rail>>) \o <<>> = <<rail>>
              /\ (<<way>> \o <<rail>>) \o <<>> = <<way, rail>>
              /\ (<<>> \o <<rail>>) \o <<out>> = <<rail, out>>
              /\ (<<way>> \o <<rail>>) \o <<out>> = <<way, rail, out>>
          BY Concatenations
        <5> QED BY <5>1, <5>2, Zenon
      <4> QED BY <4>1
    <3> QED BY <3>1, <3>2
  <2>13. IsChain(legs)
    <3> HIDE DEF way, rail, out, legs
    <3>1. IsLeg(way) /\ IsLeg(rail) /\ IsLeg(out)
      BY <2>8, <2>9, <2>10
    <3>2. /\ IsChain(<<rail>>) /\ IsChain(<<way, rail>>) /\ IsChain(<<rail, out>>)
          /\ IsChain(<<way, rail, out>>)
      BY <2>11, <3>1, ThreeLegs
    <3> QED BY <2>12, <3>2
  <2>14. ~OutOfOrder(legs)
    <3> HIDE DEF legs
    <3> QED BY <2>13, ChainKeepsTime
  <2>15. ChainFor(world, train, from, to, day) = IF OutOfOrder(legs) THEN <<>> ELSE legs
    BY <1>2, <2>4, <2>5 DEF ChainFor
  <2>16. Leads(legs, from, to)
    <3> HIDE DEF way, rail, out, legs
    <3>1. /\ Leads(<<rail>>, from, to) /\ Leads(<<way, rail>>, from, to)
          /\ Leads(<<rail, out>>, from, to) /\ Leads(<<way, rail, out>>, from, to)
      BY <2>3, <2>8, <2>9, <2>10, LegsLead
    <3> QED BY <2>12, <3>1
  <2> HIDE DEF legs
  <2> QED BY <1>2, <2>13, <2>14, <2>15, <2>16
<1> QED BY <1>1, <1>2
-----------------------------------------------------------------------------
(* The train that is taken.                                                *)

LEMMA FirstIsBest ==
  ASSUME NEW world, NEW place, IsPlace(world, place),
         NEW some \in SUBSET DOMAIN world.trains[place], some # {}
  PROVE  /\ First(world, place, some) \in some
         /\ \A j \in some : Precedes(world, place, First(world, place, some), j)
         /\ \A i, j \in some :
              Precedes(world, place, i, j) /\ Precedes(world, place, j, i) => i = j
<1> DEFINE set == RailCandidates(world, place)
           Points(k) == Score(TrainCandidate(world, place, k), set)
           R == {p \in some \X some : Precedes(world, place, p[1], p[2])}
<1>1. /\ IsFiniteSet(DOMAIN world.trains[place]) /\ IsFiniteSet(set)
      /\ \A c \in set : IsCandidate(c)
  BY TrainsFinite
<1>2. IsFiniteSet(some)
  BY <1>1, FS_Subset
<1>3. some \subseteq Nat
  <2>1. world.trains[place] \in Seq(Range(world.trains[place]))
    BY DEF IsPlace
  <2>2. DOMAIN world.trains[place] \subseteq Nat
    BY <2>1
  <2> QED BY <2>2
<1>4. \A k \in some : Points(k) \in Int
  <2>1. \A k \in some : TrainCandidate(world, place, k) \in set
    BY DEF RailCandidates
  <2> QED BY <1>1, <2>1, ScoreIsInt
<1>5. \A i, j \in some : Precedes(world, place, i, j)
                         <=> Points(i) > Points(j) \/ (Points(i) = Points(j) /\ i <= j)
  BY DEF Precedes
<1>6. /\ \A i, j \in some : Precedes(world, place, i, j) \/ Precedes(world, place, j, i)
      /\ \A i, j, k \in some : Precedes(world, place, i, j) /\ Precedes(world, place, j, k)
                               => Precedes(world, place, i, k)
      /\ \A i, j \in some :
              Precedes(world, place, i, j) /\ Precedes(world, place, j, i) => i = j
  <2> HIDE DEF Points
  <2> QED BY <1>3, <1>4, <1>5
<1>7. \A i, j \in some : <<i, j>> \in R <=> Precedes(world, place, i, j)
  OBVIOUS
<1>8. Orders(R, some)
  <2> HIDE DEF R
  <2> QED BY <1>6, <1>7 DEF Orders
<1>9. PICK x : IsBest(x, R, some)
  BY <1>2, <1>8, HasBest
<1>10. x \in some /\ \A j \in some : Precedes(world, place, x, j)
  BY <1>7, <1>9 DEF IsBest
<1> QED BY <1>6, <1>10 DEF First

\* The best train is among those that are tried.
LEMMA BestIsTried ==
  ASSUME NEW world, NEW place, IsPlace(world, place), world.origin = TRUE,
         world.trains[place] # <<>>
  PROVE  First(world, place, DOMAIN world.trains[place]) \in Attempts(world, place)
<1> DEFINE all == DOMAIN world.trains[place]
           best == First(world, place, all)
<1>1. all # {}
  <2>1. world.trains[place] \in Seq(Range(world.trains[place]))
    BY DEF IsPlace
  <2>2. 1 \in DOMAIN world.trains[place]
    BY <2>1
  <2> QED BY <2>2
<1>2. /\ best \in all /\ \A j \in all : Precedes(world, place, best, j)
      /\ \A j \in all : Precedes(world, place, j, best) => j = best
  BY <1>1, FirstIsBest
<1>3. {j \in all : Precedes(world, place, j, best)} = {best}
  <2> HIDE DEF all, best
  <2> QED BY <1>2
<1>4. Cardinality({j \in all : Precedes(world, place, j, best)}) <= MaxChainAttempts
  <2>1. Cardinality({best}) = 1
    BY FS_Singleton
  <2>2. 1 <= MaxChainAttempts
    BY AttemptsAssumption
  <2> QED BY <1>3, <2>1, <2>2
<1>5. Trains(world, place) = world.trains[place]
  BY DEF Trains
<1> QED BY <1>2, <1>4, <1>5 DEF Attempts

\* What is asked about one of the places alone.
LEMMA AloneIsWorld ==
  ASSUME NEW world, IsWorld(world), NEW to \in Range(world.dests)
  PROVE  IsWorld(Alone(world, to)) /\ Range(Alone(world, to).dests) = {to}
<1>1. /\ Alone(world, to).dests = <<to>>
      /\ Alone(world, to).origin = world.origin /\ Alone(world, to).km = world.km
      /\ Alone(world, to).sky = world.sky /\ Alone(world, to).road = world.road
      /\ Alone(world, to).trains = world.trains
      /\ Alone(world, to).access = world.access /\ Alone(world, to).egress = world.egress
  BY DEF Alone, IsWorld
<1>2. Range(<<to>>) = {to} /\ <<to>> \in Seq({to})
  BY DEF Range
<1>3. IsPlace(world, to)
  BY DEF IsWorld
<1>4. IsPlace(Alone(world, to), to)
  BY <1>1, <1>3 DEF IsPlace
<1> QED BY <1>1, <1>2, <1>4 DEF IsWorld

LEMMA SingleLeads ==
  ASSUME NEW world, IsWorld(world), NEW from, NEW to, Range(world.dests) = {to}
  PROVE  Leads(<<SingleLeg(world, from, to)>>, from, to)
<1> DEFINE set == Candidates(world)
           place == IF set = {} THEN to ELSE Selected(set).place
           leg == SingleLeg(world, from, to)
<1>1. leg.from = City(from) /\ leg.to = City(place)
  BY DEF SingleLeg, Leg
<1>2. \A c \in set : c.place = to
  <2> SUFFICES ASSUME NEW c \in set PROVE c.place = to
    OBVIOUS
  <2>1. PICK p \in Range(world.dests) : c \in CandidatesTo(world, p)
    BY DEF Candidates
  <2>2. c.place = p
    BY <2>1 DEF CandidatesTo, RailCandidates, RoadCandidates, TrainCandidate, Candidate
  <2> QED BY <2>1, <2>2
<1>3. place = to
  <2>1. CASE set = {}
    BY <2>1
  <2>2. CASE set # {}
    <3>1. Selected(set) \in set
      <4>1. IsFiniteSet(set) /\ \A c \in set : IsCandidate(c)
        BY CandidatesFinite
      <4> HIDE DEF set
      <4> QED BY <2>2, <4>1, SelectedRanksFirst
    <3> QED BY <1>2, <2>2, <3>1
  <2> QED BY <2>1, <2>2
<1> HIDE DEF leg
<1>4. Leads(<<leg>>, from, to)
  BY <1>1, <1>3 DEF Leads, Last
<1> QED BY <1>4 DEF leg

LEMMA RailChainIs ==
  ASSUME NEW world, IsWorld(world), world.dests # <<>>, NEW from, NEW day \in Nat \ {0}
  PROVE  /\ IsChain(RailChain(world, from, day))
         /\ Leads(RailChain(world, from, day), from, Head(world.dests))
<1> DEFINE to == Head(world.dests)
           trains == Trains(world, to)
           Chain(i) == ChainFor(world, trains[i], from, to, day)
           fits == {i \in Attempts(world, to) : Chain(i) # <<>>}
           first == First(world, to, DOMAIN trains)
           best == trains[first]
           alone == RailLeg(best, from, to, On(day, best.depart), On(day, best.arrive))
<1>1. IsPlace(world, to) /\ to \in Range(world.dests)
  <2>1. world.dests \in Seq(Range(world.dests)) /\ world.origin \in BOOLEAN
    BY DEF IsWorld
  <2>2. to \in Range(world.dests)
    BY <2>1 DEF Range
  <2> QED BY <2>2 DEF IsWorld
<1>2. CASE trains = <<>>
  <2>1. RailChain(world, from, day) = <<SingleLeg(Alone(world, to), from, to)>>
    BY <1>2 DEF RailChain
  <2>2. IsWorld(Alone(world, to)) /\ Range(Alone(world, to).dests) = {to}
    <3> HIDE DEF to
    <3> QED BY <1>1, AloneIsWorld
  <2>3. IsChain(<<SingleLeg(Alone(world, to), from, to)>>)
    <3> HIDE DEF to
    <3> QED BY <2>2, SingleIsLeg, OneLeg
  <2>4. Leads(<<SingleLeg(Alone(world, to), from, to)>>, from, to)
    <3> HIDE DEF to
    <3> QED BY <2>2, SingleLeads
  <2> QED BY <2>1, <2>3, <2>4
<1>3. CASE trains # <<>>
  <2>1. world.origin = TRUE /\ trains = world.trains[to]
    BY <1>3 DEF Trains, IsWorld
  <2>2. \A i \in DOMAIN trains : IsTrain(trains[i], to)
    BY <1>1, <2>1, TrainsFinite
  <2>3. fits \subseteq DOMAIN trains
    BY DEF Attempts
  <2>4. CASE fits # {}
    <3> DEFINE i == First(world, to, fits)
    <3>1. i \in fits
      BY <1>1, <2>1, <2>3, <2>4, FirstIsBest
    <3>2. RailChain(world, from, day) = Chain(i)
      BY <1>3, <2>4 DEF RailChain
    <3>3. IsTrain(trains[i], to) /\ Chain(i) # <<>>
      BY <2>2, <2>3, <3>1
    <3>4. IsChain(Chain(i)) /\ Leads(Chain(i), from, to)
      BY <3>3, ChainOfTrain
    <3> QED BY <3>2, <3>4
  <2>5. CASE fits = {}
    <3>1. RailChain(world, from, day) = <<alone>>
      BY <1>3, <2>5 DEF RailChain
    <3>2. first \in Attempts(world, to) /\ first \in DOMAIN trains
      BY <1>1, <1>3, <2>1, BestIsTried DEF Attempts
    <3>3. IsTrain(best, to) /\ Chain(first) = <<>>
      BY <2>2, <2>5, <3>2
    <3>4. NoClock \in {best.depart, best.arrive}
      BY <3>3, ChainOfTrain DEF IsChain
    <3>5. /\ On(day, best.depart) \in Int /\ On(day, best.arrive) \in Int
          /\ On(day, best.depart) = NoClock \/ On(day, best.arrive) = NoClock
      <4>1. \A clock \in 0..Day - 1 \cup {NoClock} : On(day, clock) \in Int
        BY OnDay DEF On, NoClock
      <4>2. On(day, NoClock) = NoClock
        BY DEF On
      <4> QED BY <3>3, <3>4, <4>1, <4>2 DEF IsTrain
    <3>6. best.minutes \in Value /\ best.price \in Value /\ best.to \in {City(to), Station(to)}
      BY <3>3 DEF IsTrain, Value
    <3>7. IsLeg(alone) /\ alone.from = Station(from) /\ alone.to = best.to
      <4> HIDE DEF best
      <4> QED BY <3>5, <3>6, LegIs DEF RailLeg, Kinds
    <3>8. Leads(<<alone>>, from, to)
      <4> HIDE DEF alone, best
      <4> QED BY <3>6, <3>7 DEF Leads, Last
    <3>9. IsChain(<<alone>>)
      <4> HIDE DEF alone
      <4> QED BY <3>7, OneLeg
    <3> QED BY <3>1, <3>8, <3>9
  <2> QED BY <2>4, <2>5
<1> QED BY <1>2, <1>3

LEMMA BuildTripIs ==
  ASSUME NEW world, IsWorld(world), NEW from, NEW to, NEW day \in Nat \ {0},
         NEW force \in BOOLEAN, force => world.dests # <<>>
  PROVE  /\ IsChain(BuildTrip(world, from, to, day, force))
         /\ force /\ to = Head(world.dests) =>
              Leads(BuildTrip(world, from, to, day, force), from, to)
<1>1. CASE Intercity(world, force)
  <2>1. world.dests # <<>>
    BY <1>1 DEF Intercity
  <2>2. BuildTrip(world, from, to, day, force) = RailChain(world, from, day)
    BY <1>1 DEF BuildTrip
  <2> QED BY <2>1, <2>2, RailChainIs
<1>2. CASE ~Intercity(world, force)
  <2>1. BuildTrip(world, from, to, day, force) = <<SingleLeg(world, from, to)>> /\ ~force
    BY <1>2 DEF BuildTrip, Intercity
  <2>2. IsChain(<<SingleLeg(world, from, to)>>)
    BY SingleIsLeg, OneLeg
  <2> QED BY <2>1, <2>2
<1> QED BY <1>1, <1>2
-----------------------------------------------------------------------------
(* A chain moved to its day.                                               *)

LEMMA ClockOfTime ==
  ASSUME NEW n \in Nat, NEW c \in 0..95
  PROVE  n * 96 + c \in Nat /\ (n * 96 + c) % 96 = c
OBVIOUS

\* Two clock times with a short gap between them, none of them past midnight.
LEMMA ClockGap ==
  ASSUME NEW a \in Int, NEW b \in 0..95, a % 96 <= (a + b) % 96
  PROVE  (a + b) % 96 = (a % 96) + b
OBVIOUS

LEMMA Moved ==
  ASSUME NEW day \in Nat \ {0}, NEW time \in Int, time # NoClock
  PROVE  /\ time % 96 \in 0..95 /\ Clock(time) = time % 96
         /\ On(day, Clock(time)) = (day - 1) * 96 + (time % 96)
         /\ On(day, Clock(time)) \in Nat
         /\ On(day, Clock(time)) % 96 = time % 96
<1>1. time % 96 \in 0..95 /\ Clock(time) = time % 96
  BY DEF Clock, Day
<1>2. On(day, Clock(time)) = (day - 1) * 96 + (time % 96)
  <2>1. time % 96 \in 0..Day - 1
    BY <1>1 DEF Day
  <2>2. On(day, time % 96) = (day - 1) * Day + (time % 96)
    BY <2>1, OnDay
  <2> QED BY <1>1, <2>2 DEF Day
<1>3. day - 1 \in Nat
  OBVIOUS
<1>4. ((day - 1) * 96 + (time % 96)) \in Nat /\ ((day - 1) * 96 + (time % 96)) % 96 = time % 96
  BY <1>1, <1>3, ClockOfTime
<1> QED BY <1>1, <1>2, <1>4

\* What is left of a leg's times when only its date is replaced.
Follows(new, leg, day) ==
  /\ new.kind = leg.kind /\ new.depart \in Nat
  /\ \E clock \in 0..95 : new.depart = (day - 1) * 96 + clock
  /\ leg.depart # NoClock => new.depart = (day - 1) * 96 + (leg.depart % 96)
  /\ leg.arrive # NoClock =>
       \E time \in Nat :
          /\ time = (day - 1) * 96 + (leg.arrive % 96)
          /\ new.arrive = (IF time < new.depart THEN time + 96 ELSE time)

LEMMA RetimedLeg ==
  ASSUME NEW leg, HasTimes(leg), NEW day \in Nat \ {0}
  PROVE  LET new == RetimeLeg(leg, day)
         IN  /\ Follows(new, leg, day) /\ HasTimes(new) /\ new.minutes = leg.minutes
             /\ leg.arrive = NoClock /\ leg.minutes \in {Unknown, 0} => new.arrive = NoClock
             /\ leg.arrive # NoClock \/ leg.minutes \notin {Unknown, 0} =>
                  new.arrive \in Nat /\ new.arrive >= new.depart
<1> DEFINE depart == IF leg.depart = NoClock THEN On(day, DayStart) ELSE On(day, Clock(leg.depart))
           arrive == IF leg.arrive # NoClock THEN On(day, Clock(leg.arrive))
                     ELSE IF leg.minutes \notin {Unknown, 0} THEN depart + leg.minutes ELSE NoClock
           late == IF arrive # NoClock /\ arrive < depart THEN arrive + Day ELSE arrive
           new == RetimeLeg(leg, day)
<1>1. leg.depart \in Int /\ leg.arrive \in Int /\ leg.minutes \in Value
  BY DEF HasTimes
<1>2. /\ new.kind = leg.kind /\ new.minutes = leg.minutes
      /\ new.depart = depart /\ new.arrive = late
      /\ {"kind", "from", "to", "depart", "arrive", "minutes", "price", "approx"} \subseteq DOMAIN new
  BY DEF HasTimes, RetimeLeg
<1>3. depart \in Nat /\ \E clock \in 0..95 : depart = (day - 1) * 96 + clock
  <2>1. CASE leg.depart = NoClock
    <3>1. DayStart \in 0..Day - 1 /\ depart = On(day, DayStart)
      BY <2>1, RhythmAssumption
    <3>2. depart = (day - 1) * Day + DayStart /\ depart \in Nat
      BY <3>1, OnDay
    <3>3. DayStart \in 0..95 /\ depart = (day - 1) * 96 + DayStart
      BY <3>1, <3>2 DEF Day
    <3> QED BY <3>2, <3>3
  <2>2. CASE leg.depart # NoClock
    <3>1. /\ depart \in Nat /\ depart = (day - 1) * 96 + (leg.depart % 96)
          /\ leg.depart % 96 \in 0..95
      BY <1>1, <2>2, Moved
    <3> QED BY <3>1
  <2> QED BY <2>1, <2>2
<1>4. leg.depart # NoClock => depart = (day - 1) * 96 + (leg.depart % 96)
  BY <1>1, Moved
<1> HIDE DEF depart
<1>5. CASE leg.arrive # NoClock
  <2>1. arrive \in Nat /\ arrive = (day - 1) * 96 + (leg.arrive % 96)
    BY <1>1, <1>5, Moved
  <2>2. day - 1 \in Nat /\ leg.arrive % 96 \in 0..95
    BY <1>1
  <2>3. \A n \in Nat, c \in 0..95, e \in 0..95 : n * 96 + c + 96 >= n * 96 + e
    OBVIOUS
  <2> HIDE DEF arrive
  <2>4. late = (IF arrive < depart THEN arrive + 96 ELSE arrive)
    BY <2>1 DEF Day, NoClock
  <2>5. late \in Nat /\ late >= depart
    <3>1. arrive + 96 >= depart
      BY <1>3, <2>1, <2>2, <2>3
    <3> QED BY <1>3, <2>1, <2>4, <3>1
  <2>6. Follows(new, leg, day)
    BY <1>2, <1>3, <1>4, <2>1, <2>4 DEF Follows
  <2>7. HasTimes(new)
    BY <1>1, <1>2, <1>3, <2>5 DEF HasTimes
  <2> HIDE DEF late
  <2> QED BY <1>2, <1>5, <2>5, <2>6, <2>7
<1>6. CASE leg.arrive = NoClock
  <2>1. Follows(new, leg, day)
    BY <1>2, <1>3, <1>4, <1>6 DEF Follows
  <2>2. CASE leg.minutes \in {Unknown, 0}
    <3>1. late = NoClock
      BY <1>6, <2>2
    <3>2. HasTimes(new)
      BY <1>1, <1>2, <1>3, <3>1 DEF HasTimes, NoClock
    <3> HIDE DEF late
    <3> QED BY <1>2, <1>6, <2>1, <2>2, <3>1, <3>2
  <2>3. CASE leg.minutes \notin {Unknown, 0}
    <3>1. leg.minutes \in Nat /\ arrive = depart + leg.minutes
      BY <1>1, <1>6, <2>3 DEF Value
    <3> HIDE DEF arrive
    <3>2. arrive \in Nat /\ arrive >= depart
      BY <1>3, <3>1
    <3>3. late = arrive
      BY <1>3, <3>2
    <3>4. HasTimes(new)
      BY <1>1, <1>2, <1>3, <3>2, <3>3 DEF HasTimes
    <3> HIDE DEF late
    <3> QED BY <1>2, <1>6, <2>1, <2>3, <3>2, <3>3, <3>4
  <2> QED BY <2>2, <2>3
<1> QED BY <1>5, <1>6

\* A leg of a moved chain: Follows is kept by the second move too.
LEMMA LegOfRetimed ==
  ASSUME NEW legs, NEW i \in DOMAIN legs, HasTimes(legs[i]),
         NEW day \in Nat \ {0}, NEW km \in Nat
  PROVE  LET new == Retimed(legs, day, km)[i]
         IN  Follows(new, legs[i], day) /\ new.arrive \in Nat /\ new.arrive >= new.depart
<1> DEFINE leg == legs[i]
           once == RetimeLeg(leg, day)
           given == [once EXCEPT !.minutes = Estimate(km), !.approx = TRUE]
           again == RetimeLeg(given, day)
           Timeless == once.arrive = NoClock /\ once.minutes \in {Unknown, 0}
<1>1. Retimed(legs, day, km)[i] = IF Timeless THEN again ELSE once
  BY DEF Retimed
<1>2. /\ Follows(once, leg, day) /\ HasTimes(once) /\ once.minutes = leg.minutes
      /\ leg.arrive = NoClock /\ leg.minutes \in {Unknown, 0} => once.arrive = NoClock
      /\ leg.arrive # NoClock \/ leg.minutes \notin {Unknown, 0} =>
           once.arrive \in Nat /\ once.arrive >= once.depart
  BY RetimedLeg
<1>3. CASE ~Timeless
  <2>1. leg.arrive # NoClock \/ leg.minutes \notin {Unknown, 0}
    <3> HIDE DEF leg, once
    <3> QED BY <1>2, <1>3
  <2> HIDE DEF once
  <2> QED BY <1>1, <1>2, <1>3, <2>1
<1>4. CASE Timeless
  <2>1. leg.arrive = NoClock
    <3>1. \A n \in Nat : n # NoClock
      BY DEF NoClock
    <3> HIDE DEF leg, once
    <3> QED BY <1>2, <1>4, <3>1
  <2>2. Estimate(km) \in Nat \ {0}
    BY DEF Estimate
  <2> HIDE DEF once
  <2>3. /\ HasTimes(given) /\ given.minutes \in Nat \ {0}
        /\ given.kind = once.kind /\ given.depart = once.depart /\ given.arrive = once.arrive
    BY <1>2, <2>2 DEF HasTimes, Value
  <2>4. given.minutes \notin {Unknown, 0}
    BY <2>3 DEF Unknown
  <2>5. Follows(again, given, day) /\ again.arrive \in Nat /\ again.arrive >= again.depart
    <3> HIDE DEF given
    <3> QED BY <2>3, <2>4, RetimedLeg
  <2>6. Follows(again, leg, day)
    <3>1. /\ again.kind = leg.kind /\ again.depart \in Nat
          /\ \E clock \in 0..95 : again.depart = (day - 1) * 96 + clock
      BY <1>2, <2>3, <2>5 DEF Follows
    <3>2. ASSUME leg.depart # NoClock
          PROVE  again.depart = (day - 1) * 96 + (leg.depart % 96)
      <4>1. once.depart = (day - 1) * 96 + (leg.depart % 96) /\ once.depart \in Nat
        BY <1>2, <3>2 DEF Follows
      <4>2. again.depart = (day - 1) * 96 + (once.depart % 96)
        <5>1. once.depart # NoClock
          BY <4>1 DEF NoClock
        <5> HIDE DEF given, again
        <5> QED BY <2>3, <2>5, <5>1 DEF Follows
      <4>3. leg.depart % 96 \in 0..95
        <5>1. leg.depart \in Int
          BY DEF HasTimes
        <5> HIDE DEF leg
        <5> QED BY <5>1
      <4>4. day - 1 \in Nat
        OBVIOUS
      <4>5. once.depart % 96 = leg.depart % 96
        <5> HIDE DEF leg
        <5> QED BY <4>1, <4>3, <4>4, ClockOfTime
      <4> QED BY <4>1, <4>2, <4>5
    <3> HIDE DEF leg, again
    <3> QED BY <2>1, <3>1, <3>2 DEF Follows
  <2> HIDE DEF given, again
  <2> QED BY <1>1, <1>4, <2>5, <2>6
<1> QED BY <1>3, <1>4

\* Moving a leg to a day changes neither where it goes nor what it costs.
Goes(new, leg) == new.from = leg.from /\ new.to = leg.to /\ new.price = leg.price

LEMMA RetimedGoes ==
  ASSUME NEW legs, NEW i \in DOMAIN legs, HasTimes(legs[i]), NEW day, NEW km
  PROVE  Goes(Retimed(legs, day, km)[i], legs[i])
<1> DEFINE leg == legs[i]
           once == RetimeLeg(leg, day)
           given == [once EXCEPT !.minutes = Estimate(km), !.approx = TRUE]
           again == RetimeLeg(given, day)
           Fields == {"from", "to", "price"}
<1>1. Retimed(legs, day, km)[i] = IF once.arrive = NoClock /\ once.minutes \in {Unknown, 0}
                                  THEN again ELSE once
  BY DEF Retimed
<1>2. Fields \subseteq DOMAIN leg
  BY DEF HasTimes
<1>3. \A l : Fields \subseteq DOMAIN l =>
             Goes(RetimeLeg(l, day), l) /\ Fields \subseteq DOMAIN RetimeLeg(l, day)
  BY DEF Goes, RetimeLeg
<1>4. Goes(once, leg) /\ Fields \subseteq DOMAIN once
  <2> HIDE DEF Fields
  <2> QED BY <1>2, <1>3
<1>5. Goes(given, once) /\ Fields \subseteq DOMAIN given
  <2> HIDE DEF once
  <2> QED BY <1>4 DEF Goes
<1>6. Goes(again, given)
  <2> HIDE DEF Fields, given
  <2> QED BY <1>3, <1>5
<1> HIDE DEF once, given, again
<1> QED BY <1>1, <1>4, <1>5, <1>6 DEF Goes

\* Two legs that are joined keep their gap when neither runs past midnight.
LEMMA GapOfRetimed ==
  ASSUME NEW leg, NEW next, HasTimes(leg), HasTimes(next), Joins(leg, next),
         NEW day \in Nat \ {0}, NEW new, NEW then, Follows(new, leg, day), Follows(then, next, day),
         new.arrive \in Nat, new.arrive >= new.depart,
         Clock(new.depart) <= Clock(new.arrive), Clock(new.arrive) <= Clock(then.depart)
  PROVE  then.depart = new.arrive + Buffer(new)
<1> DEFINE base == (day - 1) * 96
<1>1. PICK a \in Int, b \in {3, 4} : leg.arrive = a /\ b = Buffer(leg) /\ next.depart = a + b
  BY DEF Joins, HasTimes, Buffer
<1>2. Buffer(new) = b
  BY <1>1 DEF Follows, Buffer
<1>3. PICK n \in Nat : n = day - 1 
  OBVIOUS
<1>4. a # NoClock /\ a + b # NoClock
  BY <1>1 DEF Joins
<1>5. PICK time \in Nat : /\ time = n * 96 + (a % 96)
                          /\ new.arrive = (IF time < new.depart THEN time + 96 ELSE time)
  BY <1>1, <1>3, <1>4 DEF Follows
<1>6. then.depart = n * 96 + ((a + b) % 96) /\ then.depart \in Nat /\ new.depart \in Nat
  BY <1>1, <1>3, <1>4 DEF Follows
<1>7. a % 96 \in 0..95 /\ (a + b) % 96 \in 0..95
  BY <1>1
<1>8. \A m \in Nat : Clock(m) = m % 96
  BY DEF Clock, Day, NoClock
<1>9. time % 96 = a % 96 /\ then.depart % 96 = (a + b) % 96
  BY <1>5, <1>6, <1>7, ClockOfTime
<1>10. (time + 96) % 96 = a % 96
  <2>1. n + 1 \in Nat /\ time + 96 = (n + 1) * 96 + (a % 96)
    BY <1>5, <1>7
  <2> QED BY <1>7, <2>1, ClockOfTime
<1>11. time >= new.depart
  <2> SUFFICES ASSUME time < new.depart
               PROVE  FALSE
    BY <1>5, <1>6
  <2>1. new.arrive = time + 96 /\ Clock(new.arrive) = a % 96
    BY <1>5, <1>8, <1>10
  <2>2. PICK e \in 0..95 : new.depart = n * 96 + e
    BY <1>3 DEF Follows
  <2>3. Clock(new.depart) = e
    BY <1>6, <1>8, <2>2, ClockOfTime
  <2>4. e > a % 96
    BY <1>5, <1>7, <2>2
  <2> QED BY <1>7, <2>1, <2>3, <2>4
<1>12. new.arrive = n * 96 + (a % 96) /\ a % 96 <= (a + b) % 96
  BY <1>5, <1>6, <1>8, <1>9, <1>11
<1>13. (a + b) % 96 = (a % 96) + b
  <2>1. a \in Int /\ b \in 0..95
    OBVIOUS
  <2> QED BY <1>12, <2>1, ClockGap
<1> QED BY <1>2, <1>6, <1>7, <1>12, <1>13

\* What ChainsAreFeasible asks of the links of one hop.
KeepsTime(legs) == SameDay(legs) => ~OutOfOrder(legs) /\ ~ShortOfTime(legs)

LEMMA RetimedKeepsTime ==
  ASSUME NEW legs, IsChain(legs), NEW day \in Nat \ {0}, NEW km \in Nat
  PROVE  KeepsTime(Retimed(legs, day, km))
<1> DEFINE moved == Retimed(legs, day, km)
<1>1. PICK n \in Nat : n = Len(legs) /\ DOMAIN legs = 1..n
  BY Zenon DEF IsChain
<1>2. Len(moved) = n /\ DOMAIN moved = 1..n
  <2>1. moved \in [1..n -> Range(moved)] /\ DOMAIN moved = 1..n
    BY <1>1, Zenon DEF Retimed, Range
  <2> HIDE DEF moved
  <2>2. n \in Nat
    OBVIOUS
  <2>3. Len(moved) = n
    BY <2>1, <2>2, IsSeq, Zenon
  <2> QED BY <2>1, <2>3, Zenon
<1>3. ASSUME NEW i \in 1..n
      PROVE  /\ Follows(moved[i], legs[i], day) /\ HasTimes(legs[i])
             /\ moved[i].arrive \in Nat /\ moved[i].arrive >= moved[i].depart
  <2>1. HasTimes(legs[i])
    BY <1>1 DEF IsChain, IsLeg
  <2> QED BY <1>1, <2>1, LegOfRetimed
<1> HIDE DEF moved
<1> SUFFICES ASSUME SameDay(moved)
             PROVE  ~OutOfOrder(moved) /\ ~ShortOfTime(moved)
  BY DEF KeepsTime, moved
<1>4. \A i \in DOMAIN moved : ~(Timed(moved[i]) /\ moved[i].arrive < moved[i].depart)
  BY <1>2, <1>3 DEF Follows
<1>5. ASSUME NEW i \in 1..Len(moved) - 1
      PROVE  /\ ~(moved[i + 1].depart < moved[i].arrive)
             /\ ~(moved[i + 1].depart - moved[i].arrive < Buffer(moved[i]))
  <2>1. i \in 1..n /\ i + 1 \in 1..n /\ i \in 1..Len(legs) - 1
    BY <1>1, <1>2
  <2>2. Joins(legs[i], legs[i + 1])
    BY <2>1 DEF IsChain
  <2>3. /\ Clock(moved[i].depart) <= Clock(moved[i].arrive)
        /\ Clock(moved[i].arrive) <= Clock(moved[i + 1].depart)
    BY <1>2, <2>1 DEF SameDay
  <2>4. moved[i + 1].depart = moved[i].arrive + Buffer(moved[i])
    BY <1>3, <2>1, <2>2, <2>3, GapOfRetimed
  <2>5. moved[i].arrive \in Nat /\ Buffer(moved[i]) \in {3, 4}
    BY <1>3, <2>1 DEF Buffer
  <2> QED BY <2>4, <2>5
<1>6. ~OutOfOrder(moved)
  BY <1>4, <1>5 DEF OutOfOrder
<1>7. ~ShortOfTime(moved)
  BY <1>5, Zenon DEF ShortOfTime
<1> QED BY <1>6, <1>7

\* What a hop gets is a list of legs with times and prices, and leads where
\* the chain did.
IsTimetable(legs) ==
  /\ legs # <<>> /\ Len(legs) \in Nat \ {0} /\ DOMAIN legs = 1..Len(legs)
  /\ \A i \in 1..Len(legs) : legs[i].arrive \in Nat /\ legs[i].price \in Value

LEMMA RetimedLeads ==
  ASSUME NEW legs, IsChain(legs), NEW day \in Nat \ {0}, NEW km \in Nat
  PROVE  /\ IsTimetable(Retimed(legs, day, km))
         /\ \A from, to : Leads(legs, from, to) => Leads(Retimed(legs, day, km), from, to)
<1> DEFINE moved == Retimed(legs, day, km)
<1>1. PICK n \in Nat : n = Len(legs) /\ DOMAIN legs = 1..n /\ legs # <<>>
  BY Zenon DEF IsChain
<1>2. moved \in [1..n -> Range(moved)] /\ DOMAIN moved = 1..n
  BY <1>1 DEF Retimed, Range
<1> HIDE DEF moved
<1>3. moved \in Seq(Range(moved)) /\ Len(moved) = n
  BY <1>2, IsSeq
<1>4. n # 0
  BY <1>1 DEF IsChain
<1>5. ASSUME NEW i \in 1..n
      PROVE  Goes(moved[i], legs[i]) /\ moved[i].arrive \in Nat /\ legs[i].price \in Value
  <2>1. HasTimes(legs[i]) /\ legs[i].price \in Value /\ i \in DOMAIN legs
    BY <1>1 DEF IsChain, IsLeg
  <2>2. Goes(moved[i], legs[i])
    BY <2>1, RetimedGoes DEF moved
  <2>3. moved[i].arrive \in Nat
    BY <2>1, LegOfRetimed DEF moved
  <2> QED BY <2>1, <2>2, <2>3
<1>6. moved # <<>>
  BY <1>2, <1>4
<1>7. IsTimetable(moved)
  BY <1>2, <1>3, <1>5, <1>6 DEF IsTimetable, Goes
<1>8. ASSUME NEW from, NEW to, Leads(legs, from, to)
      PROVE  Leads(moved, from, to)
  <2>1. 1 \in 1..n /\ n \in 1..n
    BY <1>4
  <2>2. Head(legs) = legs[1] /\ Last(legs) = legs[n] /\ Head(moved) = moved[1] /\ Last(moved) = moved[n]
    BY <1>1, <1>3 DEF Last, Head
  <2>3. Head(moved).from = Head(legs).from /\ Last(moved).to = Last(legs).to
    BY <1>5, <2>1, <2>2 DEF Goes
  <2>4. \A i \in 1..n - 1 : moved[i].to = moved[i + 1].from
    <3> SUFFICES ASSUME NEW i \in 1..n - 1 PROVE moved[i].to = moved[i + 1].from
      OBVIOUS
    <3>1. i \in 1..n /\ i + 1 \in 1..n
      OBVIOUS
    <3>2. legs[i].to = legs[i + 1].from
      BY <1>1, <1>8 DEF Leads
    <3> QED BY <1>5, <3>1, <3>2 DEF Goes
  <2> QED BY <1>3, <1>6, <1>8, <2>3, <2>4 DEF Leads
<1> QED BY <1>7, <1>8 DEF moved

-----------------------------------------------------------------------------
(* The inductive invariant: what was built is a chain, and what links two  *)
(* cities is one that was moved to a day of the calendar.                  *)

DoorIsChain == door = <<>> \/ IsChain(door)

LinksKeepTime ==
  /\ \E S : links \in Seq(S)
  /\ \A i \in DOMAIN links : KeepsTime(links[i])

Days == DOMAIN windows \subseteq Nat \ {0} /\ IsFiniteSet(DOMAIN windows)

PlanInv ==
  /\ request \in Requests
  /\ DoorIsChain
  /\ LinksKeepTime
  /\ Days

LEMMA NoLegsKeepTime == KeepsTime(<<>>) /\ ~OutOfOrder(<<>>) /\ ~ShortOfTime(<<>>)
BY DEF KeepsTime, OutOfOrder, ShortOfTime

LEMMA AppendLinks ==
  ASSUME LinksKeepTime, NEW legs, KeepsTime(legs), links' = Append(links, legs)
  PROVE  LinksKeepTime'
<1>1. PICK S : links \in Seq(S)
  BY DEF LinksKeepTime
<1> DEFINE T == S \cup {legs}
<1>2. links \in Seq(T)
  BY <1>1, SeqMonotonic
<1>3. /\ links' \in Seq(T) /\ Len(links') = Len(links) + 1
      /\ \A i \in 1..Len(links) : links'[i] = links[i]
      /\ links'[Len(links) + 1] = legs
  BY <1>2, AppendProperties
<1> HIDE DEF T
<1>4. /\ Len(links) \in Nat /\ DOMAIN links = 1..Len(links)
      /\ DOMAIN links' = 1..Len(links')
  BY <1>2, <1>3, LenProperties
<1>5. \A i \in DOMAIN links' : i \in DOMAIN links \/ i = Len(links) + 1
  BY <1>3, <1>4
<1>6. \A i \in DOMAIN links' : KeepsTime(links'[i])
  BY <1>3, <1>4, <1>5 DEF LinksKeepTime
<1> QED BY <1>3, <1>6 DEF LinksKeepTime

\* The day a traveller leaves is a day of the calendar.
LEMMA LeavingDayIsDay ==
  ASSUME Days, NEW i, NEW d \in LeavingDay(windows, i)
  PROVE  d \in DOMAIN windows /\ d \in Nat \ {0}
<1> DEFINE own == {e \in DOMAIN windows : windows[e].stay = i}
           aside == {e \in own : windows[e].moving}
<1>1. own \subseteq DOMAIN windows /\ aside \subseteq DOMAIN windows
  OBVIOUS
<1>2. IsFiniteSet(own) /\ IsFiniteSet(aside) /\ own \subseteq Int /\ aside \subseteq Int
  BY <1>1, FS_Subset DEF Days
<1>3. \/ aside # {} /\ d = Min(aside)
      \/ own # {} /\ d = Max(own)
  BY DEF LeavingDay
<1> HIDE DEF own, aside
<1>4. d \in own \/ d \in aside
  BY <1>2, <1>3, FiniteMaxMin
<1> QED BY <1>1, <1>4 DEF Days

LEMMA DaysAssigned ==
  ASSUME NEW some, NEW n, NEW t
  PROVE  LET calendar == AssignDays(some, n, t)
         IN  DOMAIN calendar = {} \/ DOMAIN calendar = 1..n
<1>1. CASE Len(some) = 0
  <2>1. AssignDays(some, n, t) = <<>>
    BY <1>1 DEF AssignDays
  <2> QED BY <2>1
<1>2. CASE Len(some) # 0
  BY <1>2, Zenon DEF AssignDays
<1> QED BY <1>1, <1>2

LEMMA InitPlan == Init => PlanInv
<1> SUFFICES ASSUME Init PROVE PlanInv
  OBVIOUS
<1>1. links = <<>> /\ windows = <<>> /\ door = <<>> /\ request \in Requests
  BY DEF Init
<1>2. \A S : links \in Seq(S)
  BY <1>1
<1>3. DOMAIN links = {} /\ DOMAIN windows = {}
  BY <1>1
<1>4. LinksKeepTime
  BY <1>2, <1>3 DEF LinksKeepTime
<1>5. Days
  BY <1>3, FS_EmptySet DEF Days
<1> QED BY <1>1, <1>4, <1>5 DEF PlanInv, DoorIsChain

LEMMA NextPlan == PlanInv /\ [Next]_vars => PlanInv'
<1> SUFFICES ASSUME PlanInv, [Next]_vars PROVE PlanInv'
  OBVIOUS
<1>1. request \in Requests /\ DoorIsChain /\ LinksKeepTime /\ Days
  BY DEF PlanInv
<1>2. CASE PlanDraft
  <2>1. PICK world \in DoorWorlds(request) :
             door' = BuildTrip(world, Home, Destination, 1, FALSE)
    BY <1>2 DEF PlanDraft
  <2>2. UNCHANGED <<request, links, windows>>
    BY <1>2 DEF PlanDraft
  <2>3. IsWorld(world)
    BY <1>1, <2>1, WorldsAssumption
  <2>4. IsChain(BuildTrip(world, Home, Destination, 1, FALSE))
    <3>1. 1 \in Nat \ {0} /\ FALSE \in BOOLEAN
      OBVIOUS
    <3> QED BY <2>3, <3>1, BuildTripIs
  <2>5. DoorIsChain'
    BY <2>1, <2>4 DEF DoorIsChain
  <2> QED BY <1>1, <2>2, <2>5 DEF PlanInv, LinksKeepTime, Days
<1>3. CASE Layout
  <2>1. UNCHANGED <<request, door, links>>
    BY <1>3 DEF Layout
  <2>2. Days'
    <3>1. PICK n, t : windows' = AssignDays(stays', n, t) /\ n = request.days
      BY <1>3 DEF Layout
    <3>2. DOMAIN windows' = {} \/ DOMAIN windows' = 1..n
      BY <3>1, DaysAssigned
    <3>3. n \in Nat
      BY <1>1, <3>1, RequestsAssumption
    <3>4. 1..n \subseteq Nat \ {0} /\ {} \subseteq Nat \ {0}
      BY <3>3
    <3>5. IsFiniteSet(1..n) /\ IsFiniteSet({})
      BY <3>3, FS_Interval, FS_EmptySet
    <3> QED BY <3>2, <3>4, <3>5 DEF Days
  <2> QED BY <1>1, <2>1, <2>2 DEF PlanInv, LinksKeepTime, DoorIsChain
<1>4. CASE BuildTransfer
  <2> DEFINE from == stays[hop].city
             to == stays[hop + 1].city
  <2>1. UNCHANGED <<request, door>>
    BY <1>4 DEF BuildTransfer
  <2>2. CASE links' = Append(links, <<>>) /\ UNCHANGED windows
    <3>1. LinksKeepTime'
      BY <1>1, <2>2, NoLegsKeepTime, AppendLinks
    <3> QED BY <1>1, <2>1, <2>2, <3>1 DEF PlanInv, Days, DoorIsChain
  <2>3. CASE /\ {from, to} \subseteq request.found
             /\ \E world \in HopWorlds(from, to), d \in LeavingDay(windows, hop) :
                   LET legs == Retimed(BuildTrip(world, from, to, d, TRUE), d, world.km[to])
                   IN  links' = Append(links, legs) /\ windows' = Linked(d, legs)
    <3>1. PICK world \in HopWorlds(from, to), d \in LeavingDay(windows, hop) :
             LET legs == Retimed(BuildTrip(world, from, to, d, TRUE), d, world.km[to])
             IN  links' = Append(links, legs) /\ windows' = Linked(d, legs)
      BY <2>3
    <3> DEFINE built == BuildTrip(world, from, to, d, TRUE)
               legs == Retimed(built, d, world.km[to])
    <3>2. IsWorld(world) /\ world.dests # <<>> /\ world.km[to] \in Nat
      <4>1. from \in request.found /\ to \in request.found
        BY <2>3
      <4> HIDE DEF from, to
      <4> QED BY <1>1, <3>1, <4>1, WorldsAssumption
    <3>3. d \in DOMAIN windows /\ d \in Nat \ {0}
      BY <1>1, LeavingDayIsDay
    <3>4. IsChain(built)
      BY <3>2, <3>3, BuildTripIs
    <3>5. KeepsTime(legs)
      <4> HIDE DEF built
      <4> QED BY <3>2, <3>3, <3>4, RetimedKeepsTime
    <3>6. LinksKeepTime'
      <4> HIDE DEF legs
      <4> QED BY <1>1, <3>1, <3>5, AppendLinks DEF legs
    <3>7. Days'
      <4>1. DOMAIN windows' = DOMAIN windows
        BY <3>1, <3>3 DEF Linked
      <4> QED BY <1>1, <4>1 DEF Days
    <3> QED BY <1>1, <2>1, <3>6, <3>7 DEF PlanInv, DoorIsChain
  <2> QED BY <1>4, <2>2, <2>3 DEF BuildTransfer
<1>5. CASE PackDays
  <2>1. UNCHANGED <<request, door, links, windows>>
    BY <1>5 DEF PackDays
  <2> QED BY <1>1, <2>1 DEF PlanInv, LinksKeepTime, DoorIsChain, Days
<1>6. CASE ContentRender
  <2>1. UNCHANGED <<request, door, links, windows>>
    BY <1>6 DEF ContentRender
  <2> QED BY <1>1, <2>1 DEF PlanInv, LinksKeepTime, DoorIsChain, Days
<1>7. CASE UNCHANGED vars
  <2>1. UNCHANGED <<request, door, links, windows>>
    BY <1>7 DEF vars
  <2> QED BY <1>1, <2>1 DEF PlanInv, LinksKeepTime, DoorIsChain, Days
<1> QED BY <1>2, <1>3, <1>4, <1>5, <1>6, <1>7 DEF Next, Finished

\* In every reachable state what was built so far is a chain.
THEOREM PlanInvariant == Spec => []PlanInv
<1> QED BY InitPlan, NextPlan, PTL DEF Spec

\* A chain that is offered at the door can be travelled, and so can one that
\* links two cities as long as it stays within its day (trip_planner.py
\* _chain_for_train, content.py _retime_leg).
THEOREM ChainsFeasible == Spec => []ChainsAreFeasible
<1>1. PlanInv => ChainsAreFeasible
  <2> SUFFICES ASSUME PlanInv PROVE ChainsAreFeasible
    OBVIOUS
  <2>1. ~OutOfOrder(door) /\ ~ShortOfTime(door)
    BY ChainKeepsTime, NoLegsKeepTime DEF PlanInv, DoorIsChain
  <2>2. \A i \in DOMAIN links : SameDay(links[i]) => ~OutOfOrder(links[i]) /\ ~ShortOfTime(links[i])
    BY DEF PlanInv, LinksKeepTime, KeepsTime
  <2> QED BY <2>1, <2>2 DEF ChainsAreFeasible
<1> QED BY <1>1, PlanInvariant, PTL

\* The leg shown as chosen is under a veto only if all are, and is not worse in
\* every respect than one that is vetoed as it is (leg_planner.py build_leg,
\* score_candidates).
THEOREM ChosenNotDominated == Spec => []ChosenIsNotDominated
<1>1. PlanInv => ChosenIsNotDominated
  <2> SUFFICES ASSUME PlanInv PROVE ChosenIsNotDominated
    OBVIOUS
  <2>1. ASSUME NEW leg \in Range(door)
        PROVE  Chooses(leg)
    <3>1. CASE door = <<>>
      BY <3>1 DEF Range
    <3>2. CASE IsChain(door)
      BY <3>2 DEF IsChain, IsLeg, Range
    <3> QED BY <3>1, <3>2 DEF PlanInv, DoorIsChain
  <2> QED BY <2>1 DEF ChosenIsNotDominated, Chooses
<1> QED BY <1>1, PlanInvariant, PTL

-----------------------------------------------------------------------------
(* The inductive invariant of the calendar: the stays follow each other    *)
(* without a gap, stay i from day b[i] on; a hop that was handled has its  *)
(* legs on the last day of its stay, or the traveller was told.            *)

\* The first place the name of a city comes to is that city.
NamesItsCity ==
  \A r \in Requests : \A from, to \in r.found : \A world \in HopWorlds(from, to) :
    Head(world.dests) = to

Handled(i, b) ==
  \/ links[i] = <<>> /\ <<"unlinked", stays[i].city>> \in told
  \/ /\ IsTimetable(links[i])
     /\ NamesItsCity => Leads(links[i], stays[i].city, stays[i + 1].city)
     /\ windows[b[i + 1] - 1].moving
     /\ windows[b[i + 1] - 1].transfer = <<Head(links[i])>>

Carries(transfer) ==
  \/ transfer = <<>>
  \/ \E leg : transfer = <<leg>> /\ leg.arrive \in Nat

LaidOut(b) ==
  /\ Settled(stays) /\ Stays # <<>>
  /\ Calendar(b, Len(stays), request.days)
  /\ DOMAIN windows = 1..request.days /\ Len(windows) = request.days
  /\ Covers(windows, stays, b, request.days)
  /\ Lasts(b, stays) /\ (Literal(Stays, request.days) => Fits(b, stays))
  /\ \A d \in 1..request.days : Carries(windows[d].transfer)

HopsHandled(b) ==
  /\ Len(links) < Len(stays)
  /\ pc \in {"render", "done"} => Len(links) + 1 >= Len(stays)
  /\ \A i \in 1..Len(links) : Handled(i, b)

NothingToSee == Stays = <<>> /\ stays = <<>> /\ windows = <<>> /\ links = <<>> /\ pc # "hops"

\* Who asked for a city has it, or was told.
Told(t) ==
  \/ t.city \in {stays[i].city : i \in DOMAIN stays} \cup Noise
  \/ <<"dropped", t.city>> \in told \/ <<"cut", "">> \in told

Packed == [d \in DOMAIN windows |-> PackDay(windows[d], d, Visits(d))]
Lodged == [d \in DOMAIN windows |-> LodgingFor(windows[d], stays)]

Started == pc \in {"hops", "render", "done"}

TripInv ==
  /\ pc \in {"draft", "layout", "hops", "render", "done"}
  /\ hop = Len(links) + 1 /\ Len(links) \in Nat
  /\ ~ Started => links = <<>> /\ stays = <<>> /\ windows = <<>>
  /\ Started => NothingToSee \/ \E b : LaidOut(b) /\ HopsHandled(b)
  /\ Started => \A t \in Range(request.tokens) : Told(t)
  /\ \/ days = <<>> /\ nights = <<>>
     \/ days = Packed /\ nights = Lodged /\ pc \in {"render", "done"}
  /\ cost = Unknown \/ cost > 0
  /\ pc = "done" => prose \in [DOMAIN days -> {"template", "model"}]

LEMMA StayBounds ==
  ASSUME NEW n \in Nat \ {0}, NEW tripDays \in Nat, NEW b, Calendar(b, n, tripDays), NEW i \in 1..n
  PROVE  /\ b[i] \in Nat \ {0} /\ b[i + 1] \in Nat /\ b[i] < b[i + 1] /\ b[i + 1] <= tripDays + 1
         /\ b[i + 1] - 1 \in 1..tripDays /\ Within(b, i, b[i + 1] - 1)
<1>1. /\ b \in [1..n + 1 -> Nat] /\ b[1] = 1 /\ b[n + 1] = tripDays + 1
      /\ \A j, k \in 1..n + 1 : j < k => b[j] < b[k]
  BY DEF Calendar
<1>2. i \in 1..n + 1 /\ i + 1 \in 1..n + 1 /\ 1 \in 1..n + 1 /\ n + 1 \in 1..n + 1 /\ i < i + 1
  OBVIOUS
<1>3. b[i] \in Nat /\ b[i + 1] \in Nat /\ b[i] < b[i + 1]
  BY <1>1, <1>2
<1>4. 1 <= b[i]
  <2>1. CASE i = 1
    BY <1>1, <2>1
  <2>2. CASE 1 < i
    BY <1>1, <1>2, <1>3, <2>2
  <2> QED BY <2>1, <2>2
<1>5. b[i + 1] <= tripDays + 1
  <2>1. CASE i = n
    BY <1>1, <2>1
  <2>2. CASE i < n
    <3>1. i + 1 < n + 1
      BY <2>2
    <3>2. b[i + 1] < b[n + 1]
      BY <1>1, <1>2, <3>1
    <3> QED BY <1>1, <1>3, <3>2
  <2> QED BY <2>1, <2>2
<1> QED BY <1>3, <1>4, <1>5 DEF Within

\* The day of a calendar, the stay it belongs to and nothing else.
LEMMA DayIsOf ==
  ASSUME request \in Requests, NEW b, LaidOut(b), NEW d \in 1..request.days
  PROVE  \E i \in 1..Len(stays) : Within(b, i, d) /\ IsDayOf(windows[d], stays, b, i, d)
<1>1. PICK n \in Nat \ {0} : n = Len(stays)
  BY DEF LaidOut, Settled
<1>2. request.days \in Nat
  BY RequestsAssumption
<1>3. Calendar(b, n, request.days)
  BY <1>1 DEF LaidOut
<1>4. PICK i \in 1..n : Within(b, i, d)
  BY <1>2, <1>3, DayHasStay
<1>5. IsDayOf(windows[d], stays, b, i, d)
  BY <1>1, <1>4 DEF LaidOut, Covers
<1> QED BY <1>1, <1>4, <1>5, Zenon

LEMMA OwnDays ==
  ASSUME request \in Requests, NEW b, LaidOut(b), NEW i \in 1..Len(stays)
  PROVE  {d \in DOMAIN windows : windows[d].stay = i} = b[i]..b[i + 1] - 1
<1>1. PICK n \in Nat \ {0} : n = Len(stays) /\ i \in 1..n
  BY DEF LaidOut, Settled
<1>2. PICK T \in Nat : T = request.days
  BY RequestsAssumption
<1>3. Calendar(b, n, T) /\ DOMAIN windows = 1..T
  BY <1>1, <1>2 DEF LaidOut
<1>4. b[i] \in Nat \ {0} /\ b[i + 1] \in Nat /\ b[i + 1] <= T + 1
  BY <1>1, <1>3, StayBounds
<1>5. ASSUME NEW d \in 1..T, windows[d].stay = i
      PROVE  d \in b[i]..b[i + 1] - 1
  <2>1. PICK j \in 1..n : Within(b, j, d) /\ IsDayOf(windows[d], stays, b, j, d)
    BY <1>1, <1>2, DayIsOf
  <2>2. j = i
    BY <1>5, <2>1 DEF IsDayOf
  <2> QED BY <1>4, <2>1, <2>2 DEF Within
<1>6. ASSUME NEW d \in b[i]..b[i + 1] - 1
      PROVE  d \in 1..T /\ windows[d].stay = i
  <2>1. d \in 1..T /\ Within(b, i, d)
    BY <1>4 DEF Within
  <2>2. IsDayOf(windows[d], stays, b, i, d)
    BY <1>1, <1>2, <2>1 DEF LaidOut, Covers
  <2> QED BY <2>1, <2>2 DEF IsDayOf
<1> QED BY <1>3, <1>5, <1>6

\* A stay that is not the last is left on its last day.
LEMMA LeavingDayIs ==
  ASSUME request \in Requests, NEW b, LaidOut(b), NEW i \in 1..Len(stays), i < Len(stays)
  PROVE  LeavingDay(windows, i) = {b[i + 1] - 1}
<1>1. PICK n \in Nat \ {0} : n = Len(stays) /\ i \in 1..n
  BY DEF LaidOut, Settled
<1>2. PICK T \in Nat : T = request.days
  BY RequestsAssumption
<1>3. Calendar(b, n, T) /\ DOMAIN windows = 1..T
  BY <1>1, <1>2 DEF LaidOut
<1>4. PICK low \in Nat \ {0}, last \in Nat : low = b[i] /\ last = b[i + 1] - 1 /\ low <= last
  <2>1. b[i] \in Nat \ {0} /\ b[i + 1] \in Nat /\ b[i] < b[i + 1]
    BY <1>1, <1>3, StayBounds
  <2> QED BY <2>1
<1> DEFINE own == {d \in DOMAIN windows : windows[d].stay = i}
           aside == {d \in own : windows[d].moving}
<1>5. own = low..last
  BY <1>4, OwnDays
<1>6. \A d \in aside : d = last
  <2> SUFFICES ASSUME NEW d \in aside PROVE d = last
    OBVIOUS
  <2>1. d \in 1..T /\ windows[d].stay = i /\ windows[d].moving
    BY <1>3
  <2>2. PICK j \in 1..n : Within(b, j, d) /\ IsDayOf(windows[d], stays, b, j, d)
    BY <1>1, <1>2, <2>1, DayIsOf
  <2>3. j = i /\ d + 1 = b[i + 1]
    BY <2>1, <2>2 DEF IsDayOf
  <2> QED BY <1>4, <2>1, <2>3
<1>7. LeavingDay(windows, i) = IF aside # {} THEN {Min(aside)} ELSE IF own # {} THEN {Max(own)} ELSE {}
  BY DEF LeavingDay
<1> HIDE DEF own, aside
<1>8. CASE aside # {}
  <2>1. aside = {last}
    BY <1>6, <1>8
  <2>2. aside \in SUBSET Int
    BY <1>4, <2>1
  <2>5. IsFiniteSet(aside)
    BY <2>1, FS_Singleton
  <2>3. Min(aside) \in aside
    BY <1>8, <2>2, <2>5, FiniteMaxMin
  <2>4. Min(aside) = last
    BY <2>1, <2>3
  <2> QED BY <1>4, <1>7, <1>8, <2>4
<1>9. CASE aside = {}
  <2>1. last \in own /\ own # {} /\ own \in SUBSET Int
    BY <1>4, <1>5
  <2>4. IsFiniteSet(own)
    <3>1. low \in Int /\ last \in Int
      BY <1>4
    <3>2. IsFiniteSet(low..last)
      BY <3>1, FS_Interval
    <3> QED BY <1>5, <3>2
  <2>2. Max(own) \in own /\ \A x \in own : x <= Max(own)
    BY <2>1, <2>4, FiniteMaxMin
  <2>3. Max(own) = last
    BY <1>4, <1>5, <2>1, <2>2
  <2> QED BY <1>4, <1>7, <1>9, <2>1, <2>3
<1> QED BY <1>8, <1>9

LEMMA InitTrip == Init => TripInv
<1>1. Init => pc = "draft" /\ links = <<>> /\ stays = <<>> /\ windows = <<>> /\ hop = 1
              /\ days = <<>> /\ nights = <<>> /\ cost = Unknown
  BY DEF Init
<1>2. Len(<<>>) = 0
  OBVIOUS
<1> QED BY <1>1, <1>2 DEF TripInv, Started

\* Whoever asked for a city is provided for by what Layout makes of it.
LEMMA LayoutTells ==
  ASSUME request \in Requests, Layout, NEW t \in Range(request.tokens)
  PROVE  Told(t)'
<1> DEFINE tokens == request.tokens
           E == Range(tokens)
<1>1. tokens \in Seq(E) /\ request.days \in Nat \ {0} /\ \A u \in E : u.days \in Nat
  BY RequestsAssumption
<1>2. PICK i \in 1..Len(tokens) : tokens[i] = t
  BY <1>1 DEF Range
<1>3. /\ request' = request /\ stays' = Allocate(Stays, request.days)
      /\ told' = {<<"dropped", c>> : c \in Dropped(Stays, request.days)}
                 \cup (IF Len(Stays) < Len(Collapsed(Denoised(tokens))) THEN {<<"cut", "">>} ELSE {})
  BY DEF Layout
<1>4. Stays = Parse(tokens)
  BY DEF Stays
<1> HIDE DEF E, tokens
<1>5. /\ Stays \in Seq(E)
      /\ \/ Len(Stays) < Len(Collapsed(Denoised(tokens)))
         \/ t.city \in Noise
         \/ \E j \in 1..Len(Stays) : Stays[j].city = t.city
  BY <1>1, <1>2, <1>4, ParseIs
<1>6. CASE Len(Stays) < Len(Collapsed(Denoised(tokens)))
  BY <1>3, <1>6 DEF Told
<1>7. CASE t.city \in Noise
  BY <1>7 DEF Told
<1>8. CASE \E j \in 1..Len(Stays) : Stays[j].city = t.city
  <2>1. PICK j \in 1..Len(Stays) : Stays[j].city = t.city
    BY <1>8
  <2>2. Stays # <<>>
    BY <2>1
  <2>3. /\ Settled(stays')
        /\ \/ \E k \in 1..Len(stays') : stays'[k].city = t.city
           \/ t.city \in Dropped(Stays, request.days)
    BY <1>1, <1>3, <1>5, <2>1, <2>2, AllocateIs
  <2>4. CASE t.city \in Dropped(Stays, request.days)
    BY <1>3, <2>4 DEF Told
  <2>5. CASE \E k \in 1..Len(stays') : stays'[k].city = t.city
    BY <2>3, <2>5 DEF Told, Settled
  <2> QED BY <2>3, <2>4, <2>5
<1> QED BY <1>5, <1>6, <1>7, <1>8

\* The calendar Layout makes, when there is a stay.
LEMMA LayoutLaysOut ==
  ASSUME request \in Requests, Layout, Stays # <<>>
  PROVE  \E b : LaidOut(b)'
<1> DEFINE tokens == request.tokens
           E == Range(tokens)
           T == request.days
           aside == TransferDays(Stays, T)
<1>1. tokens \in Seq(E) /\ T \in Nat \ {0} /\ \A u \in E : u.days \in Nat
  BY RequestsAssumption
<1>2. /\ request' = request /\ stays' = Allocate(Stays, T)
      /\ windows' = AssignDays(stays', T, aside)
  BY DEF Layout
<1>3. Stays' = Stays
  BY <1>2 DEF Stays
<1>4. Stays \in Seq(E)
  <2>1. Stays = Parse(tokens)
    BY DEF Stays
  <2> HIDE DEF E, tokens
  <2> QED BY <1>1, <2>1, ParseIs
<1> HIDE DEF E, tokens
<1>5. /\ Settled(stays')
      /\ Total([j \in 1..Len(stays') |-> stays'[j].days]) = Total(DaysOf(Stays, T))
  BY <1>1, <1>2, <1>4, AllocateIs
<1>6. /\ aside \in 0..T - 1 /\ Total(DaysOf(Stays, T)) <= T - aside
      /\ Literal(Stays, T) => aside = 0 /\ Total(DaysOf(Stays, T)) = T
  BY <1>1, <1>4, DaysOfIs
<1>7. /\ Total(Desired(stays')) <= T - aside
      /\ Literal(Stays, T) => aside = 0 /\ Total(Desired(stays')) = T
  BY <1>5, <1>6 DEF Desired
<1> HIDE DEF aside
<1>8. /\ windows' = [d \in 1..T |-> windows'[d]]
      /\ \A d \in 1..T : windows'[d].transfer = <<>>
      /\ \E b : /\ Calendar(b, Len(stays'), T)
                /\ Covers(windows', stays', b, T)
                /\ Lasts(b, stays')
                /\ aside = 0 /\ Total(Desired(stays')) = T => Fits(b, stays')
  <2>1. PICK plan, n : plan = stays' /\ n = T
    OBVIOUS
  <2>2. Settled(plan) /\ n \in Nat \ {0} /\ aside \in 0..n - 1 /\ Total(Desired(plan)) <= n - aside
    BY <1>1, <1>5, <1>6, <1>7, <2>1
  <2>3. windows' = AssignDays(plan, n, aside)
    BY <1>2, <2>1
  <2> HIDE DEF T
  <2>4. LET calendar == AssignDays(plan, n, aside)
        IN  /\ calendar = [d \in 1..n |-> calendar[d]]
            /\ \A d \in 1..n : calendar[d].transfer = <<>>
            /\ \E b : /\ Calendar(b, Len(plan), n)
                      /\ Covers(calendar, plan, b, n)
                      /\ Lasts(b, plan)
                      /\ aside = 0 /\ Total(Desired(plan)) = n => Fits(b, plan)
    <3>1. Settled(plan)
      BY <2>2
    <3>2. n \in Nat \ {0}
      BY <2>2
    <3>3. aside \in 0..n - 1
      BY <2>2
    <3>4. Total(Desired(plan)) <= n - aside
      BY <2>2
    <3> QED BY <3>1, <3>2, <3>3, <3>4, AssignedIs, Zenon
  <2> QED BY <2>1, <2>3, <2>4
<1>9. PICK b : /\ Calendar(b, Len(stays'), T)
               /\ Covers(windows', stays', b, T)
               /\ Lasts(b, stays')
               /\ aside = 0 /\ Total(Desired(stays')) = T => Fits(b, stays')
  BY <1>8
<1>10. DOMAIN windows' = 1..T /\ Len(windows') = T
  <2> DEFINE S == {windows'[d] : d \in 1..T}
  <2>1. windows' \in [1..T -> S]
    BY <1>8
  <2> HIDE DEF S, T
  <2>2. T \in Nat
    BY <1>1
  <2> QED BY <2>1, <2>2, IsSeq
<1>11. stays' # <<>>
  BY <1>5 DEF Settled
<1>12. Literal(Stays, T) => Fits(b, stays')
  BY <1>7, <1>9
<1>13. \A d \in 1..T : Carries(windows'[d].transfer)
  BY <1>8 DEF Carries
<1> HIDE DEF T
<1>14. T = request'.days
  BY <1>2 DEF T
<1> QED BY <1>3, <1>5, <1>9, <1>10, <1>11, <1>12, <1>13, <1>14 DEF LaidOut

LEMMA LayoutTrip ==
  ASSUME PlanInv, TripInv, Layout
  PROVE  TripInv'
<1>1. request \in Requests
  BY DEF PlanInv
<1>2. /\ pc = "layout" /\ links = <<>> /\ stays = <<>> /\ windows = <<>>
      /\ days = <<>> /\ nights = <<>>
  BY DEF TripInv, Layout, Started
<1>3. /\ UNCHANGED <<request, links, hop, days, nights, cost, prose>>
      /\ pc' = IF stays' = <<>> THEN "render" ELSE "hops"
  BY DEF Layout
<1>4. \A t \in Range(request'.tokens) : Told(t)'
  BY <1>1, <1>3, LayoutTells
<1>5. Len(links') = 0
  BY <1>2, <1>3
<1>6. NothingToSee' \/ \E b : LaidOut(b)' /\ HopsHandled(b)'
  <2>1. CASE Stays = <<>>
    <3>1. stays' = <<>>
      BY <2>1 DEF Layout, Allocate
    <3>2. Len(stays') = 0
      BY <3>1
    <3>3. windows' = <<>>
      BY <3>2 DEF Layout, AssignDays
    <3>4. Stays' = <<>>
      BY <1>3, <2>1 DEF Stays
    <3> QED BY <1>2, <1>3, <3>1, <3>3, <3>4 DEF NothingToSee
  <2>2. CASE Stays # <<>>
    <3>1. PICK b : LaidOut(b)'
      BY <1>1, <2>2, LayoutLaysOut
    <3>2. stays' # <<>> /\ Len(stays') \in Nat \ {0}
      BY <3>1 DEF LaidOut, Settled
    <3>3. HopsHandled(b)'
      BY <1>3, <1>5, <3>2 DEF HopsHandled
    <3> QED BY <3>1, <3>3
  <2> QED BY <2>1, <2>2
<1>7. hop' = Len(links') + 1 /\ (cost' = Unknown \/ cost' > 0)
  BY <1>3 DEF TripInv
<1> QED BY <1>2, <1>3, <1>4, <1>5, <1>6, <1>7 DEF TripInv, Started

\* Every hop but the last one handled keeps its day when the next gets its own.
LEMMA LastDays ==
  ASSUME request \in Requests, NEW b, LaidOut(b), NEW i \in 1..Len(stays), NEW j \in 1..Len(stays), i < j
  PROVE  b[i + 1] - 1 < b[j + 1] - 1
<1>1. PICK n \in Nat \ {0} : n = Len(stays) /\ i \in 1..n /\ j \in 1..n
  BY DEF LaidOut, Settled
<1>2. /\ b \in [1..n + 1 -> Nat]
      /\ \A k, l \in 1..n + 1 : k < l => b[k] < b[l]
  BY <1>1 DEF LaidOut, Calendar
<1>3. i + 1 \in 1..n + 1 /\ j + 1 \in 1..n + 1 /\ i + 1 < j + 1
  BY <1>1
<1>4. b[i + 1] \in Nat /\ b[j + 1] \in Nat
  BY <1>2, <1>3
<1>5. PICK x \in Nat, y \in Nat : x = b[i + 1] /\ y = b[j + 1] /\ x < y
  BY <1>2, <1>3, <1>4
<1>6. x - 1 < y - 1
  BY <1>5
<1> QED BY <1>5, <1>6

\* A hop whose way is built is handled, and the calendar stays what it was.
LEMMA HopLinks ==
  ASSUME request \in Requests, NEW b, LaidOut(b), HopsHandled(b),
         hop = Len(links) + 1, Len(links) \in Nat, DOMAIN links = 1..Len(links), hop < Len(stays),
         UNCHANGED <<request, stays, told>>, pc' = "hops",
         NEW legs, IsTimetable(legs),
         NamesItsCity => Leads(legs, stays[hop].city, stays[hop + 1].city),
         NEW d, d = b[hop + 1] - 1, windows' = Linked(d, legs), links' = Append(links, legs)
  PROVE  LaidOut(b)' /\ HopsHandled(b)'
<1>1. PICK n \in Nat \ {0} : n = Len(stays) /\ hop \in 1..n - 1
  <2>1. Len(stays) \in Nat \ {0}
    BY DEF LaidOut, Settled
  <2>2. hop \in 1..Len(stays) - 1
    BY <2>1
  <2> QED BY <2>1, <2>2
<1>2. PICK T \in Nat : T = request.days
  BY RequestsAssumption
<1>3. Calendar(b, n, T) /\ DOMAIN windows = 1..T /\ Len(windows) = T
  BY <1>1, <1>2 DEF LaidOut
<1>4. d \in 1..T /\ Within(b, hop, d) /\ b[hop + 1] \in Nat
  BY <1>1, <1>3, StayBounds
<1>5. /\ DOMAIN windows' = 1..T
      /\ windows'[d] = [windows[d] EXCEPT !.moving = TRUE, !.transfer = <<Head(legs)>>,
                                          !.sleeps = Last(legs).to]
      /\ \A e \in 1..T : e # d => windows'[e] = windows[e]
  BY <1>3, <1>4 DEF Linked

<1>6. IsDayOf(windows[d], stays, b, hop, d)
  BY <1>1, <1>2, <1>4 DEF LaidOut, Covers
<1>7. /\ windows'[d].stay = windows[d].stay /\ windows'[d].city = windows[d].city
      /\ windows'[d].moving /\ windows'[d].transfer = <<Head(legs)>>
      /\ DOMAIN windows'[d] = DOMAIN windows[d]
  BY <1>5, <1>6 DEF IsDayOf
<1>8. Len(windows') = T
  <2> DEFINE S == {windows'[e] : e \in 1..T}
  <2>1. windows' \in [1..T -> S]
    BY <1>3 DEF Linked
  <2> HIDE DEF S
  <2> QED BY <2>1, IsSeq
<1>9. Covers(windows', stays, b, T)
  <2> SUFFICES ASSUME NEW i \in 1..n, NEW e \in 1..T, Within(b, i, e)
               PROVE  IsDayOf(windows'[e], stays, b, i, e)
    BY <1>1 DEF Covers
  <2>1. IsDayOf(windows[e], stays, b, i, e)
    BY <1>1, <1>2 DEF LaidOut, Covers
  <2>2. CASE e # d
    BY <1>5, <2>1, <2>2
  <2>3. CASE e = d
    <3>1. i = hop
      BY <1>6, <2>1, <2>3 DEF IsDayOf
    <3>2. d + 1 = b[i + 1] /\ i < Len(stays)
      BY <1>4, <3>1
    <3> QED BY <1>7, <2>1, <2>3, <3>2 DEF IsDayOf
  <2> QED BY <2>2, <2>3
<1>10. \A e \in 1..T : Carries(windows'[e].transfer)
  <2> SUFFICES ASSUME NEW e \in 1..T PROVE Carries(windows'[e].transfer)
    OBVIOUS
  <2>1. CASE e # d
    BY <1>2, <1>5, <2>1 DEF LaidOut
  <2>2. CASE e = d
    <3>1. 1 \in 1..Len(legs) /\ Head(legs) = legs[1]
      BY DEF IsTimetable
    <3>2. Head(legs).arrive \in Nat
      BY <3>1 DEF IsTimetable
    <3> QED BY <1>7, <2>2, <3>2 DEF Carries
  <2> QED BY <2>1, <2>2
<1>11. LaidOut(b)'
  <2>1. request' = request /\ stays' = stays /\ Stays' = Stays
    BY DEF Stays
  <2> QED BY <1>2, <1>5, <1>8, <1>9, <1>10, <2>1 DEF LaidOut
<1>12. /\ Len(links') = hop /\ links'[hop] = legs
       /\ \A i \in 1..hop - 1 : links'[i] = links[i]
  BY AppendProperties
<1>13. HopsHandled(b)'
  <2>1. stays' = stays /\ told' = told /\ Len(links') < Len(stays')
    BY <1>12
  <2>2. ASSUME NEW i \in 1..hop
        PROVE  Handled(i, b)'
    <3>1. CASE i = hop
      <4>1. IsTimetable(links'[i]) /\ windows'[b[i + 1] - 1].moving
            /\ windows'[b[i + 1] - 1].transfer = <<Head(links'[i])>>
        BY <1>7, <1>12, <3>1
      <4>2. NamesItsCity => Leads(links'[i], stays'[i].city, stays'[i + 1].city)
        BY <1>12, <2>1, <3>1
      <4> QED BY <4>1, <4>2 DEF Handled
    <3>2. CASE i # hop
      <4>1. i \in 1..Len(links) /\ i < hop /\ i \in 1..n
        BY <1>1, <3>2
      <4>2. Handled(i, b)
        BY <4>1 DEF HopsHandled
      <4>3. links'[i] = links[i]
        BY <1>12, <4>1
      <4>4. b[i + 1] - 1 < d /\ b[i + 1] - 1 \in 1..T
        <5>1. b[i + 1] - 1 < b[hop + 1] - 1
          BY <1>1, <4>1, LastDays
        <5>2. b[i + 1] - 1 \in 1..T
          BY <1>3, <4>1, StayBounds
        <5> QED BY <5>1, <5>2
      <4>5. windows'[b[i + 1] - 1] = windows[b[i + 1] - 1]
        BY <1>4, <1>5, <4>4
      <4> QED BY <2>1, <4>2, <4>3, <4>5 DEF Handled
    <3> QED BY <3>1, <3>2
  <2> QED BY <1>12, <2>1, <2>2 DEF HopsHandled
<1> QED BY <1>11, <1>13

\* A hop the traveller is told about is handled, and nothing else moves.
LEMMA HopTold ==
  ASSUME NEW b, LaidOut(b), HopsHandled(b),
         hop = Len(links) + 1, Len(links) \in Nat, DOMAIN links = 1..Len(links), hop < Len(stays),
         UNCHANGED <<request, stays, windows>>, pc' = "hops",
         links' = Append(links, <<>>), told' = told \cup {<<"unlinked", stays[hop].city>>}
  PROVE  LaidOut(b)' /\ HopsHandled(b)'
<1>1. LaidOut(b)'
  <2>1. Stays' = Stays
    BY DEF Stays
  <2> QED BY <2>1 DEF LaidOut
<1>2. /\ Len(links') = hop /\ links'[hop] = <<>>
      /\ \A i \in 1..hop - 1 : links'[i] = links[i]
  BY AppendProperties
<1>3. ASSUME NEW i \in 1..hop
      PROVE  Handled(i, b)'
  <2>1. CASE i = hop
    BY <1>2, <2>1 DEF Handled
  <2>2. CASE i # hop
    <3>1. Handled(i, b)
      BY <2>2 DEF HopsHandled
    <3>2. links'[i] = links[i]
      BY <1>2, <2>2
    <3> QED BY <3>1, <3>2 DEF Handled
  <2> QED BY <2>1, <2>2
<1>4. Len(links') < Len(stays')
  BY <1>2
<1> QED BY <1>1, <1>2, <1>3, <1>4 DEF HopsHandled

LEMMA TransferTrip ==
  ASSUME PlanInv, TripInv, BuildTransfer
  PROVE  TripInv'
<1> DEFINE from == stays[hop].city
           to == stays[hop + 1].city
<1>1. request \in Requests /\ Days
  BY DEF PlanInv
<1>2. /\ pc = "hops" /\ hop < Len(stays) /\ hop' = hop + 1
      /\ UNCHANGED <<pc, request, stays, days, nights, cost, prose>>
  BY DEF BuildTransfer
<1>3. /\ hop = Len(links) + 1 /\ Len(links) \in Nat
      /\ days = <<>> /\ nights = <<>>
      /\ NothingToSee \/ \E b : LaidOut(b) /\ HopsHandled(b)
  BY <1>2 DEF TripInv, Started
<1>4. PICK b : LaidOut(b) /\ HopsHandled(b)
  BY <1>2, <1>3 DEF NothingToSee
<1>5. DOMAIN links = 1..Len(links)
  BY DEF PlanInv, LinksKeepTime
<1>6. hop \in 1..Len(stays)
  <2>1. Len(stays) \in Nat
    BY <1>4 DEF LaidOut, Settled
  <2> QED BY <1>2, <1>3, <2>1
<1>7. LeavingDay(windows, hop) = {b[hop + 1] - 1}
  BY <1>1, <1>2, <1>4, <1>6, LeavingDayIs
<1>8. /\ LaidOut(b)' /\ HopsHandled(b)' /\ told \subseteq told'
      /\ \E legs : links' = Append(links, legs)
  <2>1. CASE ~({from, to} \subseteq request.found)
    <3>1. /\ links' = Append(links, <<>>) /\ told' = told \cup {<<"unlinked", from>>}
          /\ UNCHANGED windows
      BY <1>7, <2>1 DEF BuildTransfer
    <3>2. UNCHANGED <<request, stays, windows>> /\ pc' = "hops"
      BY <1>2, <3>1
    <3> QED BY <1>2, <1>3, <1>4, <1>5, <3>1, <3>2, HopTold
  <2>2. CASE {from, to} \subseteq request.found
    <3>1. /\ UNCHANGED told
          /\ \E world \in HopWorlds(from, to), d \in LeavingDay(windows, hop) :
                LET legs == Retimed(BuildTrip(world, from, to, d, TRUE), d, world.km[to])
                IN  links' = Append(links, legs) /\ windows' = Linked(d, legs)
      BY <1>7, <2>2 DEF BuildTransfer
    <3>2. PICK world \in HopWorlds(from, to), d \in LeavingDay(windows, hop) :
             LET legs == Retimed(BuildTrip(world, from, to, d, TRUE), d, world.km[to])
             IN  links' = Append(links, legs) /\ windows' = Linked(d, legs)
      BY <3>1
    <3> DEFINE built == BuildTrip(world, from, to, d, TRUE)
               legs == Retimed(built, d, world.km[to])
    <3>3. IsWorld(world) /\ world.dests # <<>> /\ world.km[to] \in Nat
          /\ (NamesItsCity => Head(world.dests) = to)
      <4>1. from \in request.found /\ to \in request.found
        BY <2>2
      <4> HIDE DEF from, to
      <4> QED BY <1>1, <3>2, <4>1, WorldsAssumption DEF NamesItsCity
    <3>4. d \in Nat \ {0} /\ d = b[hop + 1] - 1
      BY <1>1, <1>7, LeavingDayIsDay
    <3>5. IsChain(built) /\ (NamesItsCity => Leads(built, from, to))
      <4> HIDE DEF from, to
      <4> QED BY <3>3, <3>4, BuildTripIs
    <3>6. IsTimetable(legs) /\ (NamesItsCity => Leads(legs, from, to))
      <4> HIDE DEF built, from, to
      <4>1. /\ IsTimetable(legs)
            /\ \A f, t : Leads(built, f, t) => Leads(legs, f, t)
        BY <3>3, <3>4, <3>5, RetimedLeads
      <4> QED BY <3>5, <4>1
    <3>7. links' = Append(links, legs) /\ windows' = Linked(d, legs)
      BY <3>2
    <3>8. UNCHANGED <<request, stays, told>> /\ pc' = "hops"
      BY <1>2, <3>1
    <3> HIDE DEF legs
    <3>9. NamesItsCity => Leads(legs, stays[hop].city, stays[hop + 1].city)
      BY <3>6
    <3>10. LaidOut(b)' /\ HopsHandled(b)'
      BY <1>1, <1>2, <1>3, <1>4, <1>5, <3>4, <3>6, <3>7, <3>8, <3>9, HopLinks
    <3> QED BY <3>7, <3>8, <3>10
  <2> QED BY <2>1, <2>2
<1>9. \A t \in Range(request'.tokens) : Told(t)'
  BY <1>2, <1>8 DEF TripInv, Started, Told
<1>10. Len(links') = Len(links) + 1
  BY <1>3, <1>5, <1>8
<1>11. hop' = Len(links') + 1 /\ Len(links') \in Nat
  BY <1>2, <1>3, <1>10
<1> QED BY <1>2, <1>3, <1>8, <1>9, <1>11 DEF TripInv, Started

\* What the legs of a hop cost, and what they all do.
LEMMA FareIsNat ==
  ASSUME NEW legs, legs = <<>> \/ IsTimetable(legs)
  PROVE  Fare(legs) \in Nat
<1>1. PICK n \in Nat : DOMAIN legs = 1..n /\ \A i \in 1..n : legs[i].price \in Value
  <2>1. CASE legs = <<>>
    <3>1. DOMAIN legs = 1..0 /\ \A i \in 1..0 : legs[i].price \in Value
      BY <2>1
    <3> QED BY <3>1
  <2>2. CASE IsTimetable(legs)
    BY <2>2 DEF IsTimetable
  <2> QED BY <2>1, <2>2
<1> DEFINE paid == [i \in 1..n |-> IF legs[i].price = Unknown THEN 0 ELSE legs[i].price]
<1>2. paid \in [1..n -> Nat]
  BY <1>1 DEF Value
<1>3. Fare(legs) = Total(paid)
  BY <1>1 DEF Fare
<1> HIDE DEF paid
<1>4. Total(paid) \in Nat
  BY <1>1, <1>2, TotalOfNaturals
<1> QED BY <1>3, <1>4

LEMMA FaresAreNat ==
  ASSUME NEW b, HopsHandled(b), Len(links) \in Nat, DOMAIN links = 1..Len(links)
  PROVE  Fares \in Nat
<1>1. PICK n \in Nat : n = Len(links) /\ DOMAIN links = 1..n
  BY Zenon
<1> DEFINE paid == [i \in 1..n |-> Fare(links[i])]
<1>2. ASSUME NEW i \in 1..n PROVE Fare(links[i]) \in Nat
  <2>1. links[i] = <<>> \/ IsTimetable(links[i])
    BY <1>1 DEF HopsHandled, Handled
  <2> QED BY <2>1, FareIsNat
<1>3. paid \in [1..n -> Nat]
  BY <1>2
<1>4. Fares = Total(paid)
  BY <1>1 DEF Fares
<1> HIDE DEF paid
<1>5. Total(paid) \in Nat
  BY <1>1, <1>3, TotalOfNaturals
<1> QED BY <1>4, <1>5, Zenon

LEMMA PackTrip ==
  ASSUME PlanInv, TripInv, PackDays
  PROVE  TripInv'
<1>1. /\ pc = "hops" /\ hop >= Len(stays) /\ pc' = "render"
      /\ UNCHANGED <<request, stays, windows, hop, links, prose, told>>
      /\ days' = Packed /\ nights' = Lodged
      /\ cost' = IF Fares = 0 THEN Unknown ELSE Fares
  BY DEF PackDays, Packed, Lodged
<1>2. /\ hop = Len(links) + 1 /\ Len(links) \in Nat
      /\ NothingToSee \/ \E b : LaidOut(b) /\ HopsHandled(b)
      /\ \A t \in Range(request.tokens) : Told(t)
  BY <1>1 DEF TripInv, Started
<1>3. PICK b : LaidOut(b) /\ HopsHandled(b)
  BY <1>1, <1>2 DEF NothingToSee
<1>4. Packed' = Packed /\ Lodged' = Lodged /\ Stays' = Stays
  BY <1>1 DEF Packed, Lodged, Visits, Stays
<1>5. LaidOut(b)'
  BY <1>1, <1>3, <1>4 DEF LaidOut
<1>6. HopsHandled(b)'
  BY <1>1, <1>2, <1>3 DEF HopsHandled, Handled
<1>7. cost' = Unknown \/ cost' > 0
  <2>1. DOMAIN links = 1..Len(links)
    BY DEF PlanInv, LinksKeepTime
  <2>2. Fares \in Nat
    BY <1>2, <1>3, <2>1, FaresAreNat
  <2> QED BY <1>1, <2>2
<1>8. \A t \in Range(request'.tokens) : Told(t)'
  BY <1>1, <1>2 DEF Told
<1> QED BY <1>1, <1>2, <1>4, <1>5, <1>6, <1>7, <1>8 DEF TripInv, Started

LEMMA RenderTrip ==
  ASSUME TripInv, ContentRender
  PROVE  TripInv'
<1>1. /\ pc = "render" /\ pc' = "done"
      /\ UNCHANGED <<request, stays, windows, hop, links, days, nights, cost, told>>
      /\ prose' \in [DOMAIN days -> {"template", "model"}]
  BY DEF ContentRender
<1>2. /\ hop = Len(links) + 1 /\ Len(links) \in Nat
      /\ NothingToSee \/ \E b : LaidOut(b) /\ HopsHandled(b)
      /\ \A t \in Range(request.tokens) : Told(t)
      /\ \/ days = <<>> /\ nights = <<>>
         \/ days = Packed /\ nights = Lodged
      /\ cost = Unknown \/ cost > 0
  BY <1>1 DEF TripInv, Started
<1>3. Packed' = Packed /\ Lodged' = Lodged /\ Stays' = Stays
  BY <1>1 DEF Packed, Lodged, Visits, Stays
<1>4. ASSUME NEW b, LaidOut(b), HopsHandled(b)
      PROVE  LaidOut(b)' /\ HopsHandled(b)'
  <2>1. LaidOut(b)'
    BY <1>1, <1>3, <1>4 DEF LaidOut
  <2>2. HopsHandled(b)'
    BY <1>1, <1>4 DEF HopsHandled, Handled
  <2> QED BY <2>1, <2>2
<1>5. NothingToSee' \/ \E b : LaidOut(b)' /\ HopsHandled(b)'
  <2>1. CASE NothingToSee
    BY <1>1, <1>3, <2>1 DEF NothingToSee
  <2>2. CASE \E b : LaidOut(b) /\ HopsHandled(b)
    BY <1>4, <2>2
  <2> QED BY <1>2, <2>1, <2>2
<1>6. \A t \in Range(request'.tokens) : Told(t)'
  BY <1>1, <1>2 DEF Told
<1> QED BY <1>1, <1>2, <1>3, <1>5, <1>6 DEF TripInv, Started

LEMMA NextTrip == PlanInv /\ TripInv /\ [Next]_vars => TripInv'
<1> SUFFICES ASSUME PlanInv, TripInv, [Next]_vars PROVE TripInv'
  OBVIOUS
<1>1. CASE PlanDraft
  <2>1. /\ pc = "draft" /\ pc' = "layout"
        /\ UNCHANGED <<request, stays, windows, hop, links, days, nights, cost, prose, told>>
    BY <1>1 DEF PlanDraft
  <2> QED BY <2>1 DEF TripInv, Started
<1>2. CASE Layout
  BY <1>2, LayoutTrip
<1>3. CASE BuildTransfer
  BY <1>3, TransferTrip
<1>4. CASE PackDays
  BY <1>4, PackTrip
<1>5. CASE ContentRender
  BY <1>5, RenderTrip
<1>6. CASE UNCHANGED vars
  <2>1. UNCHANGED <<pc, request, stays, windows, hop, links, days, nights, cost, prose, told>>
    BY <1>6 DEF vars
  <2>2. Packed' = Packed /\ Lodged' = Lodged /\ Stays' = Stays
    BY <2>1 DEF Packed, Lodged, Visits, Stays
  <2>3. \A b : LaidOut(b)' = LaidOut(b) /\ HopsHandled(b)' = HopsHandled(b)
    BY <2>1, <2>2 DEF LaidOut, HopsHandled, Handled
  <2>4. NothingToSee' = NothingToSee /\ \A t : Told(t)' = Told(t)
    BY <2>1, <2>2 DEF NothingToSee, Told
  <2> QED BY <2>1, <2>2, <2>3, <2>4 DEF TripInv, Started
<1> QED BY <1>1, <1>2, <1>3, <1>4, <1>5, <1>6 DEF Next, Finished

\* In every reachable state the calendar is without a gap, every hop that was
\* handled has brought the traveller over on the last day of its stay or said
\* that it could not, and what is on the days is what the calendar makes of them.
THEOREM TripInvariant == Spec => []TripInv
<1>1. Spec => []PlanInv
  BY PlanInvariant
<1> QED BY <1>1, InitTrip, NextTrip, PTL DEF Spec

\* The calendar has the days 1 to Len(windows), none before it is laid out.
LEMMA CalendarLength ==
  ASSUME request \in Requests, TripInv
  PROVE  /\ Len(windows) \in Nat /\ DOMAIN windows = 1..Len(windows)
         /\ windows = <<>> \/ (Started /\ \E b : LaidOut(b) /\ HopsHandled(b))
<1>1. windows = <<>> \/ (Started /\ \E b : LaidOut(b) /\ HopsHandled(b))
  <2>1. /\ ~ Started => windows = <<>>
        /\ Started => NothingToSee \/ \E b : LaidOut(b) /\ HopsHandled(b)
    BY DEF TripInv
  <2>2. NothingToSee => windows = <<>>
    BY DEF NothingToSee
  <2>3. CASE Started
    BY <2>1, <2>2, <2>3
  <2>4. CASE ~ Started
    BY <2>1, <2>4
  <2> QED BY <2>3, <2>4
<1>2. CASE windows = <<>>
  BY <1>1, <1>2
<1>3. CASE \E b : LaidOut(b) /\ HopsHandled(b)
  <2>1. request.days \in Nat
    BY RequestsAssumption
  <2> QED BY <1>1, <1>3, <2>1 DEF LaidOut
<1> QED BY <1>1, <1>2, <1>3

\* Every day's stay is one of the trip's, every day has its night and, once
\* the plan is worded, its words (content.py, planning.py).
THEOREM TypeCorrect == Spec => []TypeOK
<1>1. PlanInv /\ TripInv => TypeOK
  <2> SUFFICES ASSUME PlanInv, TripInv PROVE TypeOK
    OBVIOUS
  <2>1. request \in Requests
    BY DEF PlanInv
  <2>2. \A leg \in Range(door) : leg.kind \in {"single", "road", "rail"}
    <3>1. CASE door = <<>>
      BY <3>1 DEF Range
    <3>2. CASE IsChain(door)
      BY <3>2 DEF IsChain, IsLeg, Kinds, Range
    <3> QED BY <3>1, <3>2 DEF PlanInv, DoorIsChain
  <2>3. \A d \in DOMAIN windows : windows[d].stay \in DOMAIN stays
    <3>1. CASE windows = <<>>
      BY <3>1
    <3>2. CASE \E b : LaidOut(b)
      <4>1. PICK b : LaidOut(b)
        BY <3>2
      <4>2. DOMAIN windows = 1..request.days /\ DOMAIN stays = 1..Len(stays)
        BY <4>1 DEF LaidOut, Settled
      <4>3. ASSUME NEW d \in 1..request.days PROVE windows[d].stay \in 1..Len(stays)
        <5>1. \E i \in 1..Len(stays) : Within(b, i, d) /\ IsDayOf(windows[d], stays, b, i, d)
          BY <2>1, <4>1, DayIsOf
        <5> QED BY <5>1 DEF IsDayOf
      <4> QED BY <4>2, <4>3
    <3> QED BY <2>1, <3>1, <3>2, CalendarLength
  <2>4. days = <<>> \/ Len(days) = Len(windows)
    <3>1. CASE days = Packed
      <4>1. PICK n \in Nat : n = Len(windows) /\ DOMAIN windows = 1..n
        BY <2>1, CalendarLength, Zenon
      <4> DEFINE S == {Packed[d] : d \in 1..n}
      <4>2. Packed \in [1..n -> S]
        BY <4>1 DEF Packed
      <4> HIDE DEF S
      <4>3. Len(Packed) = n
        BY <4>2, IsSeq
      <4> QED BY <3>1, <4>1, <4>3, Zenon
    <3> QED BY <3>1 DEF TripInv
  <2>5. DOMAIN nights = DOMAIN days
    BY DEF TripInv, Packed, Lodged
  <2> QED BY <2>1, <2>2, <2>3, <2>4, <2>5 DEF TypeOK, TripInv
<1> QED BY <1>1, PlanInvariant, TripInvariant, PTL

\* How many days of the calendar a stay has.
LEMMA DaysInIs ==
  ASSUME request \in Requests, NEW b, LaidOut(b), NEW i \in 1..Len(stays)
  PROVE  DaysIn(i) = b[i + 1] - b[i]
<1>1. PICK n \in Nat \ {0} : n = Len(stays) /\ i \in 1..n
  BY DEF LaidOut, Settled
<1>2. PICK T \in Nat : T = request.days /\ Calendar(b, n, T)
  BY <1>1, RequestsAssumption DEF LaidOut
<1>3. PICK low \in Int, high \in Int : low = b[i] /\ high = b[i + 1] - 1 /\ low <= high
  <2>1. b[i] \in Nat \ {0} /\ b[i + 1] \in Nat /\ b[i] < b[i + 1]
    BY <1>1, <1>2, StayBounds
  <2> QED BY <2>1
<1>4. {d \in DOMAIN windows : windows[d].stay = i} = low..high
  BY <1>3, OwnDays
<1>5. Cardinality(low..high) = high - low + 1
  <2>1. low \in Int /\ high \in Int
    BY <1>3
  <2>2. Cardinality(low..high) = IF low > high THEN 0 ELSE high - low + 1
    BY <2>1, FS_Interval
  <2> QED BY <1>3, <2>2
<1>6. b[i + 1] \in Nat
  BY <1>1, <1>2, StayBounds
<1>7. DaysIn(i) = Cardinality(low..high)
  BY <1>4, Zenon DEF DaysIn
<1> QED BY <1>3, <1>5, <1>6, <1>7

\* The next day has the same stay or the next one, and then the day is the
\* last of its stay.
LEMMA NextDay ==
  ASSUME request \in Requests, NEW b, LaidOut(b), NEW d \in 1..request.days - 1
  PROVE  \E i \in 1..Len(stays) :
           /\ windows[d].stay = i
           /\ \/ windows[d + 1].stay = i
              \/ i < Len(stays) /\ windows[d + 1].stay = i + 1 /\ d = b[i + 1] - 1
<1>1. PICK n \in Nat \ {0} : n = Len(stays)
  BY DEF LaidOut, Settled
<1>2. PICK T \in Nat \ {0} : T = request.days
  BY RequestsAssumption
<1>3. Calendar(b, n, T)
  BY <1>1, <1>2 DEF LaidOut
<1>4. d \in 1..T /\ d + 1 \in 1..T
  BY <1>2
<1>5. PICK i \in 1..n : Within(b, i, d) /\ IsDayOf(windows[d], stays, b, i, d)
  BY <1>1, <1>2, <1>4, DayIsOf
<1>6. b[i] \in Nat /\ b[i + 1] \in Nat
  BY <1>3, StayBounds
<1>7. CASE d + 1 < b[i + 1]
  <2>1. Within(b, i, d + 1)
    BY <1>5, <1>6, <1>7 DEF Within
  <2>2. IsDayOf(windows[d + 1], stays, b, i, d + 1)
    BY <1>1, <1>2, <1>4, <2>1 DEF LaidOut, Covers
  <2> QED BY <1>1, <1>5, <2>2 DEF IsDayOf
<1>8. CASE d + 1 = b[i + 1]
  <2>1. i # n
    BY <1>2, <1>3, <1>4, <1>8 DEF Calendar
  <2>2. i + 1 \in 1..n
    BY <2>1
  <2>3. b[i + 1] < b[(i + 1) + 1]
    BY <1>3, <2>2, StayBounds
  <2>4. Within(b, i + 1, d + 1)
    BY <1>6, <1>8, <2>3 DEF Within
  <2>5. IsDayOf(windows[d + 1], stays, b, i + 1, d + 1)
    BY <1>1, <1>2, <1>4, <2>2, <2>4 DEF LaidOut, Covers
  <2>6. windows[d + 1].stay = i + 1 /\ windows[d].stay = i
    BY <1>5, <2>5 DEF IsDayOf
  <2>7. d = b[i + 1] - 1 /\ i < n
    BY <1>8, <2>2
  <2> QED BY <1>1, <2>6, <2>7
<1>9. d + 1 < b[i + 1] \/ d + 1 = b[i + 1]
  <2>1. d < b[i + 1]
    BY <1>5 DEF Within
  <2> QED BY <1>4, <1>6, <2>1
<1> QED BY <1>7, <1>8, <1>9

\* The calendar agrees with the request: a city for every day, in the order
\* asked for, no stay shorter than allotted, stated days as stated, and nobody
\* loses a city without being told (segments.py allocate_days, day_plan.py
\* assign_days_to_segments).
THEOREM EveryDayHasCity == Spec => []EveryDayHasItsCity
<1>1. PlanInv /\ TripInv => EveryDayHasItsCity
  <2> SUFFICES ASSUME PlanInv, TripInv, pc \in {"hops", "render", "done"}
               PROVE  /\ Len(windows) = (IF Stays = <<>> THEN 0 ELSE request.days)
                      /\ \A d \in 1..Len(windows) - 1 : windows[d].stay <= windows[d + 1].stay
                      /\ \A i \in DOMAIN stays : DaysIn(i) >= stays[i].days
                      /\ Literal(Stays, request.days) =>
                             \A i \in DOMAIN stays : DaysIn(i) = stays[i].days
                      /\ \A t \in Range(request.tokens) :
                             \/ t.city \in {stays[i].city : i \in DOMAIN stays} \cup Noise
                             \/ <<"dropped", t.city>> \in told \/ <<"cut", "">> \in told
    BY DEF EveryDayHasItsCity
  <2>1. request \in Requests
    BY DEF PlanInv
  <2>2. \A t \in Range(request.tokens) : Told(t)
    BY DEF TripInv, Started
  <2>3. CASE NothingToSee
    <3>1. Stays = <<>> /\ windows = <<>> /\ stays = <<>> /\ Len(windows) = 0 /\ 1..Len(windows) - 1 = {}
      BY <2>3 DEF NothingToSee
    <3>2. DOMAIN stays = {}
      BY <3>1
    <3>3. \A d \in 1..Len(windows) - 1 : windows[d].stay <= windows[d + 1].stay
      BY <3>1
    <3>4. \A i \in DOMAIN stays : DaysIn(i) >= stays[i].days /\ DaysIn(i) = stays[i].days
      BY <3>2
    <3>5. Len(windows) = IF Stays = <<>> THEN 0 ELSE request.days
      BY <3>1
    <3> QED BY <2>2, <3>3, <3>4, <3>5 DEF Told
  <2>4. CASE \E b : LaidOut(b)
    <3>1. PICK b : LaidOut(b)
      BY <2>4
    <3>2. Len(windows) = request.days /\ DOMAIN stays = 1..Len(stays)
      BY <3>1 DEF LaidOut, Settled
    <3>3. Stays # <<>>
      BY <3>1 DEF LaidOut
    <3>4. ASSUME NEW d \in 1..request.days - 1
          PROVE  windows[d].stay <= windows[d + 1].stay
      BY <2>1, <3>1, NextDay
    <3>5. ASSUME NEW i \in 1..Len(stays)
          PROVE  /\ DaysIn(i) >= stays[i].days
                 /\ Literal(Stays, request.days) => DaysIn(i) = stays[i].days
      <4>1. DaysIn(i) = b[i + 1] - b[i]
        BY <2>1, <3>1, DaysInIs
      <4> QED BY <3>1, <4>1 DEF LaidOut, Lasts, Fits
    <3> QED BY <2>2, <3>2, <3>3, <3>4, <3>5 DEF Told
  <2> QED BY <2>3, <2>4 DEF TripInv, Started
<1> QED BY <1>1, PlanInvariant, TripInvariant, PTL

\* Nobody is in another city the next morning without having been brought
\* there, or told that the way could not be looked up; where the name of a city
\* comes to another place first the legs lead there, which is what the
\* assumption leaves out (content.py _build_transfers, trip_planner.py
\* build_trip).
THEOREM CitiesLinked ==
  ASSUME NamesItsCity
  PROVE  Spec => []CitiesAreLinked
<1>1. PlanInv /\ TripInv => CitiesAreLinked
  <2> SUFFICES ASSUME PlanInv, TripInv, pc \in {"render", "done"},
                      NEW d \in 1..Len(windows) - 1, windows[d].stay # windows[d + 1].stay
               PROVE  LET i == windows[d].stay  j == windows[d + 1].stay
                      IN  /\ j = i + 1
                          /\ \/ /\ Leads(links[i], stays[i].city, stays[j].city)
                                /\ windows[d].moving
                                /\ windows[d].transfer = <<Head(links[i])>>
                             \/ <<"unlinked", stays[i].city>> \in told
    BY DEF CitiesAreLinked
  <2>1. request \in Requests
    BY DEF PlanInv
  <2>2. PICK b : LaidOut(b) /\ HopsHandled(b)
    <3>1. windows # <<>>
      OBVIOUS
    <3> QED BY <2>1, <3>1, CalendarLength
  <2>3. Len(windows) = request.days
    BY <2>2 DEF LaidOut
  <2>4. PICK i \in 1..Len(stays) :
          /\ windows[d].stay = i
          /\ \/ windows[d + 1].stay = i
             \/ i < Len(stays) /\ windows[d + 1].stay = i + 1 /\ d = b[i + 1] - 1
    BY <2>1, <2>2, <2>3, NextDay
  <2>5. i < Len(stays) /\ windows[d + 1].stay = i + 1 /\ d = b[i + 1] - 1
    BY <2>4
  <2>6. i \in 1..Len(links)
    <3>1. Len(links) \in Nat /\ Len(links) + 1 >= Len(stays) /\ Len(stays) \in Nat
      BY <2>2 DEF TripInv, HopsHandled, LaidOut, Settled
    <3> QED BY <2>5, <3>1
  <2>7. Handled(i, b)
    BY <2>2, <2>6 DEF HopsHandled
  <2> QED BY <2>4, <2>5, <2>7 DEF Handled
<1> QED BY <1>1, PlanInvariant, TripInvariant, PTL

\* What a day is packed with: as many visits as there is room for between the
\* arrival and the night, one after the other, and the rest counted.
LEMMA ArrivesIs ==
  ASSUME NEW d \in Nat \ {0}, NEW window, Carries(window.transfer)
  PROVE  /\ ArrivesAt(window, d) \in DayStart..Day - 1
         /\ \A leg \in Range(window.transfer) :
              leg.arrive \div Day = d - 1 =>
                leg.arrive \in Nat /\ leg.arrive <= (d - 1) * Day + ArrivesAt(window, d)
<1>1. DayStart \in 0..95 /\ Day = 96 /\ NoClock = -1000
  BY RhythmAssumption DEF Day, NoClock
<1>2. CASE window.transfer = <<>>
  BY <1>1, <1>2 DEF ArrivesAt, Range
<1>3. CASE window.transfer # <<>>
  <2>1. PICK leg : window.transfer = <<leg>> /\ leg.arrive \in Nat
    BY <1>3 DEF Carries
  <2>2. window.transfer[1] = leg /\ Range(window.transfer) = {leg}
    BY <2>1 DEF Range
  <2>3. PICK a \in Nat : a = leg.arrive
    BY <2>1
  <2>4. a # NoClock /\ Clock(a) = a % 96
    BY <1>1, <2>3 DEF Clock
  <2>5. a % 96 \in 0..95 /\ a = 96 * (a \div 96) + (a % 96)
    BY <2>3
  <2>6. CASE a \div 96 # d - 1
    <3>1. ArrivesAt(window, d) = DayStart
      BY <1>1, <2>2, <2>3, <2>6 DEF ArrivesAt
    <3> QED BY <1>1, <2>2, <2>3, <2>6, <3>1
  <2>7. CASE a \div 96 = d - 1
    <3>1. ArrivesAt(window, d) = Max({DayStart, a % 96})
      BY <1>1, <1>3, <2>2, <2>3, <2>4, <2>7 DEF ArrivesAt
    <3>2. PICK c \in 0..95 : c = a % 96
      BY <2>5
    <3>3. Max({DayStart, c}) = IF DayStart >= c THEN DayStart ELSE c
      BY <1>1, <3>2, MaxOfTwo
    <3>4. a = 96 * (d - 1) + c
      BY <2>5, <2>7, <3>2
    <3>5. PICK from \in DayStart..95 : from = ArrivesAt(window, d) /\ c <= from
      BY <1>1, <3>1, <3>2, <3>3
    <3>6. a <= (d - 1) * 96 + from
      BY <1>1, <3>2, <3>4, <3>5
    <3>7. \A l \in Range(window.transfer) : l.arrive = a
      BY <2>2, <2>3
    <3> QED BY <1>1, <2>3, <3>5, <3>6, <3>7
  <2> QED BY <2>6, <2>7
<1> QED BY <1>2, <1>3

LEMMA FittingIs ==
  ASSUME NEW d \in Nat \ {0}, NEW window, Carries(window.transfer), NEW n \in Nat
  PROVE  /\ Fitting(window, d, n) \in 0..n
         /\ Fitting(window, d, n) > 0 =>
              ArrivesAt(window, d) + Fitting(window, d, n) * 8 <= DayEnd - 2
<1>1. DayStart \in 0..95 /\ DayEnd \in 0..95
  BY RhythmAssumption DEF Day
<1>2. PICK from \in Nat : from = ArrivesAt(window, d)
  BY <1>1, ArrivesIs DEF Day
<1>3. PICK free \in Int : free = DayEnd - 2 - from
  BY <1>1
<1>4. PICK room \in Int : room = free \div 8
  BY <1>3
<1>5. 8 * room <= free
  BY <1>3, <1>4
<1>6. Max({0, room}) = IF 0 >= room THEN 0 ELSE room
  BY <1>4, MaxOfTwo
<1>7. PICK most \in Nat : most = Max({0, room})
  BY <1>4, <1>6
<1>8. Min({n, most}) = IF n <= most THEN n ELSE most
  <2>1. n \in Int /\ most \in Int
    BY <1>7
  <2> QED BY <2>1, MaxOfTwo
<1>9. Fitting(window, d, n) = Min({n, most})
  BY <1>2, <1>3, <1>4, <1>7 DEF Fitting, Settling, Visit
<1> QED BY <1>1, <1>2, <1>3, <1>5, <1>6, <1>7, <1>8, <1>9

\* A packed day: what is on it fits, and every place is visited or counted.
Fit(day, d) ==
  \A v \in Range(day.visits) :
    /\ v >= On(d, DayStart) /\ v + Visit <= On(d, DayEnd - Settling)
    /\ \A leg \in Range(day.transfer) : leg.arrive \div Day = d - 1 => v >= leg.arrive
    /\ \A m \in Range(day.meals) : v + Visit <= m

LEMMA PackDayIs ==
  ASSUME NEW d \in Nat \ {0}, NEW window, Carries(window.transfer), NEW n \in Nat
  PROVE  LET day == PackDay(window, d, n)
         IN  /\ Fit(day, d)
             /\ day.stay = window.stay
             /\ day.moving = window.moving /\ day.transfer = window.transfer
             /\ Len(day.visits) + day.overflow = n
<1> DEFINE day == PackDay(window, d, n)
<1>1. DayStart \in 0..95 /\ DayEnd \in 0..95
  BY RhythmAssumption DEF Day
<1>2. PICK from \in DayStart..95 : from = ArrivesAt(window, d)
  BY <1>1, ArrivesIs DEF Day
<1>3. PICK placed \in Nat : placed = Fitting(window, d, n) /\ placed <= n
  BY FittingIs
<1>4. placed > 0 => from + placed * 8 <= DayEnd - 2
  BY <1>2, <1>3, FittingIs
<1>5. /\ day.stay = window.stay /\ day.transfer = window.transfer /\ day.overflow = n - placed
      /\ day.moving = window.moving
      /\ day.visits = [i \in 1..placed |-> On(d, from + (i - 1) * 8)]
      /\ day.meals = IF n = 0 THEN <<>> ELSE [i \in 1..2 |-> On(d, from + placed * 8 + (i - 1) * 4)]
  BY <1>2, <1>3 DEF PackDay, Visit, Meal
<1> HIDE DEF day
<1>6. \A c \in Int : c > -1000 => On(d, c) = (d - 1) * 96 + c
  BY DEF On, NoClock, Day
<1>7. Len(day.visits) = placed
  <2> DEFINE S == {day.visits[i] : i \in 1..placed}
  <2>1. day.visits \in [1..placed -> S]
    BY <1>5
  <2> HIDE DEF S
  <2> QED BY <1>3, <2>1, IsSeq
<1>8. ASSUME NEW v \in Range(day.visits)
      PROVE  /\ v >= On(d, DayStart) /\ v + Visit <= On(d, DayEnd - Settling)
             /\ \A leg \in Range(day.transfer) : leg.arrive \div Day = d - 1 => v >= leg.arrive
             /\ \A m \in Range(day.meals) : v + Visit <= m
  <2>1. PICK i \in 1..placed : v = On(d, from + (i - 1) * 8)
    BY <1>5 DEF Range
  <2>2. placed > 0 /\ from + placed * 8 <= DayEnd - 2 /\ placed <= 12
    BY <1>1, <1>2, <1>3, <1>4, <2>1
  <2>3. PICK k \in Nat : k = d - 1
    OBVIOUS
  <2>4. v = k * 96 + from + (i - 1) * 8
    BY <1>1, <1>2, <1>3, <1>6, <2>1, <2>2, <2>3
  <2>5. v >= On(d, DayStart)
    BY <1>1, <1>2, <1>6, <2>3, <2>4
  <2>6. v + Visit <= On(d, DayEnd - Settling)
    BY <1>1, <1>2, <1>3, <1>6, <2>2, <2>3, <2>4 DEF Visit, Settling
  <2>7. ASSUME NEW leg \in Range(day.transfer), leg.arrive \div Day = d - 1
        PROVE  v >= leg.arrive
    <3>1. leg.arrive \in Nat /\ leg.arrive <= k * 96 + from
      BY <1>2, <1>5, <2>3, <2>7, ArrivesIs DEF Day
    <3> QED BY <1>2, <2>3, <2>4, <3>1
  <2>8. ASSUME NEW m \in Range(day.meals)
        PROVE  v + Visit <= m
    <3>1. PICK j \in 1..2 : m = On(d, from + placed * 8 + (j - 1) * 4)
      <4>1. n # 0
        BY <1>3, <2>2
      <4>2. day.meals = [j \in 1..2 |-> On(d, from + placed * 8 + (j - 1) * 4)]
        BY <1>5, <4>1
      <4> QED BY <2>8, <4>2 DEF Range
    <3>2. m = k * 96 + from + placed * 8 + (j - 1) * 4
      <4>1. PICK p : p = from + placed * 8 + (j - 1) * 4
        OBVIOUS
      <4>2. p \in Int /\ p > -1000
        BY <1>1, <1>2, <1>3, <2>2, <4>1
      <4>3. On(d, p) = (d - 1) * 96 + p
        BY <1>6, <4>2
      <4> QED BY <1>1, <1>2, <1>3, <2>3, <3>1, <4>1, <4>2, <4>3
    <3> QED BY <1>2, <1>3, <2>3, <2>4, <3>2 DEF Visit
  <2> QED BY <2>5, <2>6, <2>7, <2>8
<1>9. Len(day.visits) + day.overflow = n
  BY <1>3, <1>5, <1>7
<1> QED BY <1>5, <1>8, <1>9 DEF Fit, day

\* The places of a stay are visited on its first day.
LEMMA VisitsIs ==
  ASSUME request \in Requests, NEW b, LaidOut(b), NEW i \in 1..Len(stays), NEW d \in DOMAIN windows,
         windows[d].stay = i
  PROVE  Visits(d) = IF d = b[i] /\ stays[i].city \in request.found THEN 1 ELSE 0
<1>1. PICK n \in Nat \ {0} : n = Len(stays) /\ i \in 1..n
  BY DEF LaidOut, Settled
<1>2. PICK T \in Nat : T = request.days /\ Calendar(b, n, T) /\ DOMAIN windows = 1..T
  BY <1>1, RequestsAssumption DEF LaidOut
<1>3. PICK low \in Nat \ {0}, high \in Nat : low = b[i] /\ high = b[i + 1] - 1 /\ high \in 1..T
  <2>1. b[i] \in Nat \ {0} /\ b[i + 1] - 1 \in 1..T
    BY <1>1, <1>2, StayBounds
  <2> QED BY <2>1
<1>4. \A e \in 1..T : windows[e].stay = i <=> e \in low..high
  BY <1>2, <1>3, OwnDays
<1>5. d \in low..high /\ d \in 1..T
  BY <1>2, <1>4
<1>6. windows[d].city = stays[i].city
  <2>1. \E j \in 1..n : Within(b, j, d) /\ IsDayOf(windows[d], stays, b, j, d)
    BY <1>1, <1>2, <1>5, DayIsOf
  <2> QED BY <2>1 DEF IsDayOf
<1>7. (\A e \in 1..d - 1 : windows[e].stay # windows[d].stay) <=> d = low
  <2>1. ASSUME d = low, NEW e \in 1..d - 1 PROVE windows[e].stay # windows[d].stay
    BY <1>4, <1>5, <2>1
  <2>2. ASSUME d # low PROVE low \in 1..d - 1 /\ windows[low].stay = windows[d].stay
    BY <1>3, <1>4, <1>5, <2>2
  <2> QED BY <2>1, <2>2
<1> QED BY <1>3, <1>6, <1>7 DEF Visits

\* A day of a move is packed behind the first leg of its hop.
LEMMA MovesBehind ==
  ASSUME request \in Requests, NEW b, LaidOut(b), HopsHandled(b), Len(links) \in Nat,
         NEW d \in 1..request.days, NEW i \in 1..Len(links),
         windows[d].moving, windows[d].stay = i, links[i] # <<>>
  PROVE  windows[d].transfer = <<Head(links[i])>>
<1>1. PICK j \in 1..Len(stays) : IsDayOf(windows[d], stays, b, j, d)
  BY DayIsOf
<1>2. j = i /\ d + 1 = b[i + 1]
  BY <1>1 DEF IsDayOf
<1>3. d = b[i + 1] - 1
  <2>1. PICK k : k = b[i + 1]
    OBVIOUS
  <2>2. request.days \in Nat
    BY RequestsAssumption
  <2>3. d \in Nat /\ k = d + 1
    BY <1>2, <2>1, <2>2
  <2>4. d = k - 1
    BY <2>3
  <2> QED BY <2>1, <2>4
<1>4. Handled(i, b)
  BY DEF HopsHandled
<1> QED BY <1>3, <1>4 DEF Handled

\* Visits keep to the hours of their day and begin after the leg it is packed
\* behind, which is the way to the next city where that is a single leg, and
\* every place of a stay is on exactly one of its days or counted as not
\* fitting (day_plan.py pack_day, assign_attractions).
THEOREM VisitsFit == Spec => []VisitsKeepTheHours
<1>1. PlanInv /\ TripInv => VisitsKeepTheHours
  <2> SUFFICES ASSUME PlanInv, TripInv PROVE VisitsKeepTheHours
    OBVIOUS
  <2>1. request \in Requests
    BY DEF PlanInv
  <2>2. CASE days = <<>>
    <3>1. DOMAIN days = {}
      BY <2>2
    <3> QED BY <2>2, <3>1 DEF VisitsKeepTheHours
  <2>3. CASE days # <<>> /\ windows = <<>>
    <3>1. days = Packed /\ Started
      BY <2>3 DEF TripInv, Started
    <3>2. DOMAIN days = {}
      BY <2>3, <3>1 DEF Packed
    <3>3. DOMAIN stays = {}
      <4>1. NothingToSee \/ \E b : LaidOut(b)
        BY <3>1 DEF TripInv
      <4>2. ~ \E b : LaidOut(b)
        <5> SUFFICES ASSUME NEW b, LaidOut(b) PROVE FALSE
          OBVIOUS
        <5>1. DOMAIN windows = 1..request.days /\ 1 \in 1..request.days
          BY <2>1, RequestsAssumption DEF LaidOut
        <5> QED BY <2>3, <5>1
      <4> QED BY <4>1, <4>2 DEF NothingToSee
    <3> QED BY <3>2, <3>3 DEF VisitsKeepTheHours
  <2>4. CASE days # <<>> /\ windows # <<>>
    <3>1. PICK b : LaidOut(b) /\ HopsHandled(b)
      BY <2>1, <2>4, CalendarLength
    <3>2. PICK T \in Nat \ {0} : T = request.days /\ DOMAIN windows = 1..T
      BY <2>1, <3>1, RequestsAssumption DEF LaidOut
    <3>3. DOMAIN days = 1..T /\ \A d \in 1..T : days[d] = PackDay(windows[d], d, Visits(d))
      BY <2>4, <3>2 DEF TripInv, Packed
    <3>4. \A d \in 1..T : Visits(d) \in {0, 1}
      BY DEF Visits
    <3>5. \A d \in 1..T : /\ Fit(days[d], d) /\ days[d].stay = windows[d].stay
                          /\ days[d].moving = windows[d].moving
                          /\ days[d].transfer = windows[d].transfer
                          /\ Len(days[d].visits) + days[d].overflow = Visits(d)
      <4> SUFFICES ASSUME NEW d \in 1..T
                   PROVE  /\ Fit(days[d], d) /\ days[d].stay = windows[d].stay
                          /\ days[d].moving = windows[d].moving
                          /\ days[d].transfer = windows[d].transfer
                          /\ Len(days[d].visits) + days[d].overflow = Visits(d)
        OBVIOUS
      <4>1. Carries(windows[d].transfer)
        BY <3>1, <3>2 DEF LaidOut
      <4>2. d \in Nat \ {0}
        OBVIOUS
      <4>3. PICK window, n : window = windows[d] /\ n = Visits(d)
        OBVIOUS
      <4>4. Carries(window.transfer)
        BY <4>1, <4>3
      <4>5. n \in Nat
        BY <3>4, <4>3
      <4>6. LET day == PackDay(window, d, n)
            IN  /\ Fit(day, d)
                /\ day.stay = window.stay
                /\ day.moving = window.moving /\ day.transfer = window.transfer
                /\ Len(day.visits) + day.overflow = n
        BY <4>2, <4>4, <4>5, PackDayIs
      <4> QED BY <3>3, <4>3, <4>6
    <3>6. ASSUME NEW i \in DOMAIN stays
          PROVE  Total([d \in DOMAIN days |-> IF days[d].stay # i THEN 0
                           ELSE Len(days[d].visits) + days[d].overflow])
                 = (IF stays[i].city \in request.found THEN 1 ELSE 0)
      <4>1. i \in 1..Len(stays)
        BY <3>1 DEF LaidOut, Settled
      <4> DEFINE count == [d \in 1..T |-> IF days[d].stay # i THEN 0
                               ELSE Len(days[d].visits) + days[d].overflow]
      <4>2. \A d \in 1..T : count[d] = IF windows[d].stay # i THEN 0 ELSE Visits(d)
        BY <3>5
      <4>3. count \in [1..T -> Int]
        <5>1. \A d \in 1..T : count[d] \in Int
          BY <3>4, <4>2
        <5> QED BY <5>1
      <4>4. b[i] \in 1..T /\ windows[b[i]].stay = i
        <5>1. PICK n \in Nat \ {0} : n = Len(stays) /\ i \in 1..n /\ Calendar(b, n, T)
          BY <3>1, <3>2, <4>1 DEF LaidOut, Settled
        <5>2. b[i] \in Nat \ {0} /\ b[i + 1] \in Nat /\ b[i] < b[i + 1] /\ b[i + 1] <= T + 1
          BY <5>1, StayBounds
        <5>3. b[i] \in b[i]..b[i + 1] - 1
          BY <5>2
        <5>4. b[i] \in {d \in DOMAIN windows : windows[d].stay = i}
          BY <2>1, <3>1, <4>1, <5>3, OwnDays
        <5>5. PICK k : k = b[i]
          OBVIOUS
        <5>6. k \in DOMAIN windows /\ windows[k].stay = i
          BY <5>4, <5>5
        <5> QED BY <3>2, <5>5, <5>6
      <4>5. \A d \in 1..T : windows[d].stay = i =>
               Visits(d) = IF d = b[i] /\ stays[i].city \in request.found THEN 1 ELSE 0
        BY <2>1, <3>1, <3>2, <4>1, VisitsIs
      <4>6. \A d \in 1..T : d # b[i] => count[d] = 0
        BY <4>2, <4>5
      <4>7. count[b[i]] = IF stays[i].city \in request.found THEN 1 ELSE 0
        BY <4>2, <4>4, <4>5
      <4>8. Total([d \in DOMAIN days |-> IF days[d].stay # i THEN 0
                      ELSE Len(days[d].visits) + days[d].overflow]) = Total(count)
        BY <3>3
      <4> HIDE DEF count
      <4>9. Total(count) = count[b[i]]
        <5>1. PICK k \in 1..T : k = b[i] /\ \A d \in 1..T : d # k => count[d] = 0
          BY <4>4, <4>6
        <5>2. T \in Nat
          OBVIOUS
        <5>3. Total(count) = count[k]
          BY <4>3, <5>1, <5>2, TotalOfOne
        <5> QED BY <5>1, <5>3
      <4> QED BY <4>7, <4>8, <4>9
    <3>7. ASSUME NEW d \in 1..T, NEW i \in DOMAIN links,
                 days[d].moving, days[d].stay = i, Len(links[i]) = 1,
                 NEW v \in Range(days[d].visits), links[i][1].arrive \div Day = d - 1
          PROVE  v >= links[i][1].arrive
      <4>1. PICK leg : leg = links[i][1]
        OBVIOUS
      <4>2. days[d].transfer = <<leg>>
        <5>1. DOMAIN links = 1..Len(links) /\ Len(links) \in Nat
          BY DEF PlanInv, LinksKeepTime, TripInv
        <5>2. links[i] # <<>> /\ i \in 1..Len(links)
          <6>1. i \in 1..Len(links)
            BY <5>1
          <6>2. PICK legs : legs = links[i]
            OBVIOUS
          <6>3. Len(legs) = 1
            BY <3>7, <6>2
          <6>4. Len(<<>>) = 0
            OBVIOUS
          <6>5. ASSUME legs = <<>> PROVE FALSE
            <7>1. Len(<<>>) = 1
              BY <6>3, <6>5, Zenon
            <7> QED BY <6>4, <7>1
          <6> QED BY <6>1, <6>2, <6>5
        <5>3. windows[d].moving /\ windows[d].stay = i /\ d \in 1..request.days
          BY <3>2, <3>5, <3>7
        <5>4. windows[d].transfer = <<Head(links[i])>>
          BY <2>1, <3>1, <5>1, <5>2, <5>3, MovesBehind
        <5>5. Head(links[i]) = links[i][1]
          BY DEF Head
        <5> QED BY <3>5, <4>1, <5>4, <5>5
      <4>3. leg \in Range(days[d].transfer)
        BY <4>2 DEF Range
      <4>4. Fit(days[d], d)
        BY <3>5
      <4>5. leg.arrive \div Day = d - 1
        BY <3>7, <4>1
      <4>6. v >= leg.arrive
        BY <3>7, <4>3, <4>4, <4>5 DEF Fit
      <4> QED BY <4>1, <4>6
    <3>8. \A d \in DOMAIN days : \A v \in Range(days[d].visits) :
           /\ v >= On(d, DayStart) /\ v + Visit <= On(d, DayEnd - Settling)
           /\ \A leg \in Range(days[d].transfer) :
                  leg.arrive \div Day = d - 1 => v >= leg.arrive
           /\ \A m \in Range(days[d].meals) : v + Visit <= m
      BY <3>3, <3>5 DEF Fit
    <3>9. \A d \in DOMAIN days, i \in DOMAIN links :
           days[d].moving /\ days[d].stay = i /\ Len(links[i]) = 1 =>
               \A v \in Range(days[d].visits) :
                   links[i][1].arrive \div Day = d - 1 => v >= links[i][1].arrive
      BY <3>3, <3>7
    <3> QED BY <3>6, <3>8, <3>9 DEF VisitsKeepTheHours
  <2> QED BY <2>2, <2>3, <2>4
<1> QED BY <1>1, PlanInvariant, TripInvariant, PTL
=============================================================================
