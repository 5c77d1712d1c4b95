--------------------------------- MODULE Sums ---------------------------------
(***************************************************************************)
(* Induction, the sums over finite sets of the community modules, and      *)
(* their concatenation of sequences.  The property that an induction       *)
(* proves is given as a set, of the numbers or sets that have it, since no *)
(* prover here instantiates an operator.                                   *)
(***************************************************************************)
EXTENDS Integers, FiniteSetsExt, SequencesExt, FiniteSetTheorems, TLAPS

\* LeastNumber: a non-empty set of naturals has a least one.
LEMMA LeastNumber ==
    ASSUME NEW T, T \subseteq Nat, T # {}
    PROVE  \E m \in T : \A k \in T : m <= k
<1> DEFINE Down == {0 .. k : k \in T}
<1>1. Down \subseteq FiniteSubsetsOf(Nat)
  <2> SUFFICES ASSUME NEW k \in T PROVE 0 .. k \in SUBSET Nat /\ IsFiniteSet(0 .. k)
    BY DEF FiniteSubsetsOf
  <2> QED
    BY FS_Interval
<1>2. Down # {}
  OBVIOUS
<1>3. IsWellFoundedOn(StrictSubsetOrdering(Nat), FiniteSubsetsOf(Nat))
  BY FS_StrictSubsetOrderingWellFounded
<1> HIDE DEF Down
<1>4. PICK D \in Down : \A E \in Down : <<E, D>> \notin StrictSubsetOrdering(Nat)
  BY <1>1, <1>2, <1>3, WFMin
<1>5. PICK m \in T : D = 0 .. m
  BY <1>4 DEF Down
<1>6. ASSUME NEW k \in T, k < m PROVE FALSE
  <2>1. 0 .. k \in Down
    BY DEF Down
  <2>2. m \in 0 .. m /\ m \notin 0 .. k
    BY <1>6
  <2>3. 0 .. k \subseteq 0 .. m /\ 0 .. k # 0 .. m /\ 0 .. k \in SUBSET Nat /\ 0 .. m \in SUBSET Nat
    BY <1>6, <2>2
  <2>4. <<0 .. k, 0 .. m>> \in StrictSubsetOrdering(Nat)
    BY <2>3 DEF StrictSubsetOrdering
  <2> QED
    BY <1>4, <1>5, <2>1, <2>4
<1> QED
  BY <1>6

\* GreatestNumber: a non-empty set of naturals up to n has a greatest one.
LEMMA GreatestNumber ==
    ASSUME NEW n \in Nat, NEW T, T \subseteq 0 .. n, T # {}
    PROVE  \E m \in T : \A k \in T : k <= m
<1> DEFINE D == {n - k : k \in T}
<1>1. D \subseteq Nat /\ D # {}
  <2>1. \A k \in T : n - k \in Nat
    OBVIOUS
  <2> QED
    BY <2>1
<1> HIDE DEF D
<1>2. PICK d \in D : \A e \in D : d <= e
  BY <1>1, LeastNumber
<1>3. PICK m \in T : d = n - m
  BY DEF D
<1>4. ASSUME NEW k \in T PROVE k <= m
  <2>1. n - k \in D
    BY DEF D
  <2> QED
    BY <1>2, <1>3, <2>1
<1> QED
  BY <1>4

\* NumberInduction: what 0 has, and n + 1 if n has it, every natural has.
LEMMA NumberInduction ==
    ASSUME NEW P, 0 \in P, \A n \in Nat : n \in P => n + 1 \in P
    PROVE  \A n \in Nat : n \in P
<1> SUFFICES ASSUME Nat \ P # {} PROVE FALSE
  OBVIOUS
<1>1. PICK m \in Nat \ P : \A k \in Nat \ P : m <= k
  BY LeastNumber
<1>2. m - 1 \in Nat /\ m - 1 \in P
  BY <1>1
<1> QED
  BY <1>1, <1>2

\* SetInduction: what {} has, and T with another element if T has it, a finite set has.
LEMMA SetInduction ==
    ASSUME NEW S, IsFiniteSet(S), NEW P, {} \in P,
           \A T \in SUBSET S, x \in S : T \in P /\ x \notin T => T \union {x} \in P
    PROVE  S \in P
<1> DEFINE Q == {n \in Nat : \A T \in SUBSET S : Cardinality(T) = n => T \in P}
<1>1. 0 \in Q
  <2> SUFFICES ASSUME NEW T \in SUBSET S, Cardinality(T) = 0 PROVE T \in P
    OBVIOUS
  <2>1. T = {}
    BY FS_Subset, FS_EmptySet
  <2> QED
    BY <2>1
<1>2. ASSUME NEW n \in Nat, n \in Q PROVE n + 1 \in Q
  <2> SUFFICES ASSUME NEW T \in SUBSET S, Cardinality(T) = n + 1 PROVE T \in P
    OBVIOUS
  <2>1. IsFiniteSet(T) /\ T # {}
    BY FS_Subset, FS_EmptySet
  <2>2. PICK x \in T : TRUE
    BY <2>1
  <2>3. Cardinality(T \ {x}) = Cardinality(T) - 1
    BY <2>1, <2>2, FS_RemoveElement
  <2>4. T \ {x} \in P
    BY <1>2, <2>3
  <2>5. (T \ {x}) \union {x} = T
    BY <2>2
  <2> QED
    BY <2>4, <2>5
<1> HIDE DEF Q
<1>3. \A n \in Nat : n \in Q
  BY <1>1, <1>2, NumberInduction
<1>4. Cardinality(S) \in Nat
  BY FS_CardinalityType
<1> QED
  BY <1>3, <1>4 DEF Q
-----------------------------------------------------------------------------
(* Sums *)

Chosen(s) == CHOOSE x \in s : TRUE

\* sum has, for each subset of S, what the recursion of MapThenSumSet gives for f.
Sums(sum, f, S) ==
    sum = [s \in SUBSET S |-> IF s = {} THEN 0 ELSE f[Chosen(s)] + sum[s \ {Chosen(s)}]]

Total(f, S) == MapThenSumSet(LAMBDA x : f[x], S)

\* AnyIn: what CHOOSE takes of a non-empty set is an element of it.
LEMMA AnyIn == ASSUME NEW s, s # {} PROVE Chosen(s) \in s
BY DEF Chosen

\* SumsExist: the recursion has a solution.
LEMMA SumsExist ==
    ASSUME NEW S, IsFiniteSet(S), NEW f
    PROVE  \E sum : Sums(sum, f, S)
<1> DEFINE Small(n) == {s \in SUBSET S : Cardinality(s) <= n}
           Solves(sum, n) == sum = [s \in Small(n) |-> IF s = {} THEN 0
                                                       ELSE f[Chosen(s)] + sum[s \ {Chosen(s)}]]
           P == {n \in Nat : \E sum : Solves(sum, n)}
<1>1. 0 \in P
  <2> DEFINE sum == [s \in Small(0) |-> 0]
  <2>1. \A s \in Small(0) : s = {}
    BY FS_Subset, FS_EmptySet, FS_CardinalityType
  <2>2. Solves(sum, 0)
    BY <2>1
  <2> QED
    BY <2>2
<1>2. ASSUME NEW n \in Nat, n \in P PROVE n + 1 \in P
  <2>1. PICK sum : Solves(sum, n)
    BY <1>2
  <2> DEFINE next == [s \in Small(n + 1) |-> IF s = {} THEN 0
                                             ELSE f[Chosen(s)] + sum[s \ {Chosen(s)}]]
  <2>2. \A s \in Small(n) : s \in Small(n + 1) /\ next[s] = sum[s]
    <3> TAKE s \in Small(n)
    <3>1. s \in Small(n + 1)
      BY FS_Subset, FS_CardinalityType
    <3>2. sum[s] = IF s = {} THEN 0 ELSE f[Chosen(s)] + sum[s \ {Chosen(s)}]
      BY <2>1
    <3> HIDE DEF Small
    <3> QED
      BY <3>1, <3>2
  <2>3. ASSUME NEW s \in Small(n + 1), s # {} PROVE s \ {Chosen(s)} \in Small(n)
    <3>1. IsFiniteSet(s) /\ Cardinality(s) \in Nat
      BY FS_Subset, FS_CardinalityType
    <3>2. Cardinality(s \ {Chosen(s)}) = Cardinality(s) - 1
      BY <2>3, <3>1, AnyIn, FS_RemoveElement
    <3> QED
      BY <3>1, <3>2
  <2>4. \A s \in Small(n + 1) : s # {} => next[s \ {Chosen(s)}] = sum[s \ {Chosen(s)}]
    BY <2>2, <2>3
  <2> HIDE DEF Small
  <2>5. next = [s \in Small(n + 1) |-> IF s = {} THEN 0
                                      ELSE f[Chosen(s)] + next[s \ {Chosen(s)}]]
    BY <2>4
  <2> HIDE DEF next
  <2>6. Solves(next, n + 1)
    BY <2>5
  <2> HIDE DEF Solves
  <2>7. \E other : Solves(other, n + 1)
    BY <2>6
  <2> QED
    BY <2>7
<1> HIDE DEF P
<1>3. \A n \in Nat : n \in P
  BY <1>1, <1>2, NumberInduction
<1>4. Cardinality(S) \in Nat
  BY FS_CardinalityType
<1>5. PICK sum : Solves(sum, Cardinality(S))
  BY <1>3, <1>4 DEF P
<1>6. Small(Cardinality(S)) = SUBSET S
  BY FS_Subset
<1> HIDE DEF Small
<1> QED
  BY <1>5, <1>6 DEF Sums

\* SumsType: a solution adds integers up to integers.
LEMMA SumsType ==
    ASSUME NEW S, IsFiniteSet(S), NEW f, \A x \in S : f[x] \in Int, NEW sum, Sums(sum, f, S)
    PROVE  \A s \in SUBSET S : sum[s] \in Int
<1> DEFINE P == {n \in Nat : \A s \in SUBSET S : Cardinality(s) = n => sum[s] \in Int}
<1>1. ASSUME NEW s \in SUBSET S
      PROVE  sum[s] = IF s = {} THEN 0 ELSE f[Chosen(s)] + sum[s \ {Chosen(s)}]
  BY DEF Sums
<1>2. 0 \in P
  <2> SUFFICES ASSUME NEW s \in SUBSET S, Cardinality(s) = 0 PROVE sum[s] \in Int
    OBVIOUS
  <2>1. s = {}
    BY FS_Subset, FS_EmptySet
  <2>2. sum[s] = 0
    BY <1>1, <2>1
  <2> QED
    BY <2>2
<1>3. ASSUME NEW n \in Nat, n \in P PROVE n + 1 \in P
  <2> SUFFICES ASSUME NEW s \in SUBSET S, Cardinality(s) = n + 1 PROVE sum[s] \in Int
    OBVIOUS
  <2>1. IsFiniteSet(s) /\ s # {}
    BY FS_Subset, FS_EmptySet
  <2>2. Chosen(s) \in s
    BY <2>1, AnyIn
  <2>3. Cardinality(s \ {Chosen(s)}) = Cardinality(s) - 1
    BY <2>1, <2>2, FS_RemoveElement
  <2>4. sum[s \ {Chosen(s)}] \in Int
    BY <1>3, <2>3
  <2>5. sum[s] = f[Chosen(s)] + sum[s \ {Chosen(s)}]
    BY <1>1, <2>1
  <2>6. f[Chosen(s)] \in Int
    BY <2>2
  <2> QED
    BY <2>4, <2>5, <2>6
<1> HIDE DEF P
<1>4. \A n \in Nat : n \in P
  BY <1>2, <1>3, NumberInduction
<1> QED
  BY <1>4, FS_Subset, FS_CardinalityType DEF P

\* SumsAny: which element is taken first makes no difference.
LEMMA SumsAny ==
    ASSUME NEW S, IsFiniteSet(S), NEW f, \A x \in S : f[x] \in Int, NEW sum, Sums(sum, f, S)
    PROVE  \A s \in SUBSET S : \A x \in s : sum[s] = f[x] + sum[s \ {x}]
<1> DEFINE P == {n \in Nat : \A s \in SUBSET S : Cardinality(s) = n =>
                               \A x \in s : sum[s] = f[x] + sum[s \ {x}]}
<1>1. ASSUME NEW s \in SUBSET S, s # {}
      PROVE  Chosen(s) \in s /\ sum[s] = f[Chosen(s)] + sum[s \ {Chosen(s)}]
  BY <1>1, AnyIn DEF Sums
<1>2. 0 \in P
  BY FS_Subset, FS_EmptySet
<1>3. ASSUME NEW n \in Nat, n \in P PROVE n + 1 \in P
  <2> SUFFICES ASSUME NEW s \in SUBSET S, Cardinality(s) = n + 1, NEW x \in s
               PROVE  sum[s] = f[x] + sum[s \ {x}]
    OBVIOUS
  <2>1. IsFiniteSet(s)
    BY FS_Subset
  <2>2. PICK y \in s : y = Chosen(s) /\ sum[s] = f[y] + sum[s \ {y}]
    BY <1>1
  <2>3. CASE x = y
    BY <2>2, <2>3
  <2>4. CASE x # y
    <3>1. Cardinality(s \ {x}) = n /\ Cardinality(s \ {y}) = n
      <4>1. \A z \in s : Cardinality(s \ {z}) = Cardinality(s) - 1
        BY <2>1, FS_RemoveElement
      <4> QED
        BY <2>2, <4>1
    <3>2. s \ {x} \in SUBSET S /\ s \ {y} \in SUBSET S /\ y \in s \ {x} /\ x \in s \ {y}
      BY <2>2, <2>4
    <3>3. sum[s \ {x}] = f[y] + sum[(s \ {x}) \ {y}]
      BY <1>3, <3>1, <3>2
    <3>4. sum[s \ {y}] = f[x] + sum[(s \ {x}) \ {y}]
      <4>1. (s \ {y}) \ {x} = (s \ {x}) \ {y}
        OBVIOUS
      <4>2. sum[s \ {y}] = f[x] + sum[(s \ {y}) \ {x}]
        BY <1>3, <3>1, <3>2
      <4> QED
        BY <4>1, <4>2, Zenon
    <3>5. (s \ {x}) \ {y} \in SUBSET S
      OBVIOUS
    <3>6. sum[(s \ {x}) \ {y}] \in Int /\ f[x] \in Int /\ f[y] \in Int
      BY <3>5, SumsType
    <3> QED
      BY <2>2, <3>3, <3>4, <3>6
  <2> QED
    BY <2>3, <2>4
<1> HIDE DEF P
<1>4. \A n \in Nat : n \in P
  BY <1>2, <1>3, NumberInduction
<1> QED
  BY <1>4, FS_Subset, FS_CardinalityType DEF P

\* SumsSame: what solves it for f also solves it for g, and for a part of S alike, if
\* g has the values of f there.
LEMMA SumsSame ==
    ASSUME NEW S, IsFiniteSet(S), NEW f, NEW sum, Sums(sum, f, S),
           NEW T \in SUBSET S, NEW g, \A x \in T : g[x] = f[x], NEW other, Sums(other, g, T)
    PROVE  \A s \in SUBSET T : other[s] = sum[s]
<1> DEFINE P == {n \in Nat : \A s \in SUBSET T : Cardinality(s) = n => other[s] = sum[s]}
<1>1. ASSUME NEW s \in SUBSET T
      PROVE  /\ sum[s] = IF s = {} THEN 0 ELSE f[Chosen(s)] + sum[s \ {Chosen(s)}]
             /\ other[s] = IF s = {} THEN 0 ELSE g[Chosen(s)] + other[s \ {Chosen(s)}]
  BY DEF Sums
<1>2. 0 \in P
  BY <1>1, FS_Subset, FS_EmptySet
<1>3. ASSUME NEW n \in Nat, n \in P PROVE n + 1 \in P
  <2> SUFFICES ASSUME NEW s \in SUBSET T, Cardinality(s) = n + 1 PROVE other[s] = sum[s]
    OBVIOUS
  <2>1. IsFiniteSet(s) /\ s # {}
    BY FS_Subset, FS_EmptySet
  <2>2. Chosen(s) \in s
    BY <2>1, AnyIn
  <2>3. Cardinality(s \ {Chosen(s)}) = Cardinality(s) - 1
    BY <2>1, <2>2, FS_RemoveElement
  <2>4. other[s \ {Chosen(s)}] = sum[s \ {Chosen(s)}]
    BY <1>3, <2>3
  <2> QED
    BY <1>1, <2>1, <2>2, <2>4
<1> HIDE DEF P
<1>4. \A n \in Nat : n \in P
  BY <1>2, <1>3, NumberInduction
<1> QED
  BY <1>4, FS_Subset, FS_CardinalityType DEF P
\* TotalIs: MapThenSumSet is a solution's value at the whole set.
LEMMA TotalIs ==
    ASSUME NEW S, IsFiniteSet(S), NEW f, NEW sum, Sums(sum, f, S)
    PROVE  Total(f, S) = sum[S]
<1> DEFINE iter == CHOOSE h : h = [s \in SUBSET S |->
                     IF s = {} THEN 0
                     ELSE f[CHOOSE x \in s : TRUE] + h[s \ {CHOOSE x \in s : TRUE}]]
<1>1. Total(f, S) = iter[S]
  BY DEF Total, MapThenSumSet, MapThenFoldSet
<1>2. \E h : h = [s \in SUBSET S |->
                    IF s = {} THEN 0
                    ELSE f[CHOOSE x \in s : TRUE] + h[s \ {CHOOSE x \in s : TRUE}]]
  BY DEF Sums, Chosen
<1>3. Sums(iter, f, S)
  BY <1>2 DEF Sums, Chosen
<1> HIDE DEF iter
<1> QED
  BY <1>1, <1>3, SumsSame
-----------------------------------------------------------------------------
(* What sums obey, by adding one element after the other *)

\* TotalEmpty: the sum over no elements is 0.
LEMMA TotalEmpty == ASSUME NEW f PROVE Total(f, {}) = 0
<1>1. IsFiniteSet({})
  BY FS_EmptySet
<1>2. PICK sum : Sums(sum, f, {})
  BY <1>1, SumsExist
<1>3. sum[{}] = 0
  BY <1>2 DEF Sums
<1> QED
  BY <1>1, <1>2, <1>3, TotalIs

\* TotalRemove: a sum is any summand and the sum of the others.
LEMMA TotalRemove ==
    ASSUME NEW S, IsFiniteSet(S), NEW f, \A x \in S : f[x] \in Int, NEW y \in S
    PROVE  /\ Total(f, S) \in Int /\ Total(f, S \ {y}) \in Int
           /\ Total(f, S) = f[y] + Total(f, S \ {y})
<1>1. PICK sum : Sums(sum, f, S)
  BY SumsExist
<1>2. IsFiniteSet(S \ {y}) /\ S \ {y} \in SUBSET S /\ S \in SUBSET S
  BY FS_RemoveElement
<1>3. PICK other : Sums(other, f, S \ {y})
  BY <1>2, SumsExist
<1>4. other[S \ {y}] = sum[S \ {y}]
  BY <1>1, <1>2, <1>3, SumsSame
<1>5. Total(f, S) = sum[S] /\ Total(f, S \ {y}) = sum[S \ {y}]
  BY <1>1, <1>2, <1>3, <1>4, TotalIs
<1>6. sum[S] = f[y] + sum[S \ {y}]
  BY <1>1, <1>2, SumsAny
<1>7. sum[S] \in Int /\ sum[S \ {y}] \in Int
  BY <1>1, <1>2, SumsType
<1> QED
  BY <1>5, <1>6, <1>7

\* TotalType: a finite sum of integers is an integer.
LEMMA TotalType ==
    ASSUME NEW S, IsFiniteSet(S), NEW f, \A x \in S : f[x] \in Int
    PROVE  Total(f, S) \in Int
<1>1. CASE S = {}
  BY <1>1, TotalEmpty
<1>2. CASE S # {}
  BY <1>2, TotalRemove
<1> QED
  BY <1>1, <1>2

\* TotalAdd: an element more adds its summand.
LEMMA TotalAdd ==
    ASSUME NEW S, IsFiniteSet(S), NEW f, NEW y, y \notin S, f[y] \in Int, \A x \in S : f[x] \in Int
    PROVE  Total(f, S \union {y}) = Total(f, S) + f[y]
<1>1. IsFiniteSet(S \union {y}) /\ (S \union {y}) \ {y} = S /\ y \in S \union {y}
  BY FS_AddElement
<1>2. Total(f, S \union {y}) = f[y] + Total(f, (S \union {y}) \ {y})
  BY <1>1, TotalRemove
<1>3. Total(f, S) \in Int
  BY TotalType
<1>4. Total(f, S \union {y}) = f[y] + Total(f, S)
  BY <1>1, <1>2, Zenon
<1> QED
  BY <1>3, <1>4

\* TotalSame: sums of the same summands are the same.
LEMMA TotalSame ==
    ASSUME NEW S, IsFiniteSet(S), NEW f, NEW g, \A x \in S : f[x] = g[x]
    PROVE  Total(f, S) = Total(g, S)
<1>1. PICK sum : Sums(sum, f, S)
  BY SumsExist
<1>2. PICK other : Sums(other, g, S)
  BY SumsExist
<1>3. other[S] = sum[S]
  BY <1>1, <1>2, SumsSame
<1> QED
  BY <1>1, <1>2, <1>3, TotalIs

\* TotalUnion: the sum over two disjoint sets is the sum of their sums.
LEMMA TotalUnion ==
    ASSUME NEW S, IsFiniteSet(S), NEW T, IsFiniteSet(T), S \intersect T = {},
           NEW f, \A x \in S \union T : f[x] \in Int
    PROVE  Total(f, S \union T) = Total(f, S) + Total(f, T)
<1> DEFINE P == {U \in SUBSET T : Total(f, S \union U) = Total(f, S) + Total(f, U)}
<1>1. {} \in P
  BY TotalEmpty, TotalType
<1>2. ASSUME NEW U \in SUBSET T, NEW y \in T, U \in P, y \notin U
      PROVE  U \union {y} \in P
  <2>1. IsFiniteSet(U) /\ IsFiniteSet(S \union U)
    BY FS_Subset, FS_Union
  <2>2. Total(f, U \union {y}) = Total(f, U) + f[y]
    BY <1>2, <2>1, TotalAdd
  <2>3. Total(f, (S \union U) \union {y}) = Total(f, S \union U) + f[y]
    BY <1>2, <2>1, TotalAdd
  <2>4. (S \union U) \union {y} = S \union (U \union {y})
    OBVIOUS
  <2>5. Total(f, S) \in Int /\ Total(f, U) \in Int /\ f[y] \in Int
    BY <2>1, TotalType
  <2>6. Total(f, S \union U) = Total(f, S) + Total(f, U)
    BY <1>2
  <2>7. Total(f, S \union (U \union {y})) = Total(f, S \union U) + f[y]
    BY <2>3, <2>4, Zenon
  <2>8. Total(f, S \union (U \union {y})) = Total(f, S) + (Total(f, U) + f[y])
    BY <2>5, <2>6, <2>7
  <2> QED
    BY <2>2, <2>8
<1> HIDE DEF P
<1>3. T \in P
  BY <1>1, <1>2, SetInduction
<1> QED
  BY <1>3 DEF P

\* TotalOrder: greater summands have a greater sum.
LEMMA TotalOrder ==
    ASSUME NEW S, IsFiniteSet(S), NEW f, NEW g,
           \A x \in S : f[x] \in Int /\ g[x] \in Int /\ f[x] <= g[x]
    PROVE  Total(f, S) <= Total(g, S)
<1> DEFINE P == {U \in SUBSET S : Total(f, U) <= Total(g, U)}
<1>1. {} \in P
  BY TotalEmpty
<1>2. ASSUME NEW U \in SUBSET S, NEW y \in S, U \in P, y \notin U
      PROVE  U \union {y} \in P
  <2>1. IsFiniteSet(U)
    BY FS_Subset
  <2>2. Total(f, U \union {y}) = Total(f, U) + f[y] /\ Total(g, U \union {y}) = Total(g, U) + g[y]
    BY <1>2, <2>1, TotalAdd
  <2>3. Total(f, U) \in Int /\ Total(g, U) \in Int
    BY <2>1, TotalType
  <2> QED
    BY <1>2, <2>2, <2>3
<1> HIDE DEF P
<1>3. S \in P
  BY <1>1, <1>2, SetInduction
<1> QED
  BY <1>3 DEF P

\* TotalConstant: a sum of equal summands
LEMMA TotalConstant ==
    ASSUME NEW S, IsFiniteSet(S), NEW f, NEW c \in Int, \A x \in S : f[x] = c
    PROVE  Total(f, S) = Cardinality(S) * c
<1> DEFINE P == {U \in SUBSET S : Total(f, U) = Cardinality(U) * c}
<1>1. {} \in P
  BY TotalEmpty, FS_EmptySet
<1>2. ASSUME NEW U \in SUBSET S, NEW y \in S, U \in P, y \notin U
      PROVE  U \union {y} \in P
  <2>1. IsFiniteSet(U)
    BY FS_Subset
  <2>2. Total(f, U \union {y}) = Total(f, U) + f[y]
    <3>1. f[y] \in Int /\ \A x \in U : f[x] \in Int
      OBVIOUS
    <3> QED
      BY <1>2, <2>1, <3>1, TotalAdd
  <2>3. Cardinality(U \union {y}) = Cardinality(U) + 1 /\ Cardinality(U) \in Nat
    BY <1>2, <2>1, FS_AddElement, FS_CardinalityType
  <2>4. (Cardinality(U) + 1) * c = Cardinality(U) * c + c
    BY <2>3
  <2> QED
    BY <1>2, <2>2, <2>3, <2>4
<1> HIDE DEF P
<1>3. S \in P
  BY <1>1, <1>2, SetInduction
<1> QED
  BY <1>3 DEF P

\* TotalNat: a sum of naturals is one, and no less than a part of it.
LEMMA TotalNat ==
    ASSUME NEW S, IsFiniteSet(S), NEW f, \A x \in S : f[x] \in Nat
    PROVE  /\ Total(f, S) \in Nat
           /\ \A T \in SUBSET S : Total(f, T) \in Nat /\ Total(f, T) <= Total(f, S)
<1>1. ASSUME NEW T \in SUBSET S PROVE Total(f, T) \in Nat
  <2> DEFINE zero == [x \in T |-> 0]
  <2>1. IsFiniteSet(T)
    BY FS_Subset
  <2>2. Total(zero, T) = Cardinality(T) * 0
    BY <2>1, TotalConstant
  <2>3. Total(zero, T) <= Total(f, T)
    BY <2>1, TotalOrder
  <2>4. Cardinality(T) \in Nat /\ Total(f, T) \in Int
    BY <2>1, FS_CardinalityType, TotalType
  <2> HIDE DEF zero
  <2> QED
    BY <2>2, <2>3, <2>4
<1>2. ASSUME NEW T \in SUBSET S PROVE Total(f, T) <= Total(f, S)
  <2>1. IsFiniteSet(T) /\ IsFiniteSet(S \ T) /\ T \intersect (S \ T) = {} /\ T \union (S \ T) = S
    BY FS_Subset
  <2>2. Total(f, T \union (S \ T)) = Total(f, T) + Total(f, S \ T)
    BY <2>1, TotalUnion
  <2>3. Total(f, T) \in Nat /\ Total(f, S \ T) \in Nat
    BY <1>1
  <2>4. Total(f, S) = Total(f, T) + Total(f, S \ T)
    BY <2>1, <2>2, Zenon
  <2> QED
    BY <2>3, <2>4
<1> QED
  BY <1>1, <1>2

\* TotalTimes: a common factor
LEMMA TotalTimes ==
    ASSUME NEW S, IsFiniteSet(S), NEW f, NEW g, NEW c \in Int,
           \A x \in S : f[x] \in Int /\ g[x] = c * f[x]
    PROVE  Total(g, S) = c * Total(f, S)
<1> DEFINE P == {U \in SUBSET S : Total(g, U) = c * Total(f, U)}
<1>1. {} \in P
  BY TotalEmpty
<1>2. ASSUME NEW U \in SUBSET S, NEW y \in S, U \in P, y \notin U
      PROVE  U \union {y} \in P
  <2>1. IsFiniteSet(U) /\ y \notin U
    BY <1>2, FS_Subset
  <2>2. Total(f, U \union {y}) = Total(f, U) + f[y] /\ Total(g, U \union {y}) = Total(g, U) + g[y]
    <3>1. \A x \in U \union {y} : f[x] \in Int
      OBVIOUS
    <3>2. \A x \in U \union {y} : g[x] \in Int
      OBVIOUS
    <3>3. Total(f, U \union {y}) = Total(f, U) + f[y]
      BY <2>1, <3>1, TotalAdd
    <3>4. Total(g, U \union {y}) = Total(g, U) + g[y]
      BY <2>1, <3>2, TotalAdd
    <3> QED
      BY <3>3, <3>4
  <2>3. Total(f, U) \in Int /\ f[y] \in Int /\ g[y] = c * f[y]
    BY <2>1, TotalType
  <2>4. c * (Total(f, U) + f[y]) = c * Total(f, U) + c * f[y]
    BY <2>3
  <2> QED
    BY <1>2, <2>2, <2>3, <2>4
<1> HIDE DEF P
<1>3. S \in P
  BY <1>1, <1>2, SetInduction
<1> QED
  BY <1>3 DEF P

\* TotalPlus: the sum of sums
LEMMA TotalPlus ==
    ASSUME NEW S, IsFiniteSet(S), NEW f, NEW g, NEW h,
           \A x \in S : f[x] \in Int /\ g[x] \in Int /\ h[x] = f[x] + g[x]
    PROVE  Total(h, S) = Total(f, S) + Total(g, S)
<1> DEFINE P == {U \in SUBSET S : Total(h, U) = Total(f, U) + Total(g, U)}
<1>1. {} \in P
  BY TotalEmpty
<1>2. ASSUME NEW U \in SUBSET S, NEW y \in S, U \in P, y \notin U
      PROVE  U \union {y} \in P
  <2>1. IsFiniteSet(U) /\ y \notin U
    BY <1>2, FS_Subset
  <2>2. /\ Total(f, U \union {y}) = Total(f, U) + f[y]
        /\ Total(g, U \union {y}) = Total(g, U) + g[y]
        /\ Total(h, U \union {y}) = Total(h, U) + h[y]
    <3>1. \A x \in U \union {y} : f[x] \in Int /\ g[x] \in Int /\ h[x] \in Int
      OBVIOUS
    <3>2. ASSUME NEW e, \A x \in U \union {y} : e[x] \in Int
          PROVE  Total(e, U \union {y}) = Total(e, U) + e[y]
      BY ONLY <2>1, <3>2, TotalAdd
    <3> QED
      BY <3>1, <3>2
  <2>3. Total(f, U) \in Int /\ Total(g, U) \in Int
    BY <2>1, TotalType
  <2> QED
    BY <1>2, <2>2, <2>3
<1> HIDE DEF P
<1>3. S \in P
  BY <1>1, <1>2, SetInduction
<1> QED
  BY <1>3 DEF P

\* TotalMoved: a sum is the same over the places where an injection puts what is summed.
LEMMA TotalMoved ==
    ASSUME NEW S, IsFiniteSet(S), NEW p, \A i, j \in S : p[i] = p[j] => i = j,
           NEW f, NEW h, \A i \in S : f[p[i]] \in Int /\ h[i] = f[p[i]]
    PROVE  /\ IsFiniteSet({p[i] : i \in S})
           /\ Total(h, S) = Total(f, {p[i] : i \in S})
<1> DEFINE Image(U) == {p[i] : i \in U}
           P == {U \in SUBSET S : IsFiniteSet(Image(U)) /\ Total(h, U) = Total(f, Image(U))}
<1>1. {} \in P
  <2>1. Image({}) = {}
    OBVIOUS
  <2> QED
    BY <2>1, TotalEmpty, FS_EmptySet
<1>2. ASSUME NEW T \in SUBSET S, NEW x \in S, T \in P, x \notin T PROVE T \union {x} \in P
  <2>1. IsFiniteSet(T)
    BY FS_Subset
  <2>2. Image(T \union {x}) = Image(T) \union {p[x]} /\ p[x] \notin Image(T)
    BY <1>2
  <2>3. \A y \in Image(T) : f[y] \in Int
    OBVIOUS
  <2>4. IsFiniteSet(Image(T)) /\ Total(h, T) = Total(f, Image(T))
    BY <1>2
  <2> HIDE DEF Image
  <2>5. Total(h, T \union {x}) = Total(h, T) + h[x]
    <3>1. x \notin T /\ h[x] \in Int /\ \A y \in T : h[y] \in Int
      BY <1>2
    <3> QED
      BY <2>1, <3>1, TotalAdd
  <2>6. Total(f, Image(T) \union {p[x]}) = Total(f, Image(T)) + f[p[x]]
    <3>1. f[p[x]] \in Int
      OBVIOUS
    <3> DEFINE y == p[x]
               V == Image(T)
    <3>2. y \notin V /\ f[y] \in Int /\ IsFiniteSet(V) /\ \A z \in V : f[z] \in Int
      BY <2>2, <2>3, <2>4, <3>1
    <3> HIDE DEF y, V
    <3>3. Total(f, V \union {y}) = Total(f, V) + f[y]
      BY <3>2, TotalAdd
    <3> QED
      BY <3>3 DEF y, V
  <2>7. IsFiniteSet(Image(T) \union {p[x]})
    BY <2>4, FS_AddElement
  <2> QED
    BY <2>2, <2>4, <2>5, <2>6, <2>7
<1> HIDE DEF P
<1>3. S \in P
  BY <1>1, <1>2, SetInduction
<1> QED
  BY <1>3 DEF P

\* TotalCover: the sum over what is covered by sets is no more than the sum of their sums.
LEMMA TotalCover ==
    ASSUME NEW A, IsFiniteSet(A), NEW N, IsFiniteSet(N), NEW F, \A n \in N : IsFiniteSet(F[n]),
           NEW f, \A x \in A : f[x] \in Nat, \A n \in N : \A x \in F[n] : f[x] \in Nat,
           NEW sums, \A n \in N : sums[n] = Total(f, F[n]),
           NEW S, S \subseteq A \union UNION {F[n] : n \in N}
    PROVE  Total(f, S) <= Total(f, A) + Total(sums, N)
<1> DEFINE All(M) == A \union UNION {F[n] : n \in M}
           P == {M \in SUBSET N : IsFiniteSet(All(M)) /\ Total(f, All(M)) <= Total(f, A) + Total(sums, M)}
<1>0. \A M \in SUBSET N : \A x \in All(M) : f[x] \in Nat
  OBVIOUS
<1>a. Total(f, A) \in Nat
  BY TotalNat
<1>b. \A n \in N : sums[n] \in Nat
  BY TotalNat
<1>1. {} \in P
  <2>1. All({}) = A
    OBVIOUS
  <2>2. Total(sums, {}) = 0
    BY TotalEmpty
  <2> HIDE DEF All
  <2> QED
    BY <1>a, <2>1, <2>2
<1>2. ASSUME NEW M \in SUBSET N, NEW y \in N, M \in P, y \notin M
      PROVE  M \union {y} \in P
  <2> DEFINE B == All(M)
             C == F[y] \ B
  <2>1. All(M \union {y}) = B \union C
    OBVIOUS
  <2>2. \A x \in B : f[x] \in Nat
    BY <1>0
  <2>3. \A x \in F[y] : f[x] \in Nat
    OBVIOUS
  <2>4. IsFiniteSet(B) /\ Total(f, B) <= Total(f, A) + Total(sums, M)
    BY <1>2
  <2> HIDE DEF B, All
  <2>5. IsFiniteSet(C) /\ B \intersect C = {} /\ C \in SUBSET F[y] /\ IsFiniteSet(F[y])
    BY FS_Subset
  <2>6. IsFiniteSet(B \union C)
    BY <2>4, <2>5, FS_Union
  <2>7. Total(f, B \union C) = Total(f, B) + Total(f, C)
    <3>1. \A x \in B \union C : f[x] \in Int
      BY <2>2, <2>3
    <3> HIDE DEF C
    <3> QED
      BY ONLY <2>4, <2>5, <3>1, TotalUnion
  <2>8. Total(f, C) \in Nat /\ Total(f, C) <= sums[y]
    <3>1. Total(f, C) \in Nat /\ Total(f, C) <= Total(f, F[y])
      BY <2>3, <2>5, TotalNat
    <3> QED
      BY <3>1
  <2>9. Total(f, B) \in Nat
    BY <2>2, <2>4, TotalNat
  <2>10. IsFiniteSet(M) /\ \A n \in M : sums[n] \in Nat
    BY <1>b, FS_Subset
  <2>11. Total(sums, M \union {y}) = Total(sums, M) + sums[y]
    <3>1. sums[y] \in Int /\ \A n \in M : sums[n] \in Int
      BY <1>b
    <3> QED
      BY <1>2, <2>10, <3>1, TotalAdd
  <2>12. Total(sums, M) \in Nat
    BY <2>10, TotalNat
  <2>13. Total(f, B \union C) <= Total(f, A) + Total(sums, M \union {y})
    BY ONLY <1>a, <1>b, <2>4, <2>7, <2>8, <2>9, <2>11, <2>12
  <2> QED
    BY <2>1, <2>6, <2>13
<1> HIDE DEF P
<1>3. N \in P
  BY <1>1, <1>2, SetInduction
<1>4. IsFiniteSet(All(N)) /\ Total(f, All(N)) <= Total(f, A) + Total(sums, N)
  BY <1>3 DEF P
<1>5. \A x \in All(N) : f[x] \in Nat
  BY <1>0
<1>6. S \in SUBSET All(N)
  OBVIOUS
<1> HIDE DEF All
<1>7. Total(f, S) \in Nat /\ Total(f, S) <= Total(f, All(N)) /\ Total(f, All(N)) \in Nat
  BY <1>4, <1>5, <1>6, TotalNat
<1>8. Total(sums, N) \in Nat
  BY <1>b, TotalNat
<1> QED
  BY <1>a, <1>4, <1>7, <1>8
-----------------------------------------------------------------------------
(* Sequences *)

\* Joined: the places of a concatenation.
LEMMA Joined ==
    ASSUME NEW S, NEW s \in Seq(S), NEW t \in Seq(S)
    PROVE  /\ s \o t \in Seq(S) /\ Len(s \o t) = Len(s) + Len(t)
           /\ \A k \in 1 .. Len(s) : (s \o t)[k] = s[k]
           /\ \A k \in 1 .. Len(t) : (s \o t)[Len(s) + k] = t[k]
OBVIOUS

\* JoinedTail: one more in front is what Tail takes away.
LEMMA JoinedTail ==
    ASSUME NEW S, NEW s \in Seq(S), NEW x \in S
    PROVE  Tail(<<x>> \o s) = s
<1> DEFINE t == <<x>> \o s
<1>1. t \in Seq(S) /\ Len(t) = 1 + Len(s) /\ \A k \in 1 .. Len(s) : t[1 + k] = s[k]
  OBVIOUS
<1> HIDE DEF t
<1>2. Tail(t) \in Seq(S) /\ Len(Tail(t)) = Len(s) /\ \A k \in 1 .. Len(s) : Tail(t)[k] = s[k]
  BY <1>1
<1>3. Tail(t) = s
  BY <1>2
<1> QED
  BY <1>3 DEF t

\* Pushed: what Append does to the elements of a sequence.
LEMMA Pushed ==
    ASSUME NEW X, NEW s \in Seq(X), NEW e \in X
    PROVE  /\ Append(s, e) \in Seq(X)
           /\ Range(Append(s, e)) = Range(s) \union {e}
           /\ IsInjective(s) /\ e \notin Range(s) => IsInjective(Append(s, e))
<1> DEFINE t == Append(s, e)
<1>1. /\ t \in Seq(X) /\ Len(s) \in Nat /\ DOMAIN s = 1 .. Len(s)
      /\ DOMAIN t = 1 .. Len(s) + 1
      /\ t[Len(s) + 1] = e /\ \A k \in 1 .. Len(s) : t[k] = s[k]
    OBVIOUS
<1> HIDE DEF t
<1>2. Range(t) = Range(s) \union {e}
  <2>1. 1 .. Len(s) + 1 = (1 .. Len(s)) \union {Len(s) + 1}
      BY <1>1
  <2>2. {t[k] : k \in 1 .. Len(s) + 1} = {t[k] : k \in 1 .. Len(s)} \union {e}
      BY <1>1, <2>1, Zenon
  <2>3. {t[k] : k \in 1 .. Len(s)} = {s[k] : k \in 1 .. Len(s)}
      BY <1>1, Zenon
  <2> QED
      BY <1>1, <2>2, <2>3, Zenon DEF Range
<1>3. ASSUME IsInjective(s), e \notin Range(s) PROVE IsInjective(t)
  <2>1. ASSUME NEW a \in DOMAIN t, NEW b \in DOMAIN t, t[a] = t[b] PROVE a = b
    <3>1. \A k \in 1 .. Len(s) : s[k] # e
        BY <1>1, <1>3 DEF Range
    <3>2. \A j \in 1 .. Len(s), k \in 1 .. Len(s) : s[j] = s[k] => j = k
        BY <1>1, <1>3 DEF IsInjective
    <3> QED
        BY <1>1, <2>1, <3>1, <3>2
  <2> QED
      BY <2>1 DEF IsInjective
<1> QED
    BY <1>1, <1>2, <1>3 DEF t

\* Flattens: f has, for each place of s, the concatenation of s up to that place.
Flattens(f, s) == f = [i \in 1 .. Len(s) |-> IF i = 1 THEN s[i] ELSE f[i - 1] \o s[i]]

\* FlattensExist: the recursion of FlattenSeq has a solution.
LEMMA FlattensExist ==
    ASSUME NEW S, NEW s \in Seq(Seq(S))
    PROVE  \E f \in [1 .. Len(s) -> Seq(S)] : Flattens(f, s)
<1> DEFINE Upto(n, f) == /\ f \in [1 .. n -> Seq(S)]
                         /\ f = [i \in 1 .. n |-> IF i = 1 THEN s[i] ELSE f[i - 1] \o s[i]]
           P == {n \in Nat : n <= Len(s) => \E f : Upto(n, f)}
<1>1. 0 \in P
  <2>1. Upto(0, [i \in 1 .. 0 |-> <<>>])
    OBVIOUS
  <2> HIDE DEF Upto
  <2> QED
    BY <2>1
<1>2. ASSUME NEW n \in Nat, n \in P PROVE n + 1 \in P
  <2> SUFFICES ASSUME n + 1 <= Len(s) PROVE \E f : Upto(n + 1, f)
    <3> HIDE DEF Upto
    <3> QED
      OBVIOUS
  <2>1. PICK g : Upto(n, g)
    <3> HIDE DEF Upto
    <3> QED
      BY <1>2
  <2> DEFINE f == [i \in 1 .. n + 1 |-> IF i = n + 1 THEN IF i = 1 THEN s[i] ELSE g[n] \o s[i]
                                        ELSE g[i]]
  <2>2. \A i \in 1 .. n + 1 : s[i] \in Seq(S)
    OBVIOUS
  <2>3. f \in [1 .. n + 1 -> Seq(S)]
    <3> SUFFICES ASSUME NEW i \in 1 .. n + 1 PROVE f[i] \in Seq(S)
      OBVIOUS
    <3>1. CASE i = n + 1 /\ i = 1
      BY <2>2, <3>1
    <3>2. CASE i = n + 1 /\ i # 1
      <4>1. g[n] \in Seq(S) /\ s[i] \in Seq(S)
        BY <2>1, <2>2, <3>2
      <4>2. g[n] \o s[i] \in Seq(S)
        BY <4>1
      <4> QED
        BY <3>2, <4>2
    <3>3. CASE i # n + 1
      BY <2>1, <3>3
    <3> QED
      BY <3>1, <3>2, <3>3
  <2>4. f = [i \in 1 .. n + 1 |-> IF i = 1 THEN s[i] ELSE f[i - 1] \o s[i]]
    <3> SUFFICES ASSUME NEW i \in 1 .. n + 1
                 PROVE  f[i] = IF i = 1 THEN s[i] ELSE f[i - 1] \o s[i]
      BY Zenon
    <3>1. CASE i = 1
      <4>1. n >= 1 => g[1] = s[1]
        BY <2>1
      <4> QED
        BY <3>1, <4>1
    <3>2. CASE i # 1 /\ i = n + 1
      <4>1. n \in 1 .. n + 1 /\ n # n + 1 /\ i - 1 = n
        BY <3>2
      <4>2. f[n] = g[n] /\ f[i] = g[n] \o s[i]
        BY <3>2, <4>1, Zenon
      <4> QED
        BY <3>2, <4>1, <4>2, Zenon
    <3>3. CASE i # 1 /\ i # n + 1
      <4>1. i \in 1 .. n /\ i - 1 \in 1 .. n
        BY <3>3
      <4>2. g[i] = g[i - 1] \o s[i]
        BY <2>1, <3>3, <4>1
      <4>3. f[i] = g[i] /\ f[i - 1] = g[i - 1]
        BY <3>3, <4>1
      <4> QED
        BY <3>3, <4>2, <4>3
    <3> QED
      BY <3>1, <3>2, <3>3
  <2>5. Upto(n + 1, f)
    BY <2>3, <2>4, Zenon
  <2> HIDE DEF Upto, f
  <2> QED
    BY <2>5
<1>3. \A n \in Nat : n \in P
  <2> HIDE DEF P
  <2> QED
    BY <1>1, <1>2, NumberInduction
<1>4. Len(s) \in P
  <2>1. Len(s) \in Nat
    OBVIOUS
  <2> HIDE DEF P
  <2> QED
    BY <1>3, <2>1
<1>5. PICK f : Upto(Len(s), f)
  <2> HIDE DEF Upto
  <2> QED
    BY <1>4
<1> QED
  BY <1>5 DEF Flattens

\* FlattenIs: FlattenSeq is the last value of the recursion.
LEMMA FlattenIs ==
    ASSUME NEW S, NEW s \in Seq(Seq(S))
    PROVE  /\ s = <<>> => FlattenSeq(s) = <<>>
           /\ s # <<>> => \E f \in [1 .. Len(s) -> Seq(S)] :
                            Flattens(f, s) /\ FlattenSeq(s) = f[Len(s)]
           /\ FlattenSeq(s) \in Seq(S)
<1> DEFINE flatten == CHOOSE f : f = [i \in 1 .. Len(s) |-> IF i = 1 THEN s[i]
                                                            ELSE f[i - 1] \o s[i]]
<1>1. s = <<>> => FlattenSeq(s) = <<>>
  BY DEF FlattenSeq
<1>2. s # <<>> => FlattenSeq(s) = flatten[Len(s)]
  <2>1. s # <<>> => Len(s) # 0
    OBVIOUS
  <2> QED
    BY <2>1 DEF FlattenSeq
<1>3. PICK g \in [1 .. Len(s) -> Seq(S)] : Flattens(g, s)
  BY FlattensExist
<1>4. Flattens(flatten, s)
  BY <1>3 DEF Flattens
<1> HIDE DEF flatten
<1>5. ASSUME NEW f, Flattens(f, s) PROVE f = g
  <2> DEFINE P == {n \in Nat : n \in 1 .. Len(s) => f[n] = g[n]}
  <2>1. 0 \in P
    OBVIOUS
  <2>2. ASSUME NEW n \in Nat, n \in P PROVE n + 1 \in P
    <3> SUFFICES ASSUME n + 1 \in 1 .. Len(s) PROVE f[n + 1] = g[n + 1]
      OBVIOUS
    <3>1. \A i \in 1 .. Len(s) : /\ f[i] = IF i = 1 THEN s[i] ELSE f[i - 1] \o s[i]
                                 /\ g[i] = IF i = 1 THEN s[i] ELSE g[i - 1] \o s[i]
      BY <1>3, <1>5, Zenon DEF Flattens
    <3>2. CASE n = 0
      <4>1. n + 1 = 1
        BY <3>2
      <4> QED
        BY <3>1, <4>1, Zenon
    <3>3. CASE n # 0
      <4>1. n \in 1 .. Len(s) /\ (n + 1) - 1 = n /\ n + 1 # 1
        BY <3>3
      <4>2. f[n] = g[n]
        BY <2>2, <4>1
      <4>3. f[n + 1] = f[(n + 1) - 1] \o s[n + 1] /\ g[n + 1] = g[(n + 1) - 1] \o s[n + 1]
        <5>1. n + 1 \in 1 .. Len(s) /\ n + 1 # 1
          BY <4>1
        <5> QED
          BY <3>1, <5>1, Zenon
      <4> QED
        BY <4>1, <4>2, <4>3, Zenon
    <3> QED
      BY <3>2, <3>3
  <2> HIDE DEF P
  <2>3. \A n \in Nat : n \in P
    BY <2>1, <2>2, NumberInduction
  <2>4. \A n \in 1 .. Len(s) : f[n] = g[n]
    BY <2>3 DEF P
  <2>5. f = [n \in 1 .. Len(s) |-> f[n]]
    BY <1>5, Zenon DEF Flattens
  <2>6. g = [n \in 1 .. Len(s) |-> g[n]]
    BY <1>3
  <2> QED
    BY <2>4, <2>5, <2>6
<1>6. flatten = g
  BY <1>4, <1>5
<1>7. s # <<>> => Len(s) \in 1 .. Len(s)
  OBVIOUS
<1>8. s # <<>> => FlattenSeq(s) \in Seq(S)
  BY <1>2, <1>6, <1>7
<1>9. <<>> \in Seq(S)
  OBVIOUS
<1> QED
  BY <1>1, <1>2, <1>3, <1>6, <1>8, <1>9

\* FlattenAppend: another sequence comes last in the concatenation.
LEMMA FlattenAppend ==
    ASSUME NEW S, NEW s \in Seq(Seq(S)), NEW x \in Seq(S)
    PROVE  FlattenSeq(Append(s, x)) = FlattenSeq(s) \o x
<1> DEFINE t == Append(s, x)
           n == Len(s)
<1>1. t \in Seq(Seq(S)) /\ Len(t) = n + 1 /\ t # <<>> /\ n \in Nat /\ t[n + 1] = x
      /\ \A i \in 1 .. n : t[i] = s[i]
  <2> DEFINE T == Seq(S)
  <2>1. s \in Seq(T) /\ x \in T
    OBVIOUS
  <2> HIDE DEF T
  <2>2. /\ t \in Seq(T) /\ Len(t) = n + 1 /\ t # <<>> /\ n \in Nat /\ t[n + 1] = x
        /\ \A i \in 1 .. n : t[i] = s[i]
    BY <2>1
  <2> QED
    BY <2>2 DEF T
<1> HIDE DEF t
<1>2. PICK g \in [1 .. n + 1 -> Seq(S)] : Flattens(g, t) /\ FlattenSeq(t) = g[n + 1]
  BY <1>1, FlattenIs
<1>3. \A i \in 1 .. n + 1 : g[i] = IF i = 1 THEN t[i] ELSE g[i - 1] \o t[i]
  BY <1>1, <1>2, Zenon DEF Flattens
<1>4. CASE s = <<>>
  <2>1. n = 0 /\ FlattenSeq(s) = <<>>
    BY <1>4, FlattenIs
  <2>2. g[1] = x
    BY <1>1, <1>3, <2>1
  <2>3. <<>> \o x = x
    OBVIOUS
  <2> QED
    BY <1>2, <2>1, <2>2, <2>3 DEF t
<1>5. CASE s # <<>>
  <2>1. PICK f \in [1 .. n -> Seq(S)] : Flattens(f, s) /\ FlattenSeq(s) = f[n]
    BY <1>5, FlattenIs
  <2>2. \A i \in 1 .. n : f[i] = IF i = 1 THEN s[i] ELSE f[i - 1] \o s[i]
    BY <2>1, Zenon DEF Flattens
  <2> DEFINE P == {k \in Nat : k \in 1 .. n => f[k] = g[k]}
  <2>3. 0 \in P
    OBVIOUS
  <2>4. ASSUME NEW k \in Nat, k \in P PROVE k + 1 \in P
    <3> SUFFICES ASSUME k + 1 \in 1 .. n PROVE f[k + 1] = g[k + 1]
      OBVIOUS
    <3>1. t[k + 1] = s[k + 1] /\ k + 1 \in 1 .. n + 1
      BY <1>1
    <3>2. CASE k = 0
      <4>1. k + 1 = 1
        BY <3>2
      <4> QED
        BY <1>3, <2>2, <3>1, <4>1, Zenon
    <3>3. CASE k # 0
      <4>1. k \in 1 .. n /\ (k + 1) - 1 = k /\ k + 1 # 1
        BY <1>1, <3>3
      <4>2. f[k] = g[k]
        BY <2>4, <4>1
      <4>3. f[k + 1] = f[(k + 1) - 1] \o s[k + 1] /\ g[k + 1] = g[(k + 1) - 1] \o t[k + 1]
        BY <1>3, <2>2, <3>1, <4>1, Zenon
      <4> QED
        BY <3>1, <4>1, <4>2, <4>3, Zenon
    <3> QED
      BY <3>2, <3>3
  <2> HIDE DEF P
  <2>5. \A k \in Nat : k \in P
    BY <2>3, <2>4, NumberInduction
  <2>6. n \in 1 .. n /\ n + 1 # 1 /\ (n + 1) - 1 = n /\ n + 1 \in 1 .. n + 1
    BY <1>5
  <2>7. f[n] = g[n]
    <3>1. n \in P
      BY <1>1, <2>5
    <3> QED
      BY <2>6, <3>1 DEF P
  <2>8. g[n + 1] = g[n] \o x
    BY <1>1, <1>3, <2>6
  <2> QED
    BY <1>2, <2>1, <2>7, <2>8 DEF t
<1> QED
  BY <1>4, <1>5

-----------------------------------------------------------------------------
(* Parts of sequences *)

\* Widened: a sequence of A is a sequence of any larger set.
LEMMA Widened == ASSUME NEW A, NEW s \in Seq(A), NEW T, A \subseteq T PROVE s \in Seq(T)
<1>1. s = [k \in 1 .. Len(s) |-> s[k]] /\ Len(s) \in Nat /\ \A k \in 1 .. Len(s) : s[k] \in A
  OBVIOUS
<1>2. \A k \in 1 .. Len(s) : s[k] \in T
  BY <1>1
<1> QED
  BY <1>1, <1>2

\* SubSeqIs: a part of a sequence, element by element.
LEMMA SubSeqIs ==
    ASSUME NEW S, NEW s \in Seq(S), NEW R, NEW r \in Seq(R), NEW a \in Nat \ {0},
           a + Len(r) - 1 <= Len(s), \A k \in 1 .. Len(r) : s[a + k - 1] = r[k]
    PROVE  SubSeq(s, a, a + Len(r) - 1) = r
<1>1. PICK n : n = Len(r) /\ n \in Nat /\ r = [k \in 1 .. n |-> r[k]]
  OBVIOUS
<1>2. SubSeq(s, a, a + n - 1) = [k \in 1 .. n |-> s[a + k - 1]]
  BY <1>1
<1>3. [k \in 1 .. n |-> s[a + k - 1]] = [k \in 1 .. n |-> r[k]]
  BY <1>1
<1> QED
  BY <1>1, <1>2, <1>3

\* PartElements: the elements of a part of a sequence.
LEMMA PartElements ==
    ASSUME NEW S, NEW q \in Seq(S), NEW from \in Nat, NEW e \in Nat, from + e <= Len(q)
    PROVE  \A j \in 1 .. e : SubSeq(q, from + 1, from + e)[j] = q[from + j]
<1>1. PICK y : y = SubSeq(q, from + 1, from + e)
  OBVIOUS
<1>2. PICK a, b : a = from + 1 /\ b = from + e /\ a \in Nat /\ b \in Nat
  OBVIOUS
<1>3. /\ Len(SubSeq(q, a, b)) = IF a <= b THEN (b - a) + 1 ELSE 0
      /\ \A j \in 1 .. (b - a) + 1 : SubSeq(q, a, b)[j] = q[a + j - 1]
  BY <1>2
<1>4. ASSUME NEW j \in 1 .. e PROVE y[j] = q[from + j]
  <2>1. j \in 1 .. (b - a) + 1 /\ a + j - 1 = from + j
    BY <1>2
  <2> QED
    BY <1>1, <1>2, <1>3, <2>1
<1> QED
  BY <1>1, <1>4

\* OptionalSeq: a sequence of sequences of at most one element each.
LEMMA OptionalSeq ==
    ASSUME NEW n \in Nat, NEW R, NEW s,
           \E P, x : s = [j \in 1 .. n |-> IF j \in P THEN <<x[j]>> ELSE <<>>]
                     /\ \A j \in 1 .. n : j \in P => x[j] \in R
    PROVE  s \in Seq(Seq(R)) /\ Len(s) = n
<1>1. PICK P, x : /\ s = [j \in 1 .. n |-> IF j \in P THEN <<x[j]>> ELSE <<>>]
                  /\ \A j \in 1 .. n : j \in P => x[j] \in R
  OBVIOUS
<1>2. PICK T : T = Seq(R)
  OBVIOUS
<1>3. ASSUME NEW j \in 1 .. n PROVE s[j] \in T
  <2>1. PICK y : y = x[j]
    OBVIOUS
  <2>2. s[j] = IF j \in P THEN <<y>> ELSE <<>>
    BY <1>1, <2>1
  <2>3. CASE j \in P
    <3>1. y \in R
      BY <1>1, <2>1, <2>3
    <3>2. <<y>> \in Seq(R)
      BY <3>1
    <3> QED
      BY <1>2, <2>2, <2>3, <3>2
  <2>4. CASE j \notin P
    <3>1. <<>> \in Seq(R)
      OBVIOUS
    <3> QED
      BY <1>2, <2>2, <2>4, <3>1
  <2> QED
    BY <2>3, <2>4
<1>4. s = [j \in 1 .. n |-> s[j]]
  BY <1>1
<1>5. s \in Seq(T) /\ Len(s) = n
  BY <1>3, <1>4
<1> QED
  BY <1>2, <1>5

-----------------------------------------------------------------------------
(* Sums over numbers, and where the parts of a concatenation are *)

\* TotalCounts: the sum of ones and zeros counts the ones.
LEMMA TotalCounts ==
    ASSUME NEW S, IsFiniteSet(S), NEW T, T \subseteq S, NEW f,
           \A x \in T : f[x] = 1, \A x \in S \ T : f[x] = 0
    PROVE  Total(f, S) = Cardinality(T)
<1>1. PICK U : U = S \ T
  OBVIOUS
<1>2. IsFiniteSet(T) /\ IsFiniteSet(U)
  BY <1>1, FS_Subset
<1>3. T \intersect U = {} /\ T \union U = S /\ \A x \in T \union U : f[x] \in Int
  BY <1>1
<1>4. Total(f, T \union U) = Total(f, T) + Total(f, U)
  BY ONLY <1>2, <1>3, TotalUnion
<1>5. PICK one, zero : one = 1 /\ zero = 0 /\ one \in Int /\ zero \in Int
  OBVIOUS
<1>6. \A x \in T : f[x] = one
  BY <1>5
<1>7. \A x \in U : f[x] = zero
  BY <1>1, <1>5
<1>8. Total(f, T) = Cardinality(T) * one
  BY ONLY <1>2, <1>5, <1>6, TotalConstant
<1>9. Total(f, U) = Cardinality(U) * zero
  BY ONLY <1>2, <1>5, <1>7, TotalConstant
<1>10. Cardinality(T) \in Nat /\ Cardinality(U) \in Nat
  BY <1>2, FS_CardinalityType
<1>11. Total(f, T) = Cardinality(T)
  <2>1. Total(f, T) = Cardinality(T) * 1
    BY ONLY <1>5, <1>8
  <2> QED
    BY <1>10, <2>1
<1>12. Total(f, U) = 0
  <2>1. Total(f, U) = Cardinality(U) * 0
    BY ONLY <1>5, <1>9
  <2> QED
    BY <1>10, <2>1
<1>13. Total(f, T \union U) = Cardinality(T)
  BY <1>4, <1>10, <1>11, <1>12
<1> QED
  BY <1>3, <1>13

\* TotalJoined: a sum over two stretches of numbers, one after the other.
LEMMA TotalJoined ==
    ASSUME NEW n \in Nat, NEW m \in Nat, NEW f, NEW g, NEW h,
           \A k \in 1 .. n : g[k] \in Int /\ f[k] = g[k],
           \A k \in 1 .. m : h[k] \in Int /\ f[n + k] = h[k]
    PROVE  Total(f, 1 .. n + m) = Total(g, 1 .. n) + Total(h, 1 .. m)
<1> DEFINE A == 1 .. n
           M == 1 .. m
           p == [k \in M |-> n + k]
           B == {p[k] : k \in M}
<1>1. IsFiniteSet(A) /\ IsFiniteSet(M)
  BY FS_Interval
<1>2. Total(f, A) = Total(g, A)
  BY <1>1, TotalSame
<1>3. IsFiniteSet(B) /\ Total(h, M) = Total(f, B)
  <2>1. \A i, j \in M : p[i] = p[j] => i = j
    OBVIOUS
  <2>2. \A i \in M : f[p[i]] \in Int /\ h[i] = f[p[i]]
    OBVIOUS
  <2>3. PICK S, q : S = M /\ q = p
    OBVIOUS
  <2>4. IsFiniteSet(S)
    BY <1>1, <2>3
  <2>5. \A i, j \in S : q[i] = q[j] => i = j
    BY <2>1, <2>3
  <2>6. \A i \in S : f[q[i]] \in Int /\ h[i] = f[q[i]]
    BY <2>2, <2>3
  <2>7. IsFiniteSet({q[i] : i \in S}) /\ Total(h, S) = Total(f, {q[i] : i \in S})
    BY ONLY <2>4, <2>5, <2>6, TotalMoved
  <2> QED
    BY <2>3, <2>7
<1>4. 1 .. n + m = A \union B /\ A \intersect B = {}
  <2>1. \A x \in 1 .. n + m : x \in A \/ (x - n \in M /\ x = p[x - n])
    OBVIOUS
  <2>2. \A k \in M : p[k] \in 1 .. n + m /\ p[k] \notin A
    OBVIOUS
  <2>3. A \subseteq 1 .. n + m
    OBVIOUS
  <2> HIDE DEF A, M, p
  <2> QED
    BY <2>1, <2>2, <2>3
<1>5. \A x \in A \union B : f[x] \in Int
  OBVIOUS
<1> HIDE DEF A, B, M
<1>6. Total(f, A \union B) = Total(f, A) + Total(f, B)
  BY <1>1, <1>3, <1>4, <1>5, TotalUnion
<1> QED
  BY <1>2, <1>3, <1>4, <1>6 DEF A, M

\* TotalUpto: the sum over one number more.
LEMMA TotalUpto ==
    ASSUME NEW n \in Nat, NEW f, \A k \in 1 .. n + 1 : f[k] \in Nat
    PROVE  /\ Total(f, 1 .. n) \in Nat
           /\ Total(f, 1 .. n + 1) = Total(f, 1 .. n) + f[n + 1]
<1>1. IsFiniteSet(1 .. n) /\ n + 1 \notin 1 .. n /\ 1 .. n + 1 = (1 .. n) \union {n + 1}
  BY FS_Interval
<1>2. PICK S : S = 1 .. n
  OBVIOUS
<1>3. PICK y : y = n + 1
  OBVIOUS
<1>4. IsFiniteSet(S) /\ y \notin S /\ f[y] \in Nat /\ \A x \in S : f[x] \in Nat
  BY <1>1, <1>2, <1>3
<1>5. Total(f, S) \in Nat
  BY <1>4, TotalNat
<1>6. Total(f, S \union {y}) = Total(f, S) + f[y]
  BY <1>4, TotalAdd
<1> QED
  BY <1>1, <1>2, <1>3, <1>5, <1>6

\* LaidOut: q is the concatenation of the first n of s, whose lengths are lens, and each
\* place of it is a place of one of these.
LaidOut(q, n, s, lens, S) ==
    /\ q \in Seq(S) /\ Len(q) = Total(lens, 1 .. n)
    /\ \A k \in 1 .. n : \A j \in 1 .. Len(s[k]) :
         /\ Total(lens, 1 .. k - 1) + j \in 1 .. Len(q)
         /\ q[Total(lens, 1 .. k - 1) + j] = s[k][j]
    /\ \A p \in 1 .. Len(q) : \E k \in 1 .. n : \E j \in 1 .. Len(s[k]) :
         p = Total(lens, 1 .. k - 1) + j

\* PlacedNext: one sequence more is in its place.
LEMMA PlacedNext ==
    ASSUME NEW S, NEW s \in Seq(Seq(S)), NEW lens, \A k \in 1 .. Len(s) : lens[k] = Len(s[k]),
           NEW n \in Nat, n + 1 <= Len(s), NEW q, LaidOut(q, n, s, lens, S)
    PROVE  LaidOut(q \o s[n + 1], n + 1, s, lens, S)
<1>1. PICK x : x = s[n + 1]
  OBVIOUS
<1>2. x \in Seq(S) /\ Len(x) \in Nat /\ \A k \in 1 .. Len(s) : s[k] \in Seq(S) /\ Len(s[k]) \in Nat
  <2>1. Len(s) \in Nat /\ \A k \in 1 .. Len(s) : s[k] \in Seq(S)
    OBVIOUS
  <2>2. n + 1 \in 1 .. Len(s)
    BY <2>1
  <2> QED
    BY <1>1, <2>1, <2>2
<1>3. \A k \in 1 .. n + 1 : k \in 1 .. Len(s) /\ lens[k] \in Nat
  <2>1. Len(s) \in Nat
    OBVIOUS
  <2> QED
    BY <1>2, <2>1
<1>4. /\ Total(lens, 1 .. n) \in Nat
      /\ Total(lens, 1 .. n + 1) = Total(lens, 1 .. n) + Len(x)
  <2>1. lens[n + 1] = Len(x)
    BY <1>1, <1>3
  <2> QED
    BY <1>3, <2>1, TotalUpto
<1>5. PICK a : a = Total(lens, 1 .. n)
  OBVIOUS
<1>6. PICK r : r = q \o x
  OBVIOUS
<1>7. q \in Seq(S) /\ Len(q) = a
  BY <1>5 DEF LaidOut
<1>8. /\ r \in Seq(S) /\ Len(r) = Len(q) + Len(x)
      /\ \A k \in 1 .. Len(q) : r[k] = q[k]
      /\ \A k \in 1 .. Len(x) : r[Len(q) + k] = x[k]
  <2>1. /\ q \o x \in Seq(S) /\ Len(q \o x) = Len(q) + Len(x)
        /\ \A k \in 1 .. Len(q) : (q \o x)[k] = q[k]
        /\ \A k \in 1 .. Len(x) : (q \o x)[Len(q) + k] = x[k]
    <3>1. q \in Seq(S) /\ x \in Seq(S)
      BY <1>2, <1>7
    <3> QED
      BY ONLY <3>1, Joined
  <2> QED
    BY <1>6, <2>1
<1>9. a \in Nat /\ Len(r) = a + Len(x) /\ Len(r) = Total(lens, 1 .. n + 1)
  BY <1>4, <1>5, <1>7, <1>8
<1>10. ASSUME NEW k \in 1 .. n + 1, NEW j \in 1 .. Len(s[k])
       PROVE  /\ Total(lens, 1 .. k - 1) + j \in 1 .. Len(r)
              /\ r[Total(lens, 1 .. k - 1) + j] = s[k][j]
  <2>1. CASE k = n + 1
    <3>1. k - 1 = n /\ s[k] = x /\ j \in 1 .. Len(x)
      BY <1>1, <2>1
    <3>2. Total(lens, 1 .. k - 1) = a
      BY <1>5, <3>1
    <3> QED
      BY <1>2, <1>7, <1>8, <1>9, <3>1, <3>2
  <2>2. CASE k # n + 1
    <3>1. k \in 1 .. n
      BY <2>2
    <3>2. PICK p : p = Total(lens, 1 .. k - 1) + j
      OBVIOUS
    <3>3. p \in 1 .. Len(q) /\ q[p] = s[k][j]
      BY <3>1, <3>2 DEF LaidOut
    <3>4. p \in 1 .. Len(r) /\ r[p] = s[k][j]
      BY <1>2, <1>7, <1>8, <1>9, <3>3
    <3> QED
      BY <3>2, <3>4
  <2> QED
    BY <2>1, <2>2
<1>11. ASSUME NEW p \in 1 .. Len(r)
       PROVE  \E k \in 1 .. n + 1 : \E j \in 1 .. Len(s[k]) : p = Total(lens, 1 .. k - 1) + j
  <2>1. CASE p <= a
    <3>1. p \in 1 .. Len(q)
      BY <1>7, <1>9, <2>1
    <3>2. PICK k \in 1 .. n : \E j \in 1 .. Len(s[k]) : p = Total(lens, 1 .. k - 1) + j
      BY <3>1 DEF LaidOut
    <3>3. k \in 1 .. n + 1
      OBVIOUS
    <3> QED
      BY <3>2, <3>3
  <2>2. CASE p > a
    <3>1. p - a \in 1 .. Len(x) /\ p = a + (p - a)
      BY <1>2, <1>9, <2>2
    <3>2. n + 1 \in 1 .. n + 1 /\ (n + 1) - 1 = n
      OBVIOUS
    <3>3. p - a \in 1 .. Len(s[n + 1]) /\ p = Total(lens, 1 .. (n + 1) - 1) + (p - a)
      BY <1>1, <1>5, <3>1, <3>2
    <3> QED
      BY <3>2, <3>3
  <2> QED
    BY <1>9, <2>1, <2>2
<1>12. LaidOut(r, n + 1, s, lens, S)
  BY <1>8, <1>9, <1>10, <1>11 DEF LaidOut
<1> QED
  BY <1>1, <1>6, <1>12

\* FlattenPlaces: where the elements of a concatenation come from.
LEMMA FlattenPlaces ==
    ASSUME NEW S, NEW s \in Seq(Seq(S)), NEW lens, \A k \in 1 .. Len(s) : lens[k] = Len(s[k])
    PROVE  LaidOut(FlattenSeq(s), Len(s), s, lens, S)
<1>1. PICK n : n = Len(s) /\ n \in Nat
  OBVIOUS
<1>2. LaidOut(<<>>, 0, s, lens, S)
  <2>1. 1 .. 0 = {} /\ <<>> \in Seq(S) /\ Len(<<>>) = 0
    OBVIOUS
  <2>2. Total(lens, {}) = 0
    BY TotalEmpty
  <2> QED
    BY <2>1, <2>2 DEF LaidOut
<1>3. CASE s = <<>>
  <2>1. FlattenSeq(s) = <<>> /\ Len(s) = 0
    BY <1>3, FlattenIs
  <2> QED
    BY <1>2, <2>1
<1>4. CASE s # <<>>
  <2>1. PICK f \in [1 .. n -> Seq(S)] : Flattens(f, s) /\ FlattenSeq(s) = f[n]
    BY <1>1, <1>4, FlattenIs
  <2>2. \A i \in 1 .. n : f[i] = IF i = 1 THEN s[i] ELSE f[i - 1] \o s[i]
    BY <1>1, <2>1, Zenon DEF Flattens
  <2> DEFINE P == {k \in Nat : k \in 1 .. n => LaidOut(f[k], k, s, lens, S)}
  <2>3. 0 \in P
    OBVIOUS
  <2>4. ASSUME NEW k \in Nat, k \in P PROVE k + 1 \in P
    <3> SUFFICES ASSUME k + 1 \in 1 .. n PROVE LaidOut(f[k + 1], k + 1, s, lens, S)
      OBVIOUS
    <3>1. k + 1 <= Len(s)
      BY <1>1
    <3>2. CASE k = 0
      <4>1. k + 1 = 1
        BY <3>2
      <4>2. f[k + 1] = s[k + 1]
        BY <2>2, <4>1, Zenon
      <4>3. s[k + 1] \in Seq(S)
        BY <1>1
      <4>4. <<>> \o s[k + 1] = s[k + 1]
        BY <4>3
      <4>5. LaidOut(<<>> \o s[k + 1], k + 1, s, lens, S)
        BY <1>2, <3>1, <3>2, PlacedNext
      <4> QED
        BY <4>2, <4>4, <4>5
    <3>3. CASE k # 0
      <4>1. k \in 1 .. n /\ (k + 1) - 1 = k /\ k + 1 # 1
        <5>1. k \in Nat /\ k + 1 \in 1 .. n /\ n \in Nat
          BY <1>1
        <5> QED
          BY ONLY <3>3, <5>1
      <4>2. LaidOut(f[k], k, s, lens, S)
        BY <2>4, <4>1
      <4>3. f[k + 1] = f[k] \o s[k + 1]
        BY <2>2, <4>1, Zenon
      <4>4. LaidOut(f[k] \o s[k + 1], k + 1, s, lens, S)
        BY <3>1, <4>2, PlacedNext
      <4> QED
        BY <4>3, <4>4
    <3> QED
      BY <3>2, <3>3
  <2> HIDE DEF P
  <2>5. \A k \in Nat : k \in P
    BY <2>3, <2>4, NumberInduction
  <2>6. n \in 1 .. n
    BY <1>1, <1>4
  <2>7. LaidOut(f[n], n, s, lens, S)
    BY <1>1, <2>5, <2>6 DEF P
  <2> QED
    BY <1>1, <2>1, <2>7
<1> QED
  BY <1>3, <1>4

\* PartIs: a part of a sequence is told by its elements.
LEMMA PartIs ==
    ASSUME NEW S, NEW q \in Seq(S), NEW x \in Seq(S), NEW from \in Nat, from + Len(x) <= Len(q),
           \A j \in 1 .. Len(x) : q[from + j] = x[j]
    PROVE  SubSeq(q, from + 1, from + Len(x)) = x
<1>1. PICK y : y = SubSeq(q, from + 1, from + Len(x))
  OBVIOUS
<1>2. y \in Seq(S) /\ Len(y) = Len(x) /\ \A j \in 1 .. Len(x) : y[j] = q[from + j]
  BY <1>1
<1>3. y = x
  BY <1>2
<1> QED
  BY <1>1, <1>3

\* FlattenPart: each sequence is found again in the concatenation.
LEMMA FlattenPart ==
    ASSUME NEW S, NEW s \in Seq(Seq(S)), NEW lens, \A k \in 1 .. Len(s) : lens[k] = Len(s[k]),
           NEW k \in 1 .. Len(s), NEW from, from = Total(lens, 1 .. k - 1)
    PROVE  /\ from \in Nat /\ from + Len(s[k]) <= Len(FlattenSeq(s))
           /\ SubSeq(FlattenSeq(s), from + 1, from + Len(s[k])) = s[k]
<1>1. PICK q : q = FlattenSeq(s)
  OBVIOUS
<1>2. LaidOut(q, Len(s), s, lens, S)
  BY <1>1, FlattenPlaces
<1>3. PICK x : x = s[k]
  OBVIOUS
<1>4. q \in Seq(S) /\ Len(q) \in Nat /\ x \in Seq(S) /\ Len(x) \in Nat
  BY <1>2, <1>3 DEF LaidOut
<1>5. from \in Nat /\ from + Len(x) <= Len(q)
  <2>1. \A j \in 1 .. Len(s) : lens[j] \in Nat
    OBVIOUS
  <2>2. IsFiniteSet(1 .. Len(s)) /\ IsFiniteSet(1 .. k) /\ 1 .. k \in SUBSET (1 .. Len(s))
    <3>1. Len(s) \in Nat
      OBVIOUS
    <3> QED
      BY <3>1, FS_Interval
  <2>3. Len(q) = Total(lens, 1 .. Len(s))
    BY <1>2 DEF LaidOut
  <2>4. Total(lens, 1 .. k) <= Total(lens, 1 .. Len(s))
    BY <2>1, <2>2, TotalNat
  <2>5. PICK m \in Nat : m = k - 1 /\ k = m + 1
    <3>1. k - 1 \in Nat /\ k = (k - 1) + 1
      OBVIOUS
    <3> QED
      BY <3>1
  <2>6. \A j \in 1 .. m + 1 : lens[j] \in Nat
    <3>1. Len(s) \in Nat
      OBVIOUS
    <3> QED
      BY <2>1, <2>5, <3>1
  <2>7. Total(lens, 1 .. m) \in Nat /\ Total(lens, 1 .. m + 1) = Total(lens, 1 .. m) + lens[m + 1]
    BY <2>6, TotalUpto
  <2>8. from = Total(lens, 1 .. m) /\ Total(lens, 1 .. k) = from + Len(x)
    BY <1>3, <2>5, <2>7
  <2> QED
    BY <1>4, <2>3, <2>4, <2>7, <2>8
<1>6. \A j \in 1 .. Len(x) : q[from + j] = x[j]
  BY <1>2, <1>3 DEF LaidOut
<1>7. SubSeq(q, from + 1, from + Len(x)) = x
  BY ONLY <1>4, <1>5, <1>6, PartIs
<1> QED
  BY <1>1, <1>3, <1>5, <1>7

\* FlattenElements: what is in a concatenation is in one of the sequences, and the reverse.
LEMMA FlattenElements ==
    ASSUME NEW S, NEW s \in Seq(Seq(S))
    PROVE  ToSet(FlattenSeq(s)) = UNION {ToSet(s[k]) : k \in 1 .. Len(s)}
<1> DEFINE lens == [k \in 1 .. Len(s) |-> Len(s[k])]
<1>1. \A k \in 1 .. Len(s) : lens[k] = Len(s[k])
  OBVIOUS
<1> HIDE DEF lens
<1>2. PICK q : q = FlattenSeq(s)
  OBVIOUS
<1>3. LaidOut(q, Len(s), s, lens, S)
  BY <1>1, <1>2, FlattenPlaces
<1>4. DOMAIN q = 1 .. Len(q) /\ \A k \in 1 .. Len(s) : DOMAIN s[k] = 1 .. Len(s[k])
  <2>1. q \in Seq(S) /\ \A k \in 1 .. Len(s) : s[k] \in Seq(S)
    BY <1>3 DEF LaidOut
  <2> QED
    BY <2>1
<1>5. ASSUME NEW k \in 1 .. Len(s), NEW e \in ToSet(s[k]) PROVE e \in ToSet(q)
  <2>1. PICK j \in 1 .. Len(s[k]) : e = s[k][j]
    BY <1>4 DEF ToSet
  <2>2. PICK p : p = Total(lens, 1 .. k - 1) + j
    OBVIOUS
  <2>3. p \in 1 .. Len(q) /\ q[p] = e
    BY <1>3, <2>1, <2>2 DEF LaidOut
  <2> QED
    BY <1>4, <2>3 DEF ToSet
<1>6. ASSUME NEW e \in ToSet(q) PROVE \E k \in 1 .. Len(s) : e \in ToSet(s[k])
  <2>1. PICK p \in 1 .. Len(q) : e = q[p]
    BY <1>4 DEF ToSet
  <2>2. PICK k \in 1 .. Len(s) : \E j \in 1 .. Len(s[k]) : p = Total(lens, 1 .. k - 1) + j
    BY <1>3 DEF LaidOut
  <2>3. PICK j \in 1 .. Len(s[k]) : p = Total(lens, 1 .. k - 1) + j
    BY <2>2
  <2>4. q[p] = s[k][j]
    BY <1>3, <2>3 DEF LaidOut
  <2>5. e \in ToSet(s[k])
    BY <1>4, <2>1, <2>4 DEF ToSet
  <2> QED
    BY <2>5
<1> QED
  BY <1>2, <1>5, <1>6

\* Maps: g makes each sequence of u from the one of s, element by element.
Maps(g, s, u) ==
    /\ Len(u) = Len(s)
    /\ \A k \in 1 .. Len(s) : /\ Len(u[k]) = Len(s[k])
                              /\ \A j \in 1 .. Len(s[k]) : u[k][j] = g[s[k][j]]

\* FlattenMap: what is made of each element of a concatenation is the concatenation of
\* what is made of the elements of each sequence.
LEMMA FlattenMap ==
    ASSUME NEW S, NEW s \in Seq(Seq(S)), NEW T, NEW u \in Seq(Seq(T)), NEW g, Maps(g, s, u)
    PROVE  [p \in DOMAIN FlattenSeq(s) |-> g[FlattenSeq(s)[p]]] = FlattenSeq(u)
<1> DEFINE lens == [k \in 1 .. Len(s) |-> Len(s[k])]
<1>0. /\ Len(u) = Len(s)
      /\ \A k \in 1 .. Len(s) : /\ Len(u[k]) = Len(s[k])
                                /\ \A j \in 1 .. Len(s[k]) : u[k][j] = g[s[k][j]]
  BY DEF Maps
<1>1. \A k \in 1 .. Len(s) : lens[k] = Len(s[k]) /\ lens[k] = Len(u[k])
  BY <1>0
<1> HIDE DEF lens
<1>2. PICK q, r : q = FlattenSeq(s) /\ r = FlattenSeq(u)
  OBVIOUS
<1>3. LaidOut(q, Len(s), s, lens, S)
  BY <1>1, <1>2, FlattenPlaces
<1>4. LaidOut(r, Len(s), u, lens, T)
  <2>1. \A k \in 1 .. Len(u) : lens[k] = Len(u[k])
    BY <1>0, <1>1
  <2> QED
    BY <1>0, <1>2, <2>1, FlattenPlaces
<1>5. q \in Seq(S) /\ r \in Seq(T) /\ Len(r) = Len(q)
  BY <1>3, <1>4 DEF LaidOut
<1>6. ASSUME NEW p \in 1 .. Len(q) PROVE r[p] = g[q[p]]
  <2>1. PICK k \in 1 .. Len(s) : \E j \in 1 .. Len(s[k]) : p = Total(lens, 1 .. k - 1) + j
    BY <1>3 DEF LaidOut
  <2>2. PICK j \in 1 .. Len(s[k]) : p = Total(lens, 1 .. k - 1) + j
    BY <2>1
  <2>3. q[p] = s[k][j]
    BY <1>3, <2>2 DEF LaidOut
  <2>4. j \in 1 .. Len(u[k])
    BY <1>0
  <2>5. r[p] = u[k][j]
    BY <1>4, <2>2, <2>4 DEF LaidOut
  <2> QED
    BY <1>0, <2>3, <2>5
<1>7. [p \in DOMAIN q |-> g[q[p]]] = r
  <2>1. DOMAIN q = 1 .. Len(q) /\ r = [p \in 1 .. Len(q) |-> r[p]]
    BY <1>5
  <2> QED
    BY <1>6, <2>1
<1> QED
  BY <1>2, <1>7

\* FlattenEmpty: nothing is concatenated to nothing.
LEMMA FlattenEmpty == ASSUME NEW s, s = <<>> PROVE FlattenSeq(s) = <<>>
<1>1. PICK S, lens : S = {} /\ lens = <<>>
  OBVIOUS
<1>2. s \in Seq(Seq(S)) /\ Len(s) = 0 /\ \A k \in 1 .. Len(s) : lens[k] = Len(s[k])
  OBVIOUS
<1>3. FlattenSeq(s) \in Seq(S)
  BY ONLY <1>2, FlattenIs
<1>4. LaidOut(FlattenSeq(s), Len(s), s, lens, S)
  BY ONLY <1>2, FlattenPlaces
<1>5. 1 .. Len(s) = {}
  BY <1>2
<1>6. Len(FlattenSeq(s)) = 0
  BY <1>4, <1>5, TotalEmpty DEF LaidOut
<1> QED
  BY <1>3, <1>6
=============================================================================
