---------------------------- MODULE Packing_proofs ----------------------------
(***************************************************************************)
(* What packing selects, and what the selected are charged, for any items. *)
(***************************************************************************)
EXTENDS Packing, Sums

\* TwoPower: powers of 2 double; a set of n elements has 2^n subsets.
LEMMA TwoPower ==
    ASSUME NEW n \in Nat
    PROVE  2^n \in Nat \ {0} /\ 2^(n + 1) = 2 * 2^n
<1> DEFINE A == 1 .. n
           B == 1 .. n + 1
           C == {s \union {n + 1} : s \in SUBSET A}
<1>1. IsFiniteSet(A) /\ Cardinality(A) = n /\ IsFiniteSet(B) /\ Cardinality(B) = n + 1
  BY FS_Interval
<1>2. IsFiniteSet(SUBSET A) /\ Cardinality(SUBSET A) = 2^n /\ Cardinality(SUBSET B) = 2^(n + 1)
  BY <1>1, FS_SUBSET
<1>3. SUBSET B = (SUBSET A) \union C
  <2>1. ASSUME NEW s \in SUBSET B, n + 1 \in s PROVE s \in C
    <3>1. s \ {n + 1} \in SUBSET A
      OBVIOUS
    <3>2. s = (s \ {n + 1}) \union {n + 1}
      BY <2>1
    <3> QED
      BY <3>1, <3>2
  <2>2. ASSUME NEW s \in SUBSET B, n + 1 \notin s PROVE s \in SUBSET A
    BY <2>2
  <2>3. \A s \in SUBSET A : s \in SUBSET B /\ s \union {n + 1} \in SUBSET B
    OBVIOUS
  <2>4. \A s \in C : s \in SUBSET B
    BY <2>3
  <2> HIDE DEF A, B, C
  <2> QED
    BY <2>1, <2>2, <2>3, <2>4
<1>4. (SUBSET A) \intersect C = {}
  OBVIOUS
<1>5. ExistsBijection(SUBSET A, C)
  <2> DEFINE h == [s \in SUBSET A |-> s \union {n + 1}]
  <2>1. h \in [SUBSET A -> C]
    OBVIOUS
  <2>2. ASSUME NEW s \in SUBSET A, NEW t \in SUBSET A, h[s] = h[t] PROVE s = t
    <3>1. s \union {n + 1} = t \union {n + 1}
      BY <2>2
    <3>2. n + 1 \notin s /\ n + 1 \notin t
      OBVIOUS
    <3> QED
      BY <3>1, <3>2
  <2>3. \A r \in C : \E s \in SUBSET A : h[s] = r
    OBVIOUS
  <2> HIDE DEF h
  <2>4. h \in Bijection(SUBSET A, C)
    BY <2>1, <2>2, <2>3 DEF Bijection, Injection, Surjection, IsInjective
  <2> QED
    BY <2>4 DEF ExistsBijection
<1>6. IsFiniteSet(C) /\ Cardinality(C) = 2^n
  BY <1>2, <1>5, FS_Bijection
<1> HIDE DEF C
<1>7. Cardinality((SUBSET A) \union C) = 2^n + 2^n - Cardinality({})
  BY <1>2, <1>4, <1>6, FS_Union
<1>8. 2^n \in Nat
  BY <1>2, FS_CardinalityType
<1>9. 2^n # 0
  <2>1. SUBSET A # {}
    OBVIOUS
  <2> QED
    BY <1>2, <2>1, FS_EmptySet
<1>10. Cardinality({}) = 0
  BY FS_EmptySet
<1>11. 2^(n + 1) = 2^n + 2^n - 0
  BY <1>2, <1>3, <1>7, <1>10, Zenon
<1> QED
  BY <1>8, <1>9, <1>11

-----------------------------------------------------------------------------
(* Lengths *)

\* The arguments, which no step changes
ArgsOK == items \in Seq([len : Nat, price : Nat]) /\ cost \in Nat \ {0}

LenOf == [i \in Indexes |-> items[i].len]

\* IndexesFinite: the types of the arguments.
LEMMA IndexesFinite ==
    ASSUME ArgsOK
    PROVE  /\ Len(items) \in Nat /\ Indexes = 1 .. Len(items) /\ IsFiniteSet(Indexes)
           /\ \A i \in Indexes : /\ items[i].len \in Nat /\ items[i].price \in Nat
                                 /\ LenOf[i] = items[i].len
<1>1. Len(items) \in Nat /\ Indexes = 1 .. Len(items)
  BY DEF ArgsOK, Indexes
<1>2. \A i \in Indexes : items[i].len \in Nat /\ items[i].price \in Nat
  <2> SUFFICES ASSUME NEW i \in Indexes PROVE items[i].len \in Nat /\ items[i].price \in Nat
    OBVIOUS
  <2> DEFINE Item == [len : Nat, price : Nat]
  <2>1. items \in Seq(Item)
    BY DEF ArgsOK
  <2> HIDE DEF Item
  <2>2. items[i] \in Item
    BY <1>1, <2>1
  <2> QED
    BY <2>2 DEF Item
<1> QED
  BY <1>1, <1>2, FS_Interval DEF LenOf

\* LenIs: the length of a combination is a sum.
LEMMA LenIs ==
    ASSUME ArgsOK, NEW c \in SUBSET Indexes
    PROVE  TotalLen(c) = Total(LenOf, c) /\ IsFiniteSet(c)
<1> DEFINE iter == CHOOSE h : h = [s \in SUBSET c |->
                     IF s = {} THEN 0
                     ELSE items[CHOOSE x \in s : TRUE].len + h[s \ {CHOOSE x \in s : TRUE}]]
<1>1. TotalLen(c) = iter[c]
  BY DEF TotalLen, MapThenSumSet, MapThenFoldSet
<1>2. IsFiniteSet(c)
  BY IndexesFinite, FS_Subset
<1>3. PICK sum : Sums(sum, LenOf, c)
  BY <1>2, SumsExist
<1>4. ASSUME NEW s \in SUBSET c, s # {}
      PROVE  LenOf[Chosen(s)] = items[Chosen(s)].len
  BY <1>4, AnyIn, IndexesFinite
<1>5. sum = [s \in SUBSET c |-> IF s = {} THEN 0 ELSE items[Chosen(s)].len + sum[s \ {Chosen(s)}]]
  BY <1>3, <1>4 DEF Sums
<1>6. iter = [s \in SUBSET c |-> IF s = {} THEN 0 ELSE items[Chosen(s)].len + iter[s \ {Chosen(s)}]]
  BY <1>5 DEF Chosen
<1> HIDE DEF iter
<1>7. Sums(iter, LenOf, c)
  BY <1>4, <1>6 DEF Sums
<1> QED
  BY <1>1, <1>2, <1>7, TotalIs

\* LenType: a combination is not shorter than its parts.
LEMMA LenType ==
    ASSUME ArgsOK, NEW c \in SUBSET Indexes
    PROVE  /\ TotalLen(c) \in Nat
           /\ \A d \in SUBSET c : TotalLen(d) \in Nat /\ TotalLen(d) <= TotalLen(c)
<1>1. \A d \in SUBSET c : TotalLen(d) = Total(LenOf, d)
  BY LenIs
<1>2. IsFiniteSet(c) /\ \A i \in c : LenOf[i] \in Nat
  BY LenIs, IndexesFinite
<1>3. /\ Total(LenOf, c) \in Nat
      /\ \A d \in SUBSET c : Total(LenOf, d) \in Nat /\ Total(LenOf, d) <= Total(LenOf, c)
  BY <1>2, TotalNat
<1>4. TotalLen(c) = Total(LenOf, c)
  BY LenIs
<1> QED
  BY <1>1, <1>3, <1>4

\* LenEmpty: no items have no length.
LEMMA LenEmpty == ASSUME ArgsOK PROVE TotalLen({}) = 0
BY LenIs, TotalEmpty

\* LenAdd: an item adds its length.
LEMMA LenAdd ==
    ASSUME ArgsOK, NEW c \in SUBSET Indexes, NEW i \in Indexes, i \notin c
    PROVE  TotalLen(c \union {i}) = TotalLen(c) + items[i].len
<1>1. IsFiniteSet(c) /\ (\A x \in c : LenOf[x] \in Int) /\ LenOf[i] \in Int /\ LenOf[i] = items[i].len
  BY LenIs, IndexesFinite
<1>2. Total(LenOf, c \union {i}) = Total(LenOf, c) + LenOf[i]
  BY <1>1, TotalAdd
<1>3. TotalLen(c) = Total(LenOf, c) /\ TotalLen(c \union {i}) = Total(LenOf, c \union {i})
  BY LenIs
<1> QED
  BY <1>1, <1>2, <1>3

\* LowestIs: the lowest price of a combination is that of one of its items.
LEMMA LowestIs ==
    ASSUME ArgsOK, NEW c \in SUBSET Indexes, c # {}
    PROVE  /\ LowestPrice(c) \in Nat
           /\ \A i \in c : LowestPrice(c) <= items[i].price
           /\ \E i \in c : LowestPrice(c) = items[i].price
<1> DEFINE prices == {items[i].price : i \in c}
<1>1. prices \subseteq Nat /\ prices # {}
  BY IndexesFinite
<1>2. LowestPrice(c) \in prices /\ \A p \in prices : LowestPrice(c) <= p
  <2> HIDE DEF prices
  <2>1. \E p \in prices : \A q \in prices : p <= q
    BY <1>1, LeastNumber
  <2>2. LowestPrice(c) = CHOOSE p \in prices : \A q \in prices : p <= q
    BY DEF LowestPrice, Min, prices
  <2> QED
    BY <2>1, <2>2
<1> QED
  BY <1>1, <1>2

-----------------------------------------------------------------------------
(* Masks *)

\* A quotient is found by any division with a remainder.
LEMMA DivIs ==
    ASSUME NEW x \in Nat, NEW d \in Nat \ {0}, NEW q \in Nat, NEW r \in Nat, r < d, x = d * q + r
    PROVE  x \div d = q
OBVIOUS

\* DivPlus: a multiple of the divisor adds to the quotient only.
LEMMA DivPlus ==
    ASSUME NEW x \in Nat, NEW d \in Nat \ {0}, NEW k \in Nat
    PROVE  (x + d * k) \div d = x \div d + k
<1> DEFINE q == x \div d
           r == x % d
<1>1. q \in Nat /\ r \in Nat /\ r < d /\ x = d * q + r
  OBVIOUS
<1> HIDE DEF q, r
<1>2. d * (q + k) = d * q + d * k /\ d * k \in Nat
  BY <1>1
<1>3. x + d * k = d * (q + k) + r /\ x + d * k \in Nat /\ q + k \in Nat
  BY <1>1, <1>2
<1>4. (x + d * k) \div d = q + k
  BY <1>1, <1>3, DivIs
<1> QED
  BY <1>4 DEF q

\* PowerMultiple: a power of 2 is an even multiple of each lower one.
LEMMA PowerMultiple ==
    ASSUME NEW i \in Nat \ {0}, NEW n \in Nat, i <= n
    PROVE  \E k \in Nat : 2^n = 2^(i - 1) * (2 * k)
<1> DEFINE P == {m \in Nat : \E k \in Nat : 2^(i + m) = 2^(i - 1) * (2 * k)}
<1>1. 0 \in P
  <2>1. 2^(i - 1) \in Nat /\ 2^((i - 1) + 1) = 2 * 2^(i - 1)
    BY TwoPower
  <2>2. (i - 1) + 1 = i + 0
    OBVIOUS
  <2>3. 2^(i + 0) = 2 * 2^(i - 1)
    BY <2>1, <2>2
  <2>4. 2^(i + 0) = 2^(i - 1) * (2 * 1)
    BY <2>1, <2>3
  <2> QED
    BY <2>4
<1>2. ASSUME NEW m \in Nat, m \in P PROVE m + 1 \in P
  <2>1. PICK k \in Nat : 2^(i + m) = 2^(i - 1) * (2 * k)
    BY <1>2
  <2>2. 2^((i + m) + 1) = 2 * 2^(i + m) /\ 2^(i - 1) \in Nat
    BY TwoPower
  <2>3. i + (m + 1) = (i + m) + 1
    OBVIOUS
  <2>4. 2 * (2^(i - 1) * (2 * k)) = 2^(i - 1) * (2 * (2 * k))
    BY <2>2
  <2>5. 2^(i + (m + 1)) = 2^(i - 1) * (2 * (2 * k)) /\ 2 * k \in Nat
    BY <2>1, <2>2, <2>3, <2>4
  <2>6. \E j \in Nat : 2^(i + (m + 1)) = 2^(i - 1) * (2 * j)
    BY <2>5, Zenon
  <2> QED
    BY <2>6
<1> HIDE DEF P
<1>3. n - i \in P
  BY <1>1, <1>2, NumberInduction
<1>4. i + (n - i) = n
  OBVIOUS
<1> QED
  BY <1>3, <1>4 DEF P

PowerOf == [i \in Indexes |-> 2^(i - 1)]

\* PowerType: the bit of an item is a positive number.
LEMMA PowerType ==
    ASSUME ArgsOK
    PROVE  \A i \in Indexes : PowerOf[i] = 2^(i - 1) /\ 2^(i - 1) \in Nat \ {0}
<1> SUFFICES ASSUME NEW i \in Indexes PROVE 2^(i - 1) \in Nat \ {0}
  BY DEF PowerOf
<1>1. i - 1 \in Nat
  BY IndexesFinite
<1> QED
  BY <1>1, TwoPower

\* MaskIs: the mask of a combination is a sum.
LEMMA MaskIs ==
    ASSUME ArgsOK, NEW c \in SUBSET Indexes
    PROVE  MaskOf(c) = Total(PowerOf, c)
<1> DEFINE iter == CHOOSE h : h = [s \in SUBSET c |->
                     IF s = {} THEN 0
                     ELSE 2^((CHOOSE x \in s : TRUE) - 1) + h[s \ {CHOOSE x \in s : TRUE}]]
<1>1. MaskOf(c) = iter[c]
  BY DEF MaskOf, MapThenSumSet, MapThenFoldSet
<1>2. IsFiniteSet(c)
  BY IndexesFinite, FS_Subset
<1>3. PICK sum : Sums(sum, PowerOf, c)
  BY <1>2, SumsExist
<1>4. ASSUME NEW s \in SUBSET c, s # {}
      PROVE  PowerOf[Chosen(s)] = 2^(Chosen(s) - 1)
  BY <1>4, AnyIn, PowerType
<1>5. sum = [s \in SUBSET c |-> IF s = {} THEN 0 ELSE 2^(Chosen(s) - 1) + sum[s \ {Chosen(s)}]]
  BY <1>3, <1>4 DEF Sums
<1>6. iter = [s \in SUBSET c |-> IF s = {} THEN 0 ELSE 2^(Chosen(s) - 1) + iter[s \ {Chosen(s)}]]
  BY <1>5 DEF Chosen
<1> HIDE DEF iter
<1>7. Sums(iter, PowerOf, c)
  BY <1>4, <1>6 DEF Sums
<1> QED
  BY <1>1, <1>2, <1>7, TotalIs

\* BitsOf: a mask has one bit for each item of its combination.
LEMMA BitsOf ==
    ASSUME ArgsOK, NEW n \in Nat, n <= Len(items), NEW c \in SUBSET (1 .. n)
    PROVE  /\ Total(PowerOf, c) \in Nat /\ Total(PowerOf, c) < 2^n
           /\ \A i \in 1 .. n : (Total(PowerOf, c) \div 2^(i - 1)) % 2 = 1 <=> i \in c
<1> DEFINE Bits(d, k) ==
             /\ Total(PowerOf, d) \in Nat /\ Total(PowerOf, d) < 2^k
             /\ \A i \in 1 .. k : (Total(PowerOf, d) \div 2^(i - 1)) % 2 = 1 <=> i \in d
           P == {k \in Nat : k <= Len(items) => \A d \in SUBSET (1 .. k) : Bits(d, k)}
<1>1. 0 \in P
  <2> SUFFICES ASSUME NEW d \in SUBSET (1 .. 0) PROVE Bits(d, 0)
    OBVIOUS
  <2>1. d = {} /\ Total(PowerOf, {}) = 0
    BY TotalEmpty
  <2>2. 2^0 \in Nat \ {0}
    BY TwoPower
  <2> QED
    BY <2>1, <2>2
<1>2. ASSUME NEW k \in Nat, k \in P PROVE k + 1 \in P
  <2> SUFFICES ASSUME k + 1 <= Len(items), NEW d \in SUBSET (1 .. k + 1) PROVE Bits(d, k + 1)
    OBVIOUS
  <2> DEFINE e == d \ {k + 1}
             t == Total(PowerOf, e)
  <2>1. e \in SUBSET (1 .. k) /\ k + 1 \notin e
    OBVIOUS
  <2>2. Bits(e, k)
    BY <1>2, <2>1, IndexesFinite
  <2>3. t \in Nat /\ t < 2^k /\ \A i \in 1 .. k : (t \div 2^(i - 1)) % 2 = 1 <=> i \in e
    BY <2>2
  <2>4. 2^k \in Nat \ {0} /\ 2^(k + 1) = 2 * 2^k
    BY TwoPower
  <2>5. (k + 1) - 1 = k
    OBVIOUS
  <2> HIDE DEF t
  <2>6. CASE k + 1 \notin d
    <3>1. d = e /\ Total(PowerOf, d) = t
      BY <2>6 DEF t
    <3>2. t \div 2^k = 0
      BY <2>3, <2>4, DivIs
    <3>3. ASSUME NEW i \in 1 .. k + 1 PROVE (t \div 2^(i - 1)) % 2 = 1 <=> i \in d
      <4>1. CASE i = k + 1
        BY <2>5, <2>6, <3>2, <4>1
      <4>2. CASE i # k + 1
        <5>1. i \in 1 .. k
          BY <4>2
        <5> QED
          BY <2>3, <3>1, <5>1
      <4> QED
        BY <4>1, <4>2
    <3>4. t < 2^(k + 1)
      BY <2>3, <2>4
    <3> QED
      BY <2>3, <3>1, <3>3, <3>4
  <2>7. CASE k + 1 \in d
    <3>1. d = e \union {k + 1} /\ k + 1 \in Indexes /\ e \in SUBSET Indexes /\ IsFiniteSet(e)
      <4>1. Indexes = 1 .. Len(items) /\ Len(items) \in Nat /\ IsFiniteSet(Indexes)
        BY IndexesFinite
      <4>2. d = e \union {k + 1}
        BY <2>7
      <4>3. k + 1 \in Indexes /\ e \in SUBSET Indexes
        BY <2>1, <4>1
      <4> QED
        BY <4>1, <4>2, <4>3, FS_Subset
    <3>2. PowerOf[k + 1] = 2^k /\ \A x \in e : PowerOf[x] \in Int
      BY <2>5, <3>1, PowerType
    <3>3. Total(PowerOf, e \union {k + 1}) = t + PowerOf[k + 1]
      <4> HIDE DEF e
      <4>1. PowerOf[k + 1] \in Int
        BY <2>4, <3>2
      <4>2. t = Total(PowerOf, e)
        BY DEF t
      <4>3. k + 1 \notin e /\ IsFiniteSet(e) /\ \A x \in e : PowerOf[x] \in Int
        BY <2>1, <3>1, <3>2
      <4>4. Total(PowerOf, e \union {k + 1}) = Total(PowerOf, e) + PowerOf[k + 1]
        BY <4>1, <4>3, TotalAdd
      <4> QED
        BY <4>2, <4>4
    <3>4. Total(PowerOf, d) = t + 2^k
      BY <3>1, <3>2, <3>3
    <3>5. t + 2^k \in Nat /\ t + 2^k < 2^(k + 1)
      BY <2>3, <2>4
    <3>6. ASSUME NEW i \in 1 .. k + 1 PROVE ((t + 2^k) \div 2^(i - 1)) % 2 = 1 <=> i \in d
      <4>1. CASE i = k + 1
        <5>1. (t + 2^k) \div 2^k = 1
          <6>1. t + 2^k = 2^k * 1 + t
            BY <2>3, <2>4
          <6> QED
            BY <2>3, <2>4, <3>5, <6>1, DivIs
        <5> QED
          BY <2>5, <2>7, <4>1, <5>1
      <4>2. CASE i # k + 1
        <5>1. i \in 1 .. k
          BY <4>2
        <5>2. PICK j \in Nat : 2^k = 2^(i - 1) * (2 * j)
          <6>1. i \in Nat \ {0} /\ i <= k
            BY <5>1
          <6> QED
            BY <6>1, PowerMultiple
        <5>3. 2^(i - 1) \in Nat \ {0} /\ 2 * j \in Nat
          BY <5>1, TwoPower
        <5>4. (t + 2^(i - 1) * (2 * j)) \div 2^(i - 1) = t \div 2^(i - 1) + 2 * j
          BY <2>3, <5>3, DivPlus
        <5>5. t \div 2^(i - 1) \in Nat
          BY <2>3, <5>3
        <5>6. (t \div 2^(i - 1) + 2 * j) % 2 = (t \div 2^(i - 1)) % 2
          BY <5>5
        <5>7. ((t + 2^k) \div 2^(i - 1)) % 2 = (t \div 2^(i - 1)) % 2
          BY <5>2, <5>4, <5>6
        <5> QED
          BY <2>3, <4>2, <5>1, <5>7
      <4> QED
        BY <4>1, <4>2
    <3> QED
      BY <3>4, <3>5, <3>6
  <2> QED
    BY <2>6, <2>7
<1> HIDE DEF P
<1>3. n \in P
  BY <1>1, <1>2, NumberInduction
<1> QED
  BY <1>3 DEF P

\* Masked: each combination is that of its mask, and brute force gets to it.
LEMMA Masked ==
    ASSUME ArgsOK, NEW c \in SUBSET Indexes
    PROVE  /\ MaskOf(c) \in Nat /\ MaskOf(c) < 2^Len(items)
           /\ Combination(MaskOf(c)) = c
<1>1. c \in SUBSET (1 .. Len(items)) /\ Len(items) \in Nat /\ Indexes = 1 .. Len(items)
  BY IndexesFinite
<1>2. MaskOf(c) = Total(PowerOf, c)
  BY MaskIs
<1>3. /\ MaskOf(c) \in Nat /\ MaskOf(c) < 2^Len(items)
      /\ \A i \in 1 .. Len(items) : (MaskOf(c) \div 2^(i - 1)) % 2 = 1 <=> i \in c
  BY <1>1, <1>2, BitsOf
<1> QED
  BY <1>1, <1>3 DEF Combination

\* MaskAdd: an item adds its bit, which is above all those of the items before it.
LEMMA MaskAdd ==
    ASSUME ArgsOK, NEW n \in Nat, n < Len(items), NEW c \in SUBSET (1 .. n)
    PROVE  /\ MaskOf(c) \in Nat /\ 2^n \in Nat /\ MaskOf(c) < 2^n
           /\ MaskOf(c \union {n + 1}) = MaskOf(c) + 2^n
<1>1. c \in SUBSET Indexes /\ n + 1 \in Indexes /\ n + 1 \notin c /\ c \union {n + 1} \in SUBSET Indexes
  BY IndexesFinite
<1>2. MaskOf(c) = Total(PowerOf, c) /\ MaskOf(c \union {n + 1}) = Total(PowerOf, c \union {n + 1})
  BY <1>1, MaskIs
<1>3. MaskOf(c) \in Nat /\ MaskOf(c) < 2^n
  BY <1>2, BitsOf, IndexesFinite
<1>4. 2^n \in Nat /\ (n + 1) - 1 = n
  BY TwoPower
<1>5. IsFiniteSet(c) /\ (\A x \in c : PowerOf[x] \in Int) /\ PowerOf[n + 1] = 2^n
  <2>1. IsFiniteSet(c)
    BY <1>1, IndexesFinite, FS_Subset
  <2>2. PowerOf[n + 1] = 2^((n + 1) - 1) /\ \A x \in c : PowerOf[x] \in Nat \ {0}
    BY <1>1, PowerType
  <2> QED
    BY <1>4, <2>1, <2>2
<1>6. PowerOf[n + 1] \in Int
  BY <1>4, <1>5
<1>7. Total(PowerOf, c \union {n + 1}) = Total(PowerOf, c) + PowerOf[n + 1]
  <2> DEFINE y == n + 1
  <2>1. y \notin c /\ IsFiniteSet(c) /\ \A x \in c : PowerOf[x] \in Int
    BY <1>1, <1>5
  <2>2. PowerOf[y] \in Int
    BY <1>6
  <2> HIDE DEF y
  <2>3. Total(PowerOf, c \union {y}) = Total(PowerOf, c) + PowerOf[y]
    BY <2>1, <2>2, TotalAdd
  <2> QED
    BY <2>3 DEF y
<1> QED
  BY <1>2, <1>3, <1>4, <1>5, <1>7

-----------------------------------------------------------------------------
(* Charges *)

\* Share: the charge of an item is its share of the whole blob, rounded down.
LEMMA Share ==
    ASSUME PackingAssumption, ArgsOK, NEW c \in SUBSET Indexes, Viable(c), NEW i \in c
    PROVE  /\ AttributableUnused(i, c) \in Nat
           /\ TotalLen(c) * AttributableUnused(i, c) <= (BlobLen - TotalLen(c)) * items[i].len
           /\ (BlobLen - TotalLen(c)) * items[i].len
                <= TotalLen(c) * AttributableUnused(i, c) + (TotalLen(c) - 1)
<1>1. TotalLen(c) \in Nat \ {0} /\ BlobLen - TotalLen(c) \in Nat
  BY DEF Viable, PackingAssumption
<1>2. items[i].len \in Nat
  BY IndexesFinite
<1> DEFINE x == (BlobLen - TotalLen(c)) * items[i].len
           q == x \div TotalLen(c)
           r == x % TotalLen(c)
<1>3. x \in Nat
  BY <1>1, <1>2
<1> HIDE DEF x
<1>4. q \in Nat /\ r \in Nat /\ r < TotalLen(c) /\ x = TotalLen(c) * q + r
  BY <1>1, <1>3
<1>5. AttributableUnused(i, c) = q
  BY DEF AttributableUnused, x
<1> HIDE DEF q, r
<1>6. TotalLen(c) * q \in Nat
  BY <1>1, <1>4
<1>7. TotalLen(c) * q <= x /\ x <= TotalLen(c) * q + (TotalLen(c) - 1)
  BY <1>1, <1>3, <1>4, <1>6
<1> QED
  BY <1>4, <1>5, <1>7 DEF x

\* The charges of combination c
CostOf(c) == [i \in Indexes |-> BlobDataCost(i, c)]

\* The charges of a combination add up to a sum.
LEMMA PaidIs ==
    ASSUME ArgsOK, NEW c \in SUBSET Indexes
    PROVE  MapThenSumSet(LAMBDA i : BlobDataCost(i, c), c) = Total(CostOf(c), c)
<1> DEFINE iter == CHOOSE h : h = [s \in SUBSET c |->
                     IF s = {} THEN 0
                     ELSE BlobDataCost(CHOOSE x \in s : TRUE, c) + h[s \ {CHOOSE x \in s : TRUE}]]
<1>1. MapThenSumSet(LAMBDA i : BlobDataCost(i, c), c) = iter[c]
  BY DEF MapThenSumSet, MapThenFoldSet
<1>2. IsFiniteSet(c)
  BY IndexesFinite, FS_Subset
<1>3. PICK sum : Sums(sum, CostOf(c), c)
  BY <1>2, SumsExist
<1>4. ASSUME NEW s \in SUBSET c, s # {}
      PROVE  CostOf(c)[Chosen(s)] = BlobDataCost(Chosen(s), c)
  BY <1>4, AnyIn DEF CostOf
<1>5. sum = [s \in SUBSET c |-> IF s = {} THEN 0
                                ELSE BlobDataCost(Chosen(s), c) + sum[s \ {Chosen(s)}]]
  BY <1>3, <1>4 DEF Sums
<1>6. iter = [s \in SUBSET c |-> IF s = {} THEN 0
                                 ELSE BlobDataCost(Chosen(s), c) + iter[s \ {Chosen(s)}]]
  BY <1>5 DEF Chosen
<1> HIDE DEF iter
<1>7. Sums(iter, CostOf(c), c)
  BY <1>4, <1>6 DEF Sums
<1> QED
  BY <1>1, <1>2, <1>7, TotalIs

\* ViablePays: the charges of a viable combination add up to the price of the blob, less
\* a unit at most for each item.
LEMMA ViablePays ==
    ASSUME PackingAssumption, ArgsOK, NEW c \in SUBSET Indexes, Viable(c)
    PROVE  /\ Total(CostOf(c), c) <= BlobLen * cost
           /\ Total(CostOf(c), c) > (BlobLen - Cardinality(c)) * cost
<1> DEFINE T == TotalLen(c)
           U == BlobLen - TotalLen(c)
           N == Cardinality(c)
           unused == [i \in c |-> AttributableUnused(i, c)]
           lens == [i \in c |-> items[i].len]
           both == [i \in c |-> unused[i] + lens[i]]
           low == [i \in c |-> T * unused[i]]
           exact == [i \in c |-> U * lens[i]]
           high == [i \in c |-> low[i] + (T - 1)]
           last == [i \in c |-> T - 1]
           Q == Total(unused, c)
<1>1. T \in Nat \ {0} /\ U \in Nat /\ cost \in Nat \ {0} /\ BlobLen \in Nat /\ BlobLen = U + T
  BY DEF Viable, PackingAssumption, ArgsOK
<1>2. IsFiniteSet(c) /\ N \in Nat /\ N # 0
  <2>1. IsFiniteSet(c)
    BY LenIs
  <2>2. c # {}
    BY <1>1, LenEmpty
  <2> QED
    BY <2>1, <2>2, FS_EmptySet, FS_CardinalityType
<1>3. \A i \in c : /\ unused[i] \in Nat /\ lens[i] \in Nat
                   /\ T * unused[i] <= U * lens[i] /\ U * lens[i] <= T * unused[i] + (T - 1)
  BY Share, IndexesFinite
<1> HIDE DEF T, U, N
<1>4. Total(lens, c) = T
  <2>1. \A i \in c : lens[i] = LenOf[i]
    BY IndexesFinite
  <2>2. Total(lens, c) = Total(LenOf, c)
    BY <1>2, <2>1, TotalSame
  <2> QED
    BY <2>2, LenIs DEF T
<1>5. \A i \in c : CostOf(c)[i] = cost * both[i]
  <2> SUFFICES ASSUME NEW i \in c PROVE CostOf(c)[i] = cost * both[i]
    OBVIOUS
  <2>1. CostOf(c)[i] = (unused[i] + lens[i]) * cost
    BY DEF CostOf, BlobDataCost
  <2>2. unused[i] \in Nat /\ lens[i] \in Nat /\ both[i] = unused[i] + lens[i]
    BY <1>3
  <2> HIDE DEF unused, lens, both
  <2> QED
    BY <1>1, <2>1, <2>2
<1>6. \A i \in c : /\ both[i] \in Int /\ low[i] \in Int /\ exact[i] \in Int /\ high[i] \in Int
                   /\ last[i] \in Int
                   /\ both[i] = unused[i] + lens[i] /\ low[i] = T * unused[i]
                   /\ exact[i] = U * lens[i] /\ high[i] = low[i] + last[i] /\ last[i] = T - 1
                   /\ low[i] <= exact[i] /\ exact[i] <= high[i]
  <2> SUFFICES ASSUME NEW i \in c
               PROVE /\ unused[i] + lens[i] \in Int /\ T * unused[i] \in Int /\ U * lens[i] \in Int
                     /\ T * unused[i] + (T - 1) \in Int /\ T - 1 \in Int
                     /\ T * unused[i] <= U * lens[i] /\ U * lens[i] <= T * unused[i] + (T - 1)
    BY Zenon
  <2>1. unused[i] \in Nat /\ lens[i] \in Nat
    BY <1>3
  <2> HIDE DEF unused, lens
  <2> QED
    BY <1>1, <1>3, <2>1
<1> HIDE DEF unused, lens, both, low, exact, high, last
<1>7. Q \in Nat
  BY <1>2, <1>3, TotalNat
<1>8. Total(both, c) = Q + T
  <2>1. \A i \in c : unused[i] \in Int /\ lens[i] \in Int /\ both[i] = unused[i] + lens[i]
    BY <1>3, <1>6
  <2> QED
    BY <1>2, <1>4, <2>1, TotalPlus
<1>9. Total(CostOf(c), c) = cost * (Q + T)
  <2>1. cost \in Int /\ \A i \in c : both[i] \in Int /\ CostOf(c)[i] = cost * both[i]
    BY <1>1, <1>5, <1>6
  <2>2. Total(CostOf(c), c) = cost * Total(both, c)
    BY <1>2, <2>1, TotalTimes
  <2> QED
    BY <1>8, <2>2
<1>10. Total(low, c) = T * Q
  <2>1. T \in Int /\ \A i \in c : unused[i] \in Int /\ low[i] = T * unused[i]
    BY <1>1, <1>3, <1>6
  <2> QED
    BY <1>2, <2>1, TotalTimes
<1>11. Total(exact, c) = U * T
  <2>1. U \in Int /\ \A i \in c : lens[i] \in Int /\ exact[i] = U * lens[i]
    BY <1>1, <1>3, <1>6
  <2> QED
    BY <1>2, <1>4, <2>1, TotalTimes
<1>12. Total(high, c) = T * Q + N * (T - 1)
  <2>1. Total(last, c) = N * (T - 1)
    <3>1. T - 1 \in Int /\ \A i \in c : last[i] = T - 1
      BY <1>1, <1>6
    <3> QED
      BY <1>2, <3>1, TotalConstant DEF N
  <2>2. Total(high, c) = Total(low, c) + Total(last, c)
    BY <1>2, <1>6, TotalPlus
  <2> QED
    BY <1>10, <2>1, <2>2
<1>13. T * Q <= U * T /\ U * T <= T * Q + N * (T - 1)
  <2>1. Total(low, c) <= Total(exact, c)
    BY <1>2, <1>6, TotalOrder
  <2>2. Total(exact, c) <= Total(high, c)
    BY <1>2, <1>6, TotalOrder
  <2> QED
    BY <1>10, <1>11, <1>12, <2>1, <2>2
<1> HIDE DEF Q
<1>14. Q <= U
  <2>1. ASSUME Q > U PROVE FALSE
    <3>1. T * Q >= T * (U + 1)
      BY ONLY <1>1, <1>7, <2>1
    <3>2. T * (U + 1) = U * T + T
      BY ONLY <1>1
    <3> QED
      BY ONLY <1>1, <1>7, <1>13, <3>1, <3>2
  <2> QED
    BY ONLY <1>1, <1>7, <2>1
<1>15. U < Q + N
  <2>1. ASSUME U >= Q + N PROVE FALSE
    <3>1. U * T >= (Q + N) * T
      BY ONLY <1>1, <1>2, <1>7, <2>1
    <3>2. (Q + N) * T = T * Q + N * (T - 1) + N
      BY ONLY <1>1, <1>2, <1>7
    <3>3. N * (T - 1) \in Nat /\ T * Q \in Nat /\ U * T \in Nat
      BY ONLY <1>1, <1>2, <1>7
    <3> QED
      BY ONLY <1>2, <1>13, <3>1, <3>2, <3>3
  <2> QED
    BY ONLY <1>1, <1>2, <1>7, <2>1
<1>16. cost * (Q + T) <= BlobLen * cost
  <2>1. Q + T <= BlobLen
    BY ONLY <1>1, <1>7, <1>14
  <2> QED
    BY ONLY <1>1, <1>7, <2>1
<1>17. cost * (Q + T) > (BlobLen - N) * cost
  <2>1. Q + T >= (BlobLen - N) + 1
    BY ONLY <1>1, <1>2, <1>7, <1>15
  <2>2. cost * (Q + T) >= cost * ((BlobLen - N) + 1)
    BY ONLY <1>1, <1>2, <1>7, <2>1
  <2>3. cost * ((BlobLen - N) + 1) = (BlobLen - N) * cost + cost
    BY ONLY <1>1, <1>2
  <2>4. cost * (Q + T) \in Int /\ (BlobLen - N) * cost \in Int
    BY ONLY <1>1, <1>2, <1>7
  <2> QED
    BY ONLY <1>1, <2>2, <2>3, <2>4
<1> QED
  BY <1>9, <1>16, <1>17 DEF N

\* ViableNearMax: an item is charged what its highest price allows for its share of the
\* blob, but for the bytes its encoding cannot use and the rounding.
LEMMA ViableNearMax ==
    ASSUME PackingAssumption, ArgsOK, NEW c \in SUBSET Indexes, Viable(c), NEW i \in c
    PROVE  BlobDataCost(i, c) * MaxLen <= BlobLen * items[i].len * (items[i].price + 1)
<1> DEFINE T == TotalLen(c)
           l == items[i].len
           p == items[i].price
           q == AttributableUnused(i, c)
           y == MaxLen * cost
<1>1. T \in Nat \ {0} /\ BlobLen - T \in Nat /\ cost \in Nat /\ MaxLen \in Nat /\ BlobLen \in Nat
  BY DEF Viable, PackingAssumption, ArgsOK
<1>2. l \in Nat /\ p \in Nat /\ q \in Nat /\ T * q <= (BlobLen - T) * l
  BY Share, IndexesFinite
<1>3. y \div T <= p
  <2>1. y \div T <= LowestPrice(c)
    BY DEF Viable
  <2>2. LowestPrice(c) \in Nat /\ LowestPrice(c) <= p
    BY LowestIs
  <2>3. y \div T \in Int
    BY <1>1
  <2> HIDE DEF y, T, p
  <2> QED
    BY <1>2, <2>1, <2>2, <2>3
<1>4. BlobDataCost(i, c) = (q + l) * cost
  BY DEF BlobDataCost
<1> HIDE DEF T, l, p, q
<1>5. T * (q + l) <= BlobLen * l
  <2>1. T * (q + l) = T * q + T * l /\ (BlobLen - T) * l = BlobLen * l - T * l
    BY ONLY <1>1, <1>2
  <2>2. T * q \in Nat /\ T * l \in Nat /\ BlobLen * l \in Nat
    BY ONLY <1>1, <1>2
  <2> QED
    BY ONLY <1>2, <2>1, <2>2
<1>6. y <= T * (p + 1)
  <2>1. y \in Nat
    BY <1>1
  <2> DEFINE k == y \div T
             r == y % T
  <2> HIDE DEF y
  <2>2. k \in Nat /\ r \in Nat /\ r < T /\ y = T * k + r
    BY <1>1, <2>1
  <2>3. k <= p
    BY <1>3
  <2> HIDE DEF k, r
  <2>4. T * k <= T * p
    BY ONLY <1>1, <1>2, <2>2, <2>3
  <2>5. T * (p + 1) = T * p + T /\ T * p \in Nat /\ T * k \in Nat
    BY ONLY <1>1, <1>2, <2>2
  <2> QED
    BY ONLY <1>1, <2>2, <2>4, <2>5
<1>7. (q + l) * cost * MaxLen = (q + l) * y
  BY <1>1, <1>2
<1>8. y \in Nat
  BY <1>1
<1> HIDE DEF y
<1>9. (q + l) * y <= (q + l) * (T * (p + 1))
  BY ONLY <1>1, <1>2, <1>6, <1>8
<1>10. (q + l) * (T * (p + 1)) = (T * (q + l)) * (p + 1)
  BY ONLY <1>1, <1>2
<1>11. (T * (q + l)) * (p + 1) <= (BlobLen * l) * (p + 1)
  <2>1. T * (q + l) \in Nat /\ BlobLen * l \in Nat
    BY ONLY <1>1, <1>2
  <2> QED
    BY ONLY <1>2, <1>5, <2>1
<1>12. /\ (q + l) * y \in Nat /\ (T * (q + l)) * (p + 1) \in Nat
       /\ (BlobLen * l) * (p + 1) \in Nat
  BY ONLY <1>1, <1>2, <1>8
<1>13. (q + l) * cost * MaxLen <= BlobLen * l * (p + 1)
  BY ONLY <1>7, <1>9, <1>10, <1>11, <1>12
<1> QED
  BY <1>4, <1>13 DEF l, p

-----------------------------------------------------------------------------
(* Greedy *)

\* PickedFits: the items picked fit, and with any other that pays they would not.
LEMMA PickedFits ==
    ASSUME PackingAssumption, ArgsOK, Sorted, NEW min \in Nat
    PROVE  /\ Picked(min) \in SUBSET Indexes
           /\ TotalLen(Picked(min)) <= MaxLen
           /\ \A i \in Indexes \ Picked(min) :
                items[i].price >= min => TotalLen(Picked(min) \union {i}) > MaxLen
<1> DEFINE paying == {i \in Indexes : items[i].price >= min}
           upTo(k) == {i \in paying : i <= k}
           K == {k \in paying : TotalLen(upTo(k)) <= MaxLen}
           c == Picked(min)
<1>1. \A i : i \in c <=> \E k \in K : i \in upTo(k)
  BY DEF Picked
<1>2. MaxLen \in Nat /\ Len(items) \in Nat /\ Indexes = 1 .. Len(items)
  BY IndexesFinite DEF PackingAssumption
<1>3. paying \subseteq Indexes /\ K \subseteq paying /\ c \subseteq paying
  BY <1>1
<1>4. \A k \in Indexes, i \in paying : i \in upTo(k) <=> i <= k
  OBVIOUS
<1>5. \A k \in paying : k \in K <=> TotalLen(upTo(k)) <= MaxLen
  OBVIOUS
<1>6. \A k \in paying : upTo(k) \subseteq paying
  OBVIOUS
<1> HIDE DEF K, c
<1>7. TotalLen(c) <= MaxLen
  <2>1. CASE K = {}
    <3>1. c = {}
      BY <1>1, <2>1
    <3>2. TotalLen({}) = 0
      BY LenEmpty
    <3> QED
      BY <1>2, <3>1, <3>2
  <2>2. CASE K # {}
    <3>1. K \subseteq 0 .. Len(items)
      BY <1>2, <1>3
    <3>2. PICK g \in K : \A k \in K : k <= g
      BY <1>2, <2>2, <3>1, GreatestNumber
    <3>3. c = upTo(g)
      <4>1. \A i \in upTo(g) : i \in c
        BY <1>1, <3>2
      <4>2. ASSUME NEW i \in c PROVE i \in upTo(g)
        <5>1. PICK k \in K : i \in upTo(k)
          BY <1>1
        <5>2. i \in paying /\ i <= k /\ k <= g /\ i \in Nat /\ k \in Nat /\ g \in Nat
          BY <1>2, <1>3, <3>2, <5>1
        <5> QED
          BY <5>2
      <4> QED
        BY <4>1, <4>2
    <3> QED
      BY <1>3, <1>5, <3>2, <3>3
  <2> QED
    BY <2>1, <2>2
<1>8. ASSUME NEW i \in Indexes \ c, items[i].price >= min
      PROVE  TotalLen(c \union {i}) > MaxLen
  <2> DEFINE J == paying \ c
  <2>1. J \subseteq Nat /\ i \in J
    BY <1>2, <1>8
  <2> HIDE DEF J
  <2>2. PICK j \in J : \A k \in J : j <= k
    BY <2>1, LeastNumber
  <2>3. j \in paying /\ j \notin c /\ j \in Indexes
    BY <1>3, <2>2 DEF J
  <2>4. upTo(j) = c \union {j}
    <3>1. ASSUME NEW x \in upTo(j), x # j PROVE x \in c
      <4>1. x \in paying /\ x <= j /\ x \in Nat /\ j \in Nat
        BY <1>2, <2>3
      <4>2. ~(j <= x)
        BY <3>1, <4>1
      <4>3. x \notin J
        BY <2>2, <4>2
      <4> QED
        BY <4>1, <4>3 DEF J
    <3>2. ASSUME NEW x \in c PROVE x \in upTo(j)
      <4>1. PICK k \in K : x \in upTo(k)
        BY <1>1
      <4>2. x \in paying /\ x <= k /\ x \in Nat /\ k \in Nat /\ j \in Nat /\ k \in Indexes
        BY <1>2, <1>3, <2>3, <4>1
      <4>3. ~(j <= k)
        BY <1>1, <1>4, <2>3, <4>2
      <4> QED
        BY <4>2, <4>3
    <3>3. j \in upTo(j)
      BY <1>2, <2>3
    <3> QED
      BY <3>1, <3>2, <3>3
  <2>5. j \in upTo(j)
    BY <1>2, <2>3
  <2>6. ~(TotalLen(c \union {j}) <= MaxLen)
    BY <1>1, <1>5, <2>3, <2>4, <2>5
  <2>7. c \in SUBSET Indexes /\ c \union {i} \in SUBSET Indexes
    BY <1>3
  <2>8. /\ TotalLen(c \union {j}) = TotalLen(c) + items[j].len
        /\ TotalLen(c \union {i}) = TotalLen(c) + items[i].len
        /\ TotalLen(c) \in Nat
    BY <1>8, <2>3, <2>7, LenAdd, LenType
  <2>9. j <= i
    BY <2>1, <2>2
  <2>10. items[j].len \in Nat /\ items[i].len \in Nat /\ items[j].len <= items[i].len
    BY <2>3, <2>9, IndexesFinite DEF Sorted
  <2> QED
    BY <1>2, <2>6, <2>8, <2>10
<1>9. c \in SUBSET Indexes
  BY <1>3
<1> QED
  BY <1>7, <1>8, <1>9 DEF c

\* CoveredViable: what covers the blob exactly covers it with the rounding of brute force.
LEMMA CoveredViable ==
    ASSUME PackingAssumption, ArgsOK, NEW c \in SUBSET Indexes,
           TotalLen(c) \in 1 .. MaxLen, Covered(c)
    PROVE  Viable(c)
<1>1. c # {}
  BY LenEmpty
<1>2. LowestPrice(c) \in Nat
  BY <1>1, LowestIs
<1>3. MaxLen \in Nat /\ cost \in Nat /\ TotalLen(c) \in Nat \ {0}
  BY DEF PackingAssumption, ArgsOK
<1> DEFINE x == MaxLen * cost
           T == TotalLen(c)
           p == LowestPrice(c)
           q == x \div T
           r == x % T
<1>4. x \in Nat /\ x <= T * p
  BY <1>3 DEF Covered
<1>5. T \in Nat \ {0} /\ p \in Nat
  BY <1>2, <1>3
<1> HIDE DEF x, T, p
<1>6. q \in Nat /\ r \in Nat /\ x = T * q + r
  BY <1>4, <1>5
<1> HIDE DEF q, r
<1>7. q <= p
  <2>1. ASSUME q > p PROVE FALSE
    <3>1. T * q >= T * (p + 1)
      BY ONLY <1>5, <1>6, <2>1
    <3>2. T * (p + 1) = T * p + T /\ T * p \in Nat /\ T * q \in Nat
      BY ONLY <1>5, <1>6
    <3> QED
      BY ONLY <1>4, <1>5, <1>6, <3>1, <3>2
  <2> QED
    BY ONLY <1>5, <1>6, <2>1
<1> QED
  BY <1>7 DEF Viable, q, x, T, p

-----------------------------------------------------------------------------
(* The length of a sequence of items *)

LensOf(s) == [k \in 1 .. Len(s) |-> items[s[k]].len]

\* SeqLenIs: a fold from the left is a sum.
LEMMA SeqLenIs ==
    ASSUME ArgsOK, NEW s \in Seq(Indexes)
    PROVE  SeqLen(s) = Total(LensOf(s), 1 .. Len(s))
<1> DEFINE n == Len(s)
           D == DOMAIN s
           f == LensOf(s)
           iter == CHOOSE h : h = [t \in SUBSET D |->
                     IF t = {} THEN 0 ELSE h[t \ {Max(t)}] + items[s[Max(t)]].len]
           sum == [t \in SUBSET D |-> Total(f, t)]
<1>1. SeqLen(s) = iter[D]
  BY DEF SeqLen, FoldLeft, MapThenFoldSet
<1>2. n \in Nat /\ D = 1 .. n /\ IsFiniteSet(D) /\ \A k \in D : f[k] = items[s[k]].len /\ f[k] \in Nat
  <2>1. n \in Nat /\ D = 1 .. n /\ \A k \in D : s[k] \in Indexes
    OBVIOUS
  <2>2. IsFiniteSet(D)
    BY <2>1, FS_Interval
  <2>3. \A k \in D : items[s[k]].len \in Nat
    BY <2>1, IndexesFinite
  <2>4. \A k \in D : f[k] = items[s[k]].len
    BY <2>1 DEF LensOf
  <2> QED
    BY <2>1, <2>2, <2>3, <2>4
<1>3. ASSUME NEW t \in SUBSET D, t # {}
      PROVE  Max(t) \in t /\ \A k \in t : k <= Max(t)
  <2>1. t \subseteq 0 .. n
    BY <1>2
  <2>2. \E m \in t : \A k \in t : k <= m
    BY <1>2, <1>3, <2>1, GreatestNumber
  <2>3. \E m \in t : \A k \in t : m >= k
    BY <2>2
  <2> QED
    BY <2>3 DEF Max
<1>4. sum = [t \in SUBSET D |-> IF t = {} THEN 0
                                ELSE sum[t \ {Max(t)}] + items[s[Max(t)]].len]
  <2> SUFFICES ASSUME NEW t \in SUBSET D
               PROVE  Total(f, t) = IF t = {} THEN 0
                                    ELSE Total(f, t \ {Max(t)}) + items[s[Max(t)]].len
    OBVIOUS
  <2>1. CASE t = {}
    BY <2>1, TotalEmpty
  <2>2. CASE t # {}
    <3> DEFINE m == Max(t)
    <3>1. m \in t /\ m \in D
      BY <1>3, <2>2
    <3>2. IsFiniteSet(t) /\ \A k \in t : f[k] \in Int
      <4>1. t \subseteq D
        OBVIOUS
      <4> HIDE DEF D, f, n
      <4>2. IsFiniteSet(t)
        BY <1>2, <4>1, FS_Subset
      <4>3. \A k \in t : f[k] \in Int
        BY <1>2, <4>1
      <4> QED
        BY <4>2, <4>3
    <3> HIDE DEF m, D, f
    <3>3. Total(f, t \ {m}) \in Int /\ Total(f, t) = f[m] + Total(f, t \ {m})
      BY <3>1, <3>2, TotalRemove
    <3>4. f[m] = items[s[m]].len /\ f[m] \in Nat
      BY <1>2, <3>1
    <3>5. Total(f, t) = Total(f, t \ {m}) + items[s[m]].len
      BY <3>3, <3>4
    <3> QED
      BY <2>2, <3>5 DEF m
  <2> QED
    BY <2>1, <2>2
<1>5. iter = [t \in SUBSET D |-> IF t = {} THEN 0
                                 ELSE iter[t \ {Max(t)}] + items[s[Max(t)]].len]
  <2> HIDE DEF sum
  <2> QED
    BY <1>4
<1> HIDE DEF iter
<1> DEFINE P == {k \in Nat : \A t \in SUBSET D : t \subseteq 1 .. k => iter[t] = Total(f, t)}
<1>6. 0 \in P
  <2> SUFFICES ASSUME NEW t \in SUBSET D, t \subseteq 1 .. 0 PROVE iter[t] = Total(f, t)
    OBVIOUS
  <2>1. t = {}
    OBVIOUS
  <2>2. iter[{}] = 0
    BY <1>5
  <2> QED
    BY <2>1, <2>2, TotalEmpty
<1>7. ASSUME NEW k \in Nat, k \in P PROVE k + 1 \in P
  <2> SUFFICES ASSUME NEW t \in SUBSET D, t \subseteq 1 .. k + 1 PROVE iter[t] = Total(f, t)
    OBVIOUS
  <2>1. CASE t = {}
    <3>1. iter[{}] = 0
      BY <1>5
    <3> QED
      BY <2>1, <3>1, TotalEmpty
  <2>2. CASE t # {}
    <3>1. Max(t) \in t /\ \A j \in t : j <= Max(t)
      BY <1>3, <2>2
    <3>2. t \ {Max(t)} \subseteq 1 .. k
      <4> SUFFICES ASSUME NEW j \in t, j # Max(t) PROVE j \in 1 .. k
        OBVIOUS
      <4>1. j <= Max(t) /\ Max(t) \in 1 .. k + 1 /\ j \in 1 .. k + 1
        BY <3>1
      <4> QED
        BY <4>1
    <3>3. t \ {Max(t)} \in SUBSET D
      OBVIOUS
    <3>4. iter[t \ {Max(t)}] = Total(f, t \ {Max(t)})
      BY <1>7, <3>2, <3>3
    <3>5. iter[t] = iter[t \ {Max(t)}] + items[s[Max(t)]].len
      BY <1>5, <2>2
    <3>6. sum[t] = sum[t \ {Max(t)}] + items[s[Max(t)]].len
      <4> HIDE DEF sum
      <4> QED
        BY <1>4, <2>2
    <3>7. sum[t] = Total(f, t) /\ sum[t \ {Max(t)}] = Total(f, t \ {Max(t)})
      BY <3>3
    <3> QED
      BY <3>4, <3>5, <3>6, <3>7
  <2> QED
    BY <2>1, <2>2
<1> HIDE DEF P
<1>8. n \in P
  BY <1>2, <1>6, <1>7, NumberInduction
<1> QED
  BY <1>1, <1>8 DEF P

\* SeqLenAppend: an item adds its length to a sequence.
LEMMA SeqLenAppend ==
    ASSUME ArgsOK, NEW s \in Seq(Indexes), NEW i \in Indexes
    PROVE  SeqLen(<<>>) = 0 /\ SeqLen(Append(s, i)) = SeqLen(s) + items[i].len
<1> DEFINE n == Len(s)
           t == Append(s, i)
           f == LensOf(s)
           g == LensOf(t)
<1>1. SeqLen(<<>>) = 0
  <2>1. <<>> \in Seq(Indexes) /\ 1 .. Len(<<>>) = {}
    OBVIOUS
  <2> QED
    BY <2>1, SeqLenIs, TotalEmpty
<1>2. t \in Seq(Indexes) /\ Len(t) = n + 1 /\ n \in Nat /\ t[n + 1] = i
  OBVIOUS
<1>3. \A k \in 1 .. n : t[k] = s[k]
  OBVIOUS
<1>4. /\ \A k \in 1 .. n : g[k] = f[k] /\ g[k] \in Nat
      /\ g[n + 1] = items[i].len /\ items[i].len \in Nat
  <2>1. \A k \in 1 .. n : g[k] = items[t[k]].len /\ f[k] = items[s[k]].len /\ s[k] \in Indexes
    BY <1>2 DEF LensOf
  <2>2. g[n + 1] = items[t[n + 1]].len
    BY <1>2 DEF LensOf
  <2>3. \A x \in Indexes : items[x].len \in Nat
    BY IndexesFinite
  <2> HIDE DEF f, g, t, n
  <2> QED
    BY <1>2, <1>3, <2>1, <2>2, <2>3
<1> HIDE DEF f, g
<1>5. 1 .. n + 1 = (1 .. n) \union {n + 1} /\ n + 1 \notin 1 .. n /\ IsFiniteSet(1 .. n)
  <2>1. n \in Nat
    BY <1>2
  <2> HIDE DEF n
  <2>2. IsFiniteSet(1 .. n)
    BY <2>1, FS_Interval
  <2> QED
    BY <2>1, <2>2
<1>6. Total(g, (1 .. n) \union {n + 1}) = Total(g, 1 .. n) + g[n + 1]
  <2> DEFINE S == 1 .. n
             y == n + 1
  <2>1. IsFiniteSet(S) /\ y \notin S /\ g[y] \in Int /\ \A x \in S : g[x] \in Int
    BY <1>4, <1>5
  <2> HIDE DEF S, y
  <2>2. Total(g, S \union {y}) = Total(g, S) + g[y]
    BY <2>1, TotalAdd
  <2> QED
    BY <2>2 DEF S, y
<1>7. Total(g, 1 .. n) = Total(f, 1 .. n)
  BY <1>4, <1>5, TotalSame
<1>8. SeqLen(s) = Total(f, 1 .. n) /\ SeqLen(t) = Total(g, 1 .. n + 1)
  BY <1>2, SeqLenIs DEF f, g
<1> QED
  BY <1>1, <1>4, <1>5, <1>6, <1>7, <1>8

-----------------------------------------------------------------------------
(* The inductive invariant *)

\* Of the combinations that fit in w, d is no better than c: it is shorter, or as long
\* and of no lower mask.
NoBetter(d, c) ==
    \/ TotalLen(d) < TotalLen(c)
    \/ TotalLen(d) = TotalLen(c) /\ MaskOf(c) <= MaskOf(d)

\* s selects the best of the first n items for a weight of w.
BestOf(s, n, w) ==
    /\ s \in Seq(1 .. n) /\ IsInjective(s)
    /\ SeqLen(s) = TotalLen(Range(s)) /\ TotalLen(Range(s)) <= w
    /\ \A d \in SUBSET (1 .. n) : TotalLen(d) <= w => NoBetter(d, Range(s))

Starting == pc = "start" => mask = 0 /\ best = {}

BruteForcing ==
    pc = "brute force" =>
      /\ Len(items) < BruteForceBelow /\ threshold = cost
      /\ mask \in 0 .. 2^Len(items)
      /\ best \in SUBSET Indexes /\ (best = {} \/ Viable(best))
      /\ \A m \in Nat : m < mask /\ Viable(Combination(m)) =>
                          TotalLen(Combination(m)) <= TotalLen(best)

Picking ==
    pc = "greedy" => Len(items) >= BruteForceBelow /\ Sorted /\ threshold \in Nat \ {0}

AllPay ==
    /\ threshold = 0 /\ cost = 1
    /\ \A i \in Indexes : items[i].len > 0 /\ items[i].price = 10 * MaxLen

\* The cells above the column have seen the item of the row.
Seen(w) == IF w > col THEN row ELSE row - 1

Filling ==
    pc = "knapsack" =>
      /\ AllPay
      /\ row \in 1 .. Len(items) + 1 /\ col \in 0 .. MaxLen
      /\ row = Len(items) + 1 => col = MaxLen
      /\ DOMAIN sel = 0 .. MaxLen
      /\ \A w \in 0 .. MaxLen : BestOf(sel[w], Seen(w), w)

Selected == \A c \in result : c \in SUBSET Indexes /\ Viable(c)

PackingInv ==
    /\ ArgsOK
    /\ Starting /\ BruteForcing /\ Picking /\ Filling
    /\ Selected
    /\ BruteForceOptimal /\ GreedyFills /\ KnapsackAgrees

-----------------------------------------------------------------------------
(* The cells of the knapsack *)

\* AppendFacts: the range of a longer sequence, and that no item is in it twice.
LEMMA AppendFacts ==
    ASSUME NEW S, NEW T, S \subseteq T, NEW s \in Seq(S), NEW x \in T
    PROVE  /\ s \in Seq(T) /\ Append(s, x) \in Seq(T)
           /\ Range(s) \subseteq S /\ Range(Append(s, x)) = Range(s) \union {x}
           /\ IsInjective(s) /\ x \notin Range(s) => IsInjective(Append(s, x))
<1> DEFINE n == Len(s)
           t == Append(s, x)
<1>1. n \in Nat /\ DOMAIN s = 1 .. n /\ \A k \in 1 .. n : s[k] \in S
  OBVIOUS
<1>2. s \in Seq(T)
  <2>1. \A k \in 1 .. n : s[k] \in T
    BY <1>1
  <2>2. s = [k \in 1 .. n |-> s[k]]
    OBVIOUS
  <2> QED
    BY <1>1, <2>1, <2>2
<1>3. t \in Seq(T) /\ DOMAIN t = 1 .. n + 1 /\ t[n + 1] = x /\ \A k \in 1 .. n : t[k] = s[k]
  BY <1>2
<1> HIDE DEF n, t
<1>4. Range(s) \subseteq S
  BY <1>1 DEF Range
<1>5. Range(t) = Range(s) \union {x}
  <2>1. \A k \in 1 .. n + 1 : k \in 1 .. n \/ k = n + 1
    BY <1>1
  <2>2. n + 1 \in 1 .. n + 1 /\ \A k \in 1 .. n : k \in 1 .. n + 1
    BY <1>1
  <2> QED
    BY <1>1, <1>3, <2>1, <2>2 DEF Range
<1>6. ASSUME IsInjective(s), x \notin Range(s) PROVE IsInjective(t)
  <2>1. \A k \in 1 .. n + 1 : k \in 1 .. n \/ k = n + 1
    BY <1>1
  <2>2. \A k \in 1 .. n : s[k] # x
    BY <1>1, <1>6 DEF Range
  <2>3. \A j, k \in 1 .. n : s[j] = s[k] => j = k
    BY <1>1, <1>6 DEF IsInjective
  <2>4. \A j, k \in 1 .. n + 1 : t[j] = t[k] => j = k
    BY <1>3, <2>1, <2>2, <2>3
  <2> QED
    BY <1>3, <2>4 DEF IsInjective
<1> QED
  BY <1>2, <1>3, <1>4, <1>5, <1>6 DEF t

\* LastItem: what the last item of a combination adds to those before it.
LEMMA LastItem ==
    ASSUME ArgsOK, NEW i \in Indexes, NEW e \in SUBSET (1 .. i - 1)
    PROVE  /\ TotalLen(e) \in Nat /\ MaskOf(e) \in Nat
           /\ 2^(i - 1) \in Nat /\ MaskOf(e) < 2^(i - 1)
           /\ TotalLen(e \union {i}) = TotalLen(e) + items[i].len
           /\ MaskOf(e \union {i}) = MaskOf(e) + 2^(i - 1)
<1>1. i - 1 \in Nat /\ i - 1 < Len(items) /\ (i - 1) + 1 = i
  BY IndexesFinite
<1>2. e \in SUBSET Indexes /\ i \notin e
  BY <1>1, IndexesFinite
<1>3. TotalLen(e) \in Nat /\ TotalLen(e \union {i}) = TotalLen(e) + items[i].len
  BY <1>2, LenAdd, LenType
<1> DEFINE n == i - 1
<1>4. n \in Nat /\ n < Len(items) /\ n + 1 = i /\ e \in SUBSET (1 .. n)
  BY <1>1
<1> HIDE DEF n
<1>5. /\ MaskOf(e) \in Nat /\ 2^n \in Nat /\ MaskOf(e) < 2^n
      /\ MaskOf(e \union {n + 1}) = MaskOf(e) + 2^n
  BY <1>4, MaskAdd
<1> QED
  BY <1>3, <1>4, <1>5 DEF n

\* A cell that is kept: the item does not fit, or with it the selection is not longer.
LEMMA Kept ==
    ASSUME ArgsOK, NEW i \in Indexes, NEW w \in Nat, NEW s, BestOf(s, i - 1, w),
           NEW u, items[i].len <= w => /\ BestOf(u, i - 1, w - items[i].len)
                                       /\ SeqLen(u) + items[i].len <= SeqLen(s)
    PROVE  BestOf(s, i, w)
<1> DEFINE c == Range(s)
           l == items[i].len
<1>1. 1 .. i - 1 \subseteq 1 .. i /\ i \in 1 .. i /\ i \in Nat /\ l \in Nat
  BY IndexesFinite
<1>2. s \in Seq(1 .. i) /\ c \in SUBSET (1 .. i - 1)
  <2> DEFINE S == 1 .. i - 1
             T == 1 .. i
  <2>1. s \in Seq(S) /\ S \subseteq T /\ i \in T
    BY <1>1 DEF BestOf
  <2> HIDE DEF S, T
  <2>2. s \in Seq(T) /\ Range(s) \subseteq S
    BY <2>1, AppendFacts
  <2> QED
    BY <2>2 DEF S, T
<1>3. /\ SeqLen(s) = TotalLen(c) /\ TotalLen(c) <= w
      /\ \A d \in SUBSET (1 .. i - 1) : TotalLen(d) <= w => NoBetter(d, c)
      /\ IsInjective(s)
  BY DEF BestOf
<1>4. TotalLen(c) \in Nat /\ MaskOf(c) \in Nat /\ 2^(i - 1) \in Nat /\ MaskOf(c) < 2^(i - 1)
  BY <1>2, LastItem
<1> HIDE DEF c, l
<1>5. ASSUME NEW d \in SUBSET (1 .. i), TotalLen(d) <= w PROVE NoBetter(d, c)
  <2>1. CASE i \notin d
    <3>1. d \in SUBSET (1 .. i - 1)
      BY <1>1, <2>1
    <3> QED
      BY <1>3, <1>5, <3>1
  <2>2. CASE i \in d
    <3> DEFINE e == d \ {i}
               f == Range(u)
    <3>1. e \in SUBSET (1 .. i - 1) /\ d = e \union {i}
      BY <1>1, <2>2
    <3> HIDE DEF e, f
    <3>2. /\ TotalLen(e) \in Nat /\ MaskOf(e) \in Nat
          /\ TotalLen(d) = TotalLen(e) + l /\ MaskOf(d) = MaskOf(e) + 2^(i - 1)
      BY <3>1, LastItem DEF l
    <3>3. l <= w /\ TotalLen(e) <= w - l
      BY <1>1, <1>5, <3>2
    <3>4. BestOf(u, i - 1, w - l) /\ SeqLen(u) + l <= SeqLen(s)
      BY <3>3 DEF l
    <3>5. u \in Seq(1 .. i - 1) /\ SeqLen(u) = TotalLen(f) /\ NoBetter(e, f)
      BY <3>1, <3>3, <3>4 DEF BestOf, f
    <3>6. f \in SUBSET (1 .. i - 1)
      BY <1>1, <3>5, AppendFacts DEF f
    <3>7. TotalLen(f) \in Nat
      BY <3>6, LastItem
    <3>8. TotalLen(e) <= TotalLen(f)
      BY <3>2, <3>5, <3>7 DEF NoBetter
    <3>9. TotalLen(d) <= TotalLen(c) /\ MaskOf(c) <= MaskOf(d)
      BY <1>1, <1>3, <1>4, <3>2, <3>4, <3>5, <3>7, <3>8
    <3> QED
      BY <1>1, <1>4, <3>2, <3>9 DEF NoBetter
  <2> QED
    BY <2>1, <2>2
<1> QED
  BY <1>2, <1>3, <1>5 DEF BestOf, c

\* A cell that is replaced: with the item the selection is longer.
LEMMA Replaced ==
    ASSUME ArgsOK, NEW i \in Indexes, NEW w \in Nat, NEW s, BestOf(s, i - 1, w),
           NEW u, items[i].len <= w, BestOf(u, i - 1, w - items[i].len),
           SeqLen(u) + items[i].len > SeqLen(s)
    PROVE  BestOf(Append(u, i), i, w)
<1> DEFINE c == Range(s)
           f == Range(u)
           g == Range(Append(u, i))
           l == items[i].len
<1>1. 1 .. i - 1 \subseteq 1 .. i /\ i \in 1 .. i /\ i \in Nat /\ l \in Nat /\ i \notin 1 .. i - 1
      /\ 1 .. i - 1 \subseteq Indexes
  BY IndexesFinite
<1>2. s \in Seq(1 .. i - 1) /\ u \in Seq(1 .. i - 1)
  BY DEF BestOf
<1>3. c \in SUBSET (1 .. i - 1) /\ f \in SUBSET (1 .. i - 1)
  BY <1>1, <1>2, AppendFacts
<1>4. /\ SeqLen(s) = TotalLen(c)
      /\ \A d \in SUBSET (1 .. i - 1) : TotalLen(d) <= w => NoBetter(d, c)
  BY DEF BestOf
<1>5. /\ SeqLen(u) = TotalLen(f) /\ TotalLen(f) <= w - l /\ IsInjective(u)
      /\ \A d \in SUBSET (1 .. i - 1) : TotalLen(d) <= w - l => NoBetter(d, f)
  BY DEF BestOf
<1>6. Append(u, i) \in Seq(1 .. i) /\ g = f \union {i} /\ IsInjective(Append(u, i))
  <2>1. IsInjective(u) /\ i \notin Range(u)
    BY <1>1, <1>3, <1>5
  <2> QED
    BY <1>1, <1>2, <2>1, AppendFacts
<1>7. SeqLen(Append(u, i)) = SeqLen(u) + l
  <2>1. u \in Seq(Indexes)
    BY <1>1, <1>2, AppendFacts
  <2> QED
    BY <2>1, SeqLenAppend
<1>8. SeqLen(u) + l > SeqLen(s)
  OBVIOUS
<1> HIDE DEF c, f, g, l
<1>9. /\ TotalLen(f) \in Nat /\ MaskOf(f) \in Nat
      /\ TotalLen(g) = TotalLen(f) + l /\ MaskOf(g) = MaskOf(f) + 2^(i - 1)
      /\ 2^(i - 1) \in Nat /\ TotalLen(c) \in Nat
  BY <1>3, <1>6, LastItem DEF l
<1>10. ASSUME NEW d \in SUBSET (1 .. i), TotalLen(d) <= w PROVE NoBetter(d, g)
  <2>1. CASE i \notin d
    <3>1. d \in SUBSET (1 .. i - 1)
      BY <1>1, <2>1
    <3>2. NoBetter(d, c) /\ TotalLen(d) \in Nat
      BY <1>4, <1>10, <3>1, LastItem
    <3>3. TotalLen(d) < TotalLen(g)
      BY <1>1, <1>4, <1>5, <1>8, <1>9, <3>2 DEF NoBetter
    <3> QED
      BY <3>3 DEF NoBetter
  <2>2. CASE i \in d
    <3> DEFINE e == d \ {i}
    <3>1. e \in SUBSET (1 .. i - 1) /\ d = e \union {i}
      BY <1>1, <2>2
    <3> HIDE DEF e
    <3>2. /\ TotalLen(e) \in Nat /\ MaskOf(e) \in Nat
          /\ TotalLen(d) = TotalLen(e) + l /\ MaskOf(d) = MaskOf(e) + 2^(i - 1)
      BY <3>1, LastItem DEF l
    <3>3. NoBetter(e, f)
      BY <1>1, <1>5, <1>10, <3>1, <3>2
    <3> QED
      BY <1>1, <1>9, <3>2, <3>3 DEF NoBetter
  <2> QED
    BY <2>1, <2>2
<1>11. TotalLen(g) <= w /\ SeqLen(Append(u, i)) = TotalLen(g)
  BY <1>1, <1>5, <1>7, <1>9
<1> QED
  BY <1>6, <1>10, <1>11 DEF BestOf, g

\* BestIsLongest: what is best of all items, if not empty, is what brute force selects.
LEMMA BestIsLongest ==
    ASSUME PackingAssumption, ArgsOK, AllPay, NEW s, BestOf(s, Len(items), MaxLen)
    PROVE  (IF s = <<>> THEN {} ELSE {Range(s)})
             = {c \in Longest : \A d \in Longest : MaskOf(c) <= MaskOf(d)}
<1> DEFINE b == Range(s)
           Firsts == {c \in Longest : \A d \in Longest : MaskOf(c) <= MaskOf(d)}
<1>1. Len(items) \in Nat /\ Indexes = 1 .. Len(items) /\ MaxLen \in Nat \ {0}
  BY IndexesFinite DEF PackingAssumption
<1>2. s \in Seq(Indexes) /\ b \in SUBSET Indexes
  <2>1. s \in Seq(Indexes)
    BY <1>1 DEF BestOf
  <2>2. b \subseteq Indexes
    BY <2>1 DEF Range
  <2> QED
    BY <2>1, <2>2
<1>3. TotalLen(b) <= MaxLen /\ \A d \in SUBSET Indexes : TotalLen(d) <= MaxLen => NoBetter(d, b)
  BY <1>1 DEF BestOf
<1>4. \A d \in SUBSET Indexes : TotalLen(d) \in Nat /\ MaskOf(d) \in Nat
  BY LenType, Masked
<1>5. ASSUME NEW d \in SUBSET Indexes, d # {} PROVE TotalLen(d) > 0
  <2>1. PICK i \in d : TRUE
    BY <1>5
  <2>2. {i} \in SUBSET d /\ {i} = {} \union {i} /\ i \in Indexes /\ {} \in SUBSET Indexes /\ i \notin {}
    OBVIOUS
  <2>3. TotalLen({i}) = TotalLen({}) + items[i].len /\ TotalLen({}) = 0
    BY <2>2, LenAdd, LenEmpty
  <2>4. items[i].len \in Nat /\ items[i].len > 0
    BY <2>2, IndexesFinite DEF AllPay
  <2>5. TotalLen({i}) <= TotalLen(d) /\ TotalLen({i}) \in Nat
    BY <1>4, <2>2, LenType
  <2> QED
    BY <1>4, <2>3, <2>4, <2>5
<1>6. ASSUME NEW d \in SUBSET Indexes
      PROVE  Viable(d) <=> d # {} /\ TotalLen(d) <= MaxLen
  <2>1. ASSUME d # {}, TotalLen(d) <= MaxLen PROVE Viable(d)
    <3>1. TotalLen(d) \in 1 .. MaxLen
      BY <1>1, <1>4, <1>5, <2>1
    <3>2. LowestPrice(d) = 10 * MaxLen
      <4>1. PICK i \in d : LowestPrice(d) = items[i].price
        BY <2>1, LowestIs
      <4> QED
        BY <4>1 DEF AllPay
    <3>3. Covered(d)
      <4>1. cost = 1
        BY DEF AllPay
      <4> DEFINE T == TotalLen(d)
      <4>2. T \in Nat \ {0}
        BY <1>1, <3>1
      <4> HIDE DEF T
      <4>3. MaxLen * 1 <= T * (10 * MaxLen)
        BY <1>1, <4>2
      <4> QED
        BY <3>2, <4>1, <4>3 DEF T, Covered
    <3> QED
      BY <3>1, <3>3, CoveredViable
  <2>2. ASSUME Viable(d) PROVE d # {} /\ TotalLen(d) <= MaxLen
    <3>1. TotalLen(d) \in 1 .. MaxLen
      BY <2>2 DEF Viable
    <3>2. TotalLen({}) = 0
      BY LenEmpty
    <3>3. TotalLen(d) # 0
      BY <1>1, <3>1
    <3>4. d # {}
      BY <3>2, <3>3, Zenon
    <3> QED
      BY <1>1, <3>1, <3>4
  <2> QED
    BY <2>1, <2>2
<1>7. s = <<>> <=> b = {}
  BY <1>2 DEF Range
<1>8. \A c : c \in Longest <=>
        /\ c \in SUBSET Indexes /\ Viable(c)
        /\ \A d \in SUBSET Indexes : Viable(d) => TotalLen(d) <= TotalLen(c)
  BY DEF Longest, AllViable
<1>9. \A c : c \in Firsts <=> c \in Longest /\ \A d \in Longest : MaskOf(c) <= MaskOf(d)
  OBVIOUS
<1> HIDE DEF b, Firsts
<1>10. CASE b = {}
  <2>1. \A c \in SUBSET Indexes : ~Viable(c)
    <3> SUFFICES ASSUME NEW c \in SUBSET Indexes, Viable(c) PROVE FALSE
      OBVIOUS
    <3>1. c # {} /\ TotalLen(c) <= MaxLen
      BY <1>6
    <3>2. NoBetter(c, b) /\ TotalLen(c) \in Nat /\ TotalLen(c) > 0
      BY <1>3, <1>4, <1>5, <3>1
    <3>3. TotalLen(b) = 0
      BY <1>10, LenEmpty
    <3> QED
      BY <3>2, <3>3 DEF NoBetter
  <2>2. Firsts = {}
    BY <1>8, <1>9, <2>1
  <2> QED
    BY <1>7, <1>10, <2>2 DEF Firsts
<1>11. CASE b # {}
  <2>1. Viable(b)
    BY <1>2, <1>3, <1>6, <1>11
  <2>2. ASSUME NEW c \in SUBSET Indexes, Viable(c)
        PROVE  TotalLen(c) <= TotalLen(b) /\ (TotalLen(c) = TotalLen(b) => MaskOf(b) <= MaskOf(c))
    <3>1. NoBetter(c, b)
      BY <1>3, <1>6, <2>2
    <3>2. TotalLen(c) \in Nat /\ TotalLen(b) \in Nat
      BY <1>2, <1>4
    <3> QED
      BY <3>1, <3>2 DEF NoBetter
  <2>3. b \in Longest
    BY <1>2, <1>8, <2>1, <2>2
  <2>4. \A c \in Longest : TotalLen(c) = TotalLen(b)
    <3> SUFFICES ASSUME NEW c \in Longest PROVE TotalLen(c) = TotalLen(b)
      OBVIOUS
    <3>1. c \in SUBSET Indexes /\ Viable(c) /\ TotalLen(b) <= TotalLen(c)
      BY <1>2, <1>8, <2>1
    <3>2. TotalLen(c) <= TotalLen(b) /\ TotalLen(c) \in Nat /\ TotalLen(b) \in Nat
      BY <1>2, <1>4, <2>2, <3>1
    <3> QED
      BY <3>1, <3>2
  <2>5. b \in Firsts
    <3>1. \A d \in Longest : MaskOf(b) <= MaskOf(d)
      BY <1>8, <2>2, <2>4
    <3> QED
      BY <1>9, <2>3, <3>1
  <2>6. ASSUME NEW c \in Firsts PROVE c = b
    <3>1. c \in Longest /\ MaskOf(c) <= MaskOf(b)
      BY <1>9, <2>3
    <3>2. c \in SUBSET Indexes /\ MaskOf(b) <= MaskOf(c)
      BY <1>8, <2>2, <2>4, <3>1
    <3>3. MaskOf(c) = MaskOf(b)
      BY <1>2, <1>4, <3>1, <3>2
    <3>4. Combination(MaskOf(c)) = c /\ Combination(MaskOf(b)) = b
      BY <1>2, <3>2, Masked
    <3> QED
      BY <3>3, <3>4
  <2>7. Firsts = {b}
    BY <2>5, <2>6
  <2> QED
    BY <1>7, <1>11, <2>7 DEF Firsts, b
<1> QED
  BY <1>10, <1>11

-----------------------------------------------------------------------------
(* Each step keeps the invariant *)

\* Before the first step the loops have done nothing.
LEMMA PackingInit == PackingAssumption /\ Init => PackingInv
<1> SUFFICES ASSUME PackingAssumption, Init PROVE PackingInv
  OBVIOUS
<1>1. MaxLen \in Nat
  BY DEF PackingAssumption
<1>2. ArgsOK
  <2>1. \E n \in 0 .. MaxCount : items \in [1 .. n -> [len : Nat, price : Nat]]
    <3>1. CASE items \in SeqOf([len : Lens, price : MaxPrices], MaxCount)
      <4>1. [len : Lens, price : MaxPrices] \subseteq [len : Nat, price : Nat]
        BY DEF PackingAssumption
      <4> QED
        BY <3>1, <4>1 DEF SeqOf
    <3>2. CASE items \in SeqOf([len : Lens \ {0}, price : {10 * MaxLen}], MaxCount)
      <4>1. 10 * MaxLen \in Nat
        BY <1>1
      <4>2. [len : Lens \ {0}, price : {10 * MaxLen}] \subseteq [len : Nat, price : Nat]
        BY <4>1 DEF PackingAssumption
      <4> QED
        BY <3>2, <4>2 DEF SeqOf
    <3> QED
      BY <3>1, <3>2 DEF Init
  <2>2. items \in Seq([len : Nat, price : Nat])
    <3> DEFINE Item == [len : Nat, price : Nat]
    <3>1. PICK n \in 0 .. MaxCount : items \in [1 .. n -> Item]
      BY <2>1
    <3> HIDE DEF Item
    <3>2. items \in Seq(Item)
      BY <3>1 DEF PackingAssumption
    <3> QED
      BY <3>2 DEF Item
  <2>3. cost \in Nat \ {0}
    BY DEF Init, PackingAssumption
  <2> QED
    BY <2>2, <2>3 DEF ArgsOK
<1>3. Len(items) \in Nat
  BY <1>2, IndexesFinite
<1>4. Filling
  <2> SUFFICES ASSUME pc = "knapsack" PROVE Filling
    BY DEF Filling
  <2>1. cost = 1 /\ items \in SeqOf([len : Lens \ {0}, price : {10 * MaxLen}], MaxCount)
    BY DEF Init
  <2>2. threshold = 0 /\ row = 1 /\ col = MaxLen /\ sel = [w \in 0 .. MaxLen |-> <<>>]
    BY DEF Init
  <2>3. AllPay
    <3> SUFFICES ASSUME NEW i \in Indexes
                 PROVE  items[i].len > 0 /\ items[i].price = 10 * MaxLen
      BY <2>1, <2>2 DEF AllPay
    <3>1. items[i] \in [len : Lens \ {0}, price : {10 * MaxLen}]
      <4> DEFINE Item == [len : Lens \ {0}, price : {10 * MaxLen}]
      <4> HIDE DEF Item
      <4>1. PICK n \in 0 .. MaxCount : items \in [1 .. n -> Item]
        BY <2>1 DEF SeqOf, Item
      <4>2. items[i] \in Item
        BY <4>1 DEF Indexes
      <4> QED
        BY <4>2 DEF Item
    <3>2. items[i].len \in Lens \ {0} /\ items[i].price = 10 * MaxLen
      BY <3>1
    <3>3. items[i].len \in Nat
      BY <1>2, IndexesFinite
    <3> QED
      BY <3>2, <3>3
  <2>4. ASSUME NEW w \in 0 .. MaxLen PROVE BestOf(sel[w], Seen(w), w)
    <3>1. sel[w] = <<>> /\ Seen(w) = 0
      BY <1>1, <2>2 DEF Seen
    <3>2. <<>> \in Seq(1 .. 0) /\ IsInjective(<<>>) /\ Range(<<>>) = {} /\ <<>> \in Seq(Indexes)
      BY DEF IsInjective, Range
    <3>3. SeqLen(<<>>) = 0
      <4>1. 1 .. Len(<<>>) = {}
        OBVIOUS
      <4> QED
        BY <1>2, <3>2, <4>1, SeqLenIs, TotalEmpty
    <3>4. TotalLen({}) = 0 /\ MaskOf({}) \in Nat
      BY <1>2, LenEmpty, Masked
    <3>5. ASSUME NEW d \in SUBSET (1 .. 0) PROVE NoBetter(d, {})
      <4>1. d = {}
        OBVIOUS
      <4> QED
        BY <3>4, <4>1 DEF NoBetter
    <3>6. 0 <= w
      BY <1>1
    <3>7. BestOf(<<>>, 0, w)
      BY <3>2, <3>3, <3>4, <3>5, <3>6 DEF BestOf
    <3> QED
      BY <3>1, <3>7
  <2> QED
    BY <1>1, <1>3, <2>2, <2>3, <2>4 DEF Filling
<1>5. Starting /\ BruteForcing /\ Picking
  BY DEF Init, Starting, BruteForcing, Picking
<1>6. Selected /\ BruteForceOptimal /\ GreedyFills /\ KnapsackAgrees
  BY DEF Init, Selected, BruteForceOptimal, GreedyFills, KnapsackAgrees,
         ByBruteForce, ByGreedy, ByKnapsack
<1> QED
  BY <1>2, <1>4, <1>5, <1>6 DEF PackingInv

\* What depends on the arguments only is as before.
LEMMA SameArgs ==
    ASSUME UNCHANGED args
    PROVE  /\ ArgsOK' <=> ArgsOK
           /\ Indexes' = Indexes /\ Len(items)' = Len(items) /\ (Sorted' <=> Sorted)
           /\ \A c : TotalLen(c)' = TotalLen(c)
           /\ \A c : MaskOf(c)' = MaskOf(c)
           /\ \A c : Viable(c)' <=> Viable(c)
           /\ \A c : Covered(c)' <=> Covered(c)
           /\ \A m : Combination(m)' = Combination(m)
           /\ \A s, n, w : BestOf(s, n, w)' <=> BestOf(s, n, w)
           /\ AllViable' = AllViable /\ Longest' = Longest
<1>1. items' = items /\ cost' = cost
  BY DEF args
<1>2. /\ ArgsOK' <=> ArgsOK
      /\ Indexes' = Indexes /\ Len(items)' = Len(items) /\ (Sorted' <=> Sorted)
  BY <1>1 DEF ArgsOK, Indexes, Sorted
<1>3. \A c : TotalLen(c)' = TotalLen(c)
  BY <1>1 DEF TotalLen, MapThenSumSet, MapThenFoldSet
<1>4. \A c : MaskOf(c)' = MaskOf(c)
  BY DEF MaskOf, MapThenSumSet, MapThenFoldSet
<1>5. \A c : (Viable(c)' <=> Viable(c)) /\ (Covered(c)' <=> Covered(c))
  BY <1>1, <1>3 DEF Viable, Covered, LowestPrice
<1>6. \A m : Combination(m)' = Combination(m)
  BY <1>2 DEF Combination
<1>7. \A s, n, w : BestOf(s, n, w)' <=> BestOf(s, n, w)
  <2>1. \A s : SeqLen(s)' = SeqLen(s)
    BY <1>1 DEF SeqLen, FoldLeft, MapThenFoldSet
  <2>2. \A d, c : NoBetter(d, c)' <=> NoBetter(d, c)
    BY <1>3, <1>4 DEF NoBetter
  <2> QED
    BY <1>3, <2>1, <2>2 DEF BestOf
<1>8. AllViable' = AllViable /\ Longest' = Longest
  <2>1. AllViable' = AllViable
    BY <1>2, <1>5 DEF AllViable
  <2> QED
    BY <1>3, <2>1 DEF Longest
<1> QED
  BY <1>2, <1>3, <1>4, <1>5, <1>6, <1>7, <1>8

\* Returned: what holds once the packing has returned.
Returned == BruteForceOptimal /\ GreedyFills /\ KnapsackAgrees

\* Arguments are never written, nor anything once the packing has returned.
LEMMA PackingUnchanged == PackingInv /\ UNCHANGED vars => PackingInv'
<1> SUFFICES ASSUME PackingInv, UNCHANGED vars PROVE PackingInv'
  OBVIOUS
<1>1. UNCHANGED <<items, cost, pc, mask, best, threshold, row, col, sel, result>> /\ UNCHANGED args
  BY DEF vars, args
<1>2. ArgsOK'
  BY <1>1, SameArgs DEF PackingInv
<1>3. BruteForcing'
  <2>1. BruteForcing
    BY DEF PackingInv
  <2>2. (\A c : TotalLen(c)' = TotalLen(c)) /\ (\A c : Viable(c)' <=> Viable(c))
    BY <1>1, SameArgs
  <2>3. (\A m : Combination(m)' = Combination(m)) /\ Indexes' = Indexes /\ Len(items)' = Len(items)
    BY <1>1, SameArgs
  <2> QED
    BY <1>1, <2>1, <2>2, <2>3 DEF BruteForcing
<1>4. Picking'
  BY <1>1, SameArgs DEF PackingInv, Picking
<1>10. Starting'
  BY <1>1 DEF PackingInv, Starting
<1>5. Filling'
  <2>1. Filling
    BY DEF PackingInv
  <2>2. AllPay' <=> AllPay
    BY <1>1 DEF AllPay, Indexes
  <2>3. \A w : Seen(w)' = Seen(w)
    BY <1>1 DEF Seen
  <2>4. \A w : BestOf(sel[w], Seen(w), w)' <=> BestOf(sel[w], Seen(w), w)
    BY <1>1, <2>3, SameArgs
  <2> QED
    BY <1>1, <2>1, <2>2, <2>4, SameArgs DEF Filling
<1>6. Selected'
  BY <1>1, SameArgs DEF PackingInv, Selected
<1>7. BruteForceOptimal'
  BY <1>1, SameArgs DEF PackingInv, BruteForceOptimal, ByBruteForce, ByKnapsack
<1>8. GreedyFills'
  <2>1. GreedyFills
    BY DEF PackingInv
  <2>2. \A c : TotalLen(c)' = TotalLen(c) /\ (Covered(c)' <=> Covered(c))
    BY <1>1, SameArgs
  <2>3. Indexes' = Indexes
    BY <1>1, SameArgs
  <2> QED
    BY <1>1, <2>1, <2>2, <2>3 DEF GreedyFills, ByGreedy, ByKnapsack
<1>9. KnapsackAgrees'
  <2>1. KnapsackAgrees
    BY DEF PackingInv
  <2>2. (\A c : MaskOf(c)' = MaskOf(c)) /\ Longest' = Longest
    BY <1>1, SameArgs
  <2> QED
    BY <1>1, <2>1, <2>2 DEF KnapsackAgrees, ByKnapsack
<1> QED
  BY <1>2, <1>3, <1>4, <1>5, <1>6, <1>7, <1>8, <1>9, <1>10 DEF PackingInv

\* A loop other than that of the knapsack has a threshold, or has not yet returned.
LEMMA NotReturned ==
    ASSUME pc' \notin {"done"}
    PROVE  BruteForceOptimal' /\ GreedyFills' /\ KnapsackAgrees'
BY DEF BruteForceOptimal, GreedyFills, KnapsackAgrees, ByBruteForce, ByGreedy, ByKnapsack

\* The choice of the algorithm returns None for unsorted items only.
LEMMA PackItemsKeeps == PackingAssumption /\ PackingInv /\ PackItems => PackingInv'
<1> SUFFICES ASSUME PackingAssumption, PackingInv, PackItems PROVE PackingInv'
  OBVIOUS
<1>1. /\ UNCHANGED args /\ mask' = mask /\ best' = best /\ threshold' = cost
      /\ pc = "start" /\ pc' \in {"brute force", "greedy", "done"}
  BY DEF PackItems, Return
<1>2. ArgsOK /\ ArgsOK' /\ cost \in Nat \ {0} /\ cost' = cost
  BY <1>1, SameArgs DEF PackingInv, ArgsOK, args
<1>3. Starting' /\ Filling'
  BY <1>1 DEF Starting, Filling
<1>4. BruteForcing'
  <2> SUFFICES ASSUME pc' = "brute force" PROVE BruteForcing'
    BY DEF BruteForcing
  <2>1. Len(items) < BruteForceBelow
    BY DEF PackItems, Return
  <2>2. mask' = 0 /\ best' = {}
    BY <1>1 DEF PackingInv, Starting
  <2>3. Len(items)' = Len(items)
    BY <1>1, SameArgs
  <2>4. Len(items) \in Nat /\ 2^Len(items) \in Nat
    BY <1>2, IndexesFinite, TwoPower
  <2>5. 0 \in 0 .. 2^Len(items) /\ \A m \in Nat : ~(m < 0)
    <3> DEFINE n == 2^Len(items)
    <3>1. n \in Nat
      BY <2>4
    <3> HIDE DEF n
    <3>2. 0 \in 0 .. n /\ \A m \in Nat : ~(m < 0)
      BY ONLY <3>1
    <3> QED
      BY <3>2, Zenon DEF n
  <2> QED
    BY <1>1, <1>2, <2>1, <2>2, <2>3, <2>5 DEF BruteForcing
<1>5. Picking'
  <2> SUFFICES ASSUME pc' = "greedy" PROVE Picking'
    BY DEF Picking
  <2>1. Len(items) >= BruteForceBelow /\ Sorted
    BY DEF PackItems, Return
  <2> QED
    BY <1>1, <1>2, <2>1, SameArgs DEF Picking
<1>6. CASE pc' # "done"
  <2>1. result' = result
    BY <1>1, <1>6 DEF PackItems, Return
  <2>2. Selected'
    BY <1>1, <2>1, SameArgs DEF PackingInv, Selected
  <2> QED
    BY <1>2, <1>3, <1>4, <1>5, <1>6, <2>2, NotReturned DEF PackingInv
<1>7. CASE pc' = "done"
  <2>1. result' = {} /\ Len(items) >= BruteForceBelow
    BY <1>7 DEF PackItems, Return
  <2>2. Selected' /\ GreedyFills'
    BY <2>1 DEF Selected, GreedyFills
  <2>3. ~ByKnapsack'
    BY <1>1, <1>2 DEF ByKnapsack
  <2>4. ~ByBruteForce'
    <3>1. Len(items)' = Len(items) /\ Len(items) \in Nat
      BY <1>1, <1>2, SameArgs, IndexesFinite
    <3> QED
      BY <2>1, <3>1 DEF ByBruteForce, PackingAssumption
  <2>5. BruteForceOptimal' /\ KnapsackAgrees'
    BY <2>3, <2>4 DEF BruteForceOptimal, KnapsackAgrees
  <2> QED
    BY <1>2, <1>3, <1>4, <1>5, <2>2, <2>5 DEF PackingInv
<1> QED
  BY <1>6, <1>7

\* A mask is left behind with its combination compared to the best.
LEMMA BruteForceStepKeeps == PackingAssumption /\ PackingInv /\ BruteForceStep => PackingInv'
<1> SUFFICES ASSUME PackingAssumption, PackingInv, BruteForceStep PROVE PackingInv'
  OBVIOUS
<1>1. /\ UNCHANGED args /\ pc = "brute force" /\ pc' = pc /\ result' = result
      /\ threshold' = threshold /\ mask < 2^Len(items)
      /\ best' = IF Better(Combination(mask)) THEN Combination(mask) ELSE best
      /\ mask' = IF TotalLen(best') = MaxLen THEN 2^Len(items) ELSE mask + 1
  BY DEF BruteForceStep
<1>2. ArgsOK /\ ArgsOK' /\ cost' = cost
  BY <1>1, SameArgs DEF PackingInv, args
<1>3. Starting' /\ Filling' /\ Picking'
  BY <1>1 DEF Starting, Filling, Picking
<1>4. Selected'
  BY <1>1, SameArgs DEF PackingInv, Selected
<1>5. /\ Len(items) < BruteForceBelow /\ threshold = cost
      /\ mask \in 0 .. 2^Len(items)
      /\ best \in SUBSET Indexes /\ (best = {} \/ Viable(best))
      /\ \A m \in Nat : m < mask /\ Viable(Combination(m)) =>
                          TotalLen(Combination(m)) <= TotalLen(best)
  BY <1>1 DEF PackingInv, BruteForcing
<1>6. Len(items) \in Nat /\ 2^Len(items) \in Nat /\ MaxLen \in Nat
  BY <1>2, IndexesFinite, TwoPower DEF PackingAssumption
<1> DEFINE new == Combination(mask)
           b == IF Better(new) THEN new ELSE best
<1>7. \A m : Combination(m) \in SUBSET Indexes
  BY DEF Combination
<1>8. \A c \in SUBSET Indexes : TotalLen(c) \in Nat
  BY <1>2, LenType
<1>9. b \in SUBSET Indexes /\ (b = {} \/ Viable(b))
  BY <1>5, <1>7 DEF Better
<1>10. TotalLen(best) <= TotalLen(b) /\ (Viable(new) => TotalLen(new) <= TotalLen(b))
  <2>1. TotalLen(best) \in Nat /\ TotalLen(new) \in Nat
    BY <1>5, <1>7, <1>8
  <2>2. CASE Better(new)
    <3>1. b = new /\ TotalLen(new) > TotalLen(best)
      BY <2>2 DEF Better
    <3> HIDE DEF b, new
    <3> QED
      BY <2>1, <3>1
  <2>3. CASE ~Better(new)
    <3>1. b = best /\ (Viable(new) => ~(TotalLen(new) > TotalLen(best)))
      BY <2>3 DEF Better
    <3> HIDE DEF b, new
    <3> QED
      BY <2>1, <3>1
  <2> QED
    BY <2>2, <2>3
<1>11. best' = b /\ TotalLen(best') = TotalLen(b) /\ TotalLen(best)' = TotalLen(b)
  <2>1. best' = b
    BY <1>1
  <2>2. \A c : TotalLen(c)' = TotalLen(c)
    BY <1>1, SameArgs
  <2> HIDE DEF b
  <2> QED
    BY <2>1, <2>2
<1> DEFINE n == IF TotalLen(b) = MaxLen THEN 2^Len(items) ELSE mask + 1
<1>12. mask' = n
  <2> HIDE DEF b
  <2> QED
    BY <1>1, <1>11, Zenon
<1>13. n \in 0 .. 2^Len(items)
  <2> DEFINE N == 2^Len(items)
  <2>1. N \in Nat /\ mask \in 0 .. N /\ mask < N
    BY <1>1, <1>5, <1>6
  <2>2. n = IF TotalLen(b) = MaxLen THEN N ELSE mask + 1
    OBVIOUS
  <2> HIDE DEF N, n, b
  <2>3. n \in 0 .. N
    BY <2>1, <2>2
  <2> QED
    BY <2>3 DEF N
<1>14. ASSUME NEW m \in Nat, m < n, Viable(Combination(m))
       PROVE  TotalLen(Combination(m)) <= TotalLen(b)
  <2>1. TotalLen(Combination(m)) \in Nat /\ TotalLen(Combination(m)) <= MaxLen
    BY <1>6, <1>14 DEF Viable
  <2>2. TotalLen(b) \in Nat /\ TotalLen(best) \in Nat
    BY <1>5, <1>8, <1>9
  <2>3. CASE TotalLen(b) = MaxLen
    BY <2>1, <2>3
  <2>4. CASE TotalLen(b) # MaxLen /\ m < mask
    <3>1. TotalLen(Combination(m)) <= TotalLen(best)
      BY <1>5, <1>14, <2>4
    <3> HIDE DEF b
    <3> QED
      BY <1>10, <2>1, <2>2, <3>1
  <2>5. CASE TotalLen(b) # MaxLen /\ ~(m < mask)
    <3>1. m = mask
      BY <1>5, <1>6, <1>14, <2>5
    <3> QED
      BY <1>10, <1>14, <3>1
  <2> QED
    BY <2>3, <2>4, <2>5
<1> HIDE DEF b, n
<1>15. BruteForcing'
  <2>1. (\A c : TotalLen(c)' = TotalLen(c)) /\ (\A c : Viable(c)' <=> Viable(c))
    BY <1>1, SameArgs
  <2>2. (\A m : Combination(m)' = Combination(m)) /\ Indexes' = Indexes /\ Len(items)' = Len(items)
    BY <1>1, SameArgs
  <2> QED
    BY <1>1, <1>2, <1>5, <1>9, <1>11, <1>12, <1>13, <1>14, <2>1, <2>2 DEF BruteForcing
<1> QED
  BY <1>1, <1>2, <1>3, <1>4, <1>15, NotReturned DEF PackingInv

\* All masks have been compared, or the best cannot be exceeded.
LEMMA BruteForceReturnsKeeps == PackingAssumption /\ PackingInv /\ BruteForceReturns => PackingInv'
<1> SUFFICES ASSUME PackingAssumption, PackingInv, BruteForceReturns PROVE PackingInv'
  OBVIOUS
<1>1. /\ UNCHANGED args /\ pc = "brute force" /\ pc' = "done"
      /\ result' = IF best = {} THEN {} ELSE {best}
      /\ threshold' = threshold /\ mask = 2^Len(items)
  BY DEF BruteForceReturns, Return
<1>2. ArgsOK /\ ArgsOK'
  BY <1>1, SameArgs DEF PackingInv
<1>3. Starting' /\ BruteForcing' /\ Filling' /\ Picking'
  BY <1>1 DEF Starting, BruteForcing, Filling, Picking
<1>4. /\ Len(items) < BruteForceBelow /\ threshold = cost
      /\ best \in SUBSET Indexes /\ (best = {} \/ Viable(best))
      /\ \A m \in Nat : m < mask /\ Viable(Combination(m)) =>
                          TotalLen(Combination(m)) <= TotalLen(best)
  BY <1>1 DEF PackingInv, BruteForcing
<1>5. ASSUME NEW c \in SUBSET Indexes, Viable(c) PROVE TotalLen(c) <= TotalLen(best)
  <2>1. MaskOf(c) \in Nat /\ MaskOf(c) < mask /\ Combination(MaskOf(c)) = c
    BY <1>1, <1>2, Masked
  <2> QED
    BY <1>4, <1>5, <2>1
<1>6. Selected'
  <2>1. \A c \in result' : c \in SUBSET Indexes /\ Viable(c)
    BY <1>1, <1>4
  <2> QED
    BY <1>1, <2>1, SameArgs DEF Selected
<1>7. threshold' # 0
  BY <1>1, <1>2, <1>4 DEF ArgsOK
<1>8. ~ByKnapsack' /\ ~ByGreedy'
  <2>1. Len(items)' = Len(items) /\ Len(items) \in Nat
    BY <1>1, <1>2, SameArgs, IndexesFinite
  <2> QED
    BY <1>4, <1>7, <2>1 DEF ByKnapsack, ByGreedy, PackingAssumption
<1>9. IF AllViable = {} THEN result' = {} ELSE \E c \in Longest : result' = {c}
  <2>1. CASE best = {}
    <3>1. AllViable = {}
      <4> SUFFICES ASSUME NEW c \in SUBSET Indexes, Viable(c) PROVE FALSE
        BY DEF AllViable
      <4>1. TotalLen(c) <= TotalLen(best)
        BY <1>5
      <4>2. TotalLen(c) \in 1 .. MaxLen
        BY DEF Viable
      <4>3. TotalLen(best) = 0
        <5>1. TotalLen({}) = 0
          BY <1>2, LenEmpty
        <5> QED
          BY <2>1, <5>1, Zenon
      <4>4. MaxLen \in Nat
        BY DEF PackingAssumption
      <4> QED
        BY <4>1, <4>2, <4>3, <4>4
    <3> QED
      BY <1>1, <2>1, <3>1
  <2>2. CASE best # {}
    <3>1. best \in Longest
      BY <1>4, <1>5, <2>2 DEF Longest, AllViable
    <3>2. AllViable # {}
      BY <3>1 DEF Longest
    <3> QED
      BY <1>1, <2>2, <3>1, <3>2
  <2> QED
    BY <2>1, <2>2
<1>10. BruteForceOptimal'
  <2>1. AllViable' = AllViable /\ Longest' = Longest
    BY <1>1, SameArgs
  <2> QED
    BY <1>9, <2>1 DEF BruteForceOptimal
<1>11. GreedyFills' /\ KnapsackAgrees'
  BY <1>8 DEF GreedyFills, KnapsackAgrees
<1> QED
  BY <1>2, <1>3, <1>6, <1>10, <1>11 DEF PackingInv

\* A selection is returned if it covers the blob, otherwise the threshold is raised.
LEMMA GreedyStepKeeps == PackingAssumption /\ PackingInv /\ GreedyStep => PackingInv'
<1> SUFFICES ASSUME PackingAssumption, PackingInv, GreedyStep PROVE PackingInv'
  OBVIOUS
<1> DEFINE c == Picked(threshold)
<1>1. /\ UNCHANGED args /\ pc = "greedy"
      /\ \/ pc' = "done" /\ result' = {} /\ threshold' = threshold
         \/ /\ TotalLen(c) > 0 /\ Covered(c) /\ threshold' = threshold
            /\ pc' = "done" /\ result' = {c}
         \/ threshold' = Raised(threshold) /\ pc' = pc /\ result' = result
  BY DEF GreedyStep, Return
<1>2. ArgsOK /\ ArgsOK'
  BY <1>1, SameArgs DEF PackingInv
<1>3. Len(items) >= BruteForceBelow /\ Sorted /\ threshold \in Nat \ {0}
  BY <1>1 DEF PackingInv, Picking
<1>4. Starting' /\ BruteForcing' /\ Filling'
  BY <1>1 DEF Starting, BruteForcing, Filling
<1>5. Raised(threshold) \in Nat \ {0}
  BY <1>3 DEF Raised
<1>6. Picking'
  <2>1. threshold' \in Nat \ {0}
    BY <1>1, <1>3, <1>5
  <2>2. Len(items)' = Len(items) /\ (Sorted' <=> Sorted)
    BY <1>1, SameArgs
  <2> QED
    BY <1>3, <2>1, <2>2 DEF Picking
<1>7. /\ c \in SUBSET Indexes /\ TotalLen(c) <= MaxLen
      /\ \A i \in Indexes \ c : items[i].price >= threshold => TotalLen(c \union {i}) > MaxLen
  BY <1>2, <1>3, PickedFits
<1>8. TotalLen(c) \in Nat /\ MaxLen \in Nat
  BY <1>2, <1>7, LenType DEF PackingAssumption
<1> HIDE DEF c
<1>9. CASE pc' = "greedy"
  <2>1. result' = result
    BY <1>1, <1>9
  <2>2. Selected'
    BY <1>1, <2>1, SameArgs DEF PackingInv, Selected
  <2> QED
    BY <1>2, <1>4, <1>6, <1>9, <2>2, NotReturned DEF PackingInv
<1>10. CASE pc' = "done"
  <2>1. threshold' = threshold /\ threshold' # 0
    BY <1>1, <1>3, <1>10
  <2>2. ~ByKnapsack' /\ ~ByBruteForce'
    <3>1. Len(items)' = Len(items) /\ Len(items) \in Nat
      BY <1>1, <1>2, SameArgs, IndexesFinite
    <3> QED
      BY <1>3, <2>1, <3>1 DEF ByKnapsack, ByBruteForce, PackingAssumption
  <2>3. BruteForceOptimal' /\ KnapsackAgrees'
    BY <2>2 DEF BruteForceOptimal, KnapsackAgrees
  <2>4. \A d \in result' : d = c /\ TotalLen(c) > 0 /\ Covered(c)
    BY <1>1, <1>10
  <2>5. Selected'
    <3>1. \A d \in result' : d \in SUBSET Indexes /\ Viable(d)
      <4> SUFFICES ASSUME NEW d \in result' PROVE c \in SUBSET Indexes /\ Viable(c)
        BY <2>4
      <4>1. TotalLen(c) \in 1 .. MaxLen /\ Covered(c)
        BY <1>7, <1>8, <2>4
      <4> QED
        BY <1>2, <1>7, <4>1, CoveredViable
    <3> QED
      BY <1>1, <3>1, SameArgs DEF Selected
  <2>6. GreedyFills'
    <3>1. (\A d : TotalLen(d)' = TotalLen(d)) /\ (\A d : Covered(d)' <=> Covered(d)) /\ Indexes' = Indexes
      BY <1>1, SameArgs
    <3>2. items' = items /\ threshold' = threshold
      BY <1>1, <2>1 DEF args
    <3>3. \A d \in result' :
            /\ TotalLen(d) \in 1 .. MaxLen /\ Covered(d)
            /\ \A i \in Indexes \ d :
                 items[i].price >= threshold => TotalLen(d \union {i}) > MaxLen
      BY <1>7, <1>8, <2>4
    <3> QED
      BY <3>1, <3>2, <3>3 DEF GreedyFills
  <2> QED
    BY <1>2, <1>4, <1>6, <2>3, <2>5, <2>6 DEF PackingInv
<1> QED
  BY <1>1, <1>9, <1>10

\* A cell is compared to its row without the item: weights descend.
LEMMA KnapsackStepKeeps == PackingAssumption /\ PackingInv /\ KnapsackStep => PackingInv'
<1> SUFFICES ASSUME PackingAssumption, PackingInv, KnapsackStep PROVE PackingInv'
  OBVIOUS
<1>1. /\ UNCHANGED args /\ pc = "knapsack" /\ pc' = pc /\ threshold' = threshold /\ result' = result
      /\ row <= Len(items)
  BY DEF KnapsackStep
<1>2. ArgsOK /\ ArgsOK' /\ MaxLen \in Nat \ {0} /\ Len(items) \in Nat /\ Indexes = 1 .. Len(items)
  BY <1>1, SameArgs, IndexesFinite DEF PackingInv, PackingAssumption
<1>3. /\ AllPay
      /\ row \in 1 .. Len(items) + 1 /\ col \in 0 .. MaxLen
      /\ DOMAIN sel = 0 .. MaxLen
      /\ \A w \in 0 .. MaxLen : BestOf(sel[w], Seen(w), w)
  BY <1>1 DEF PackingInv, Filling
<1> DEFINE l == items[row].len
           new == IF l <= col /\ SeqLen(Adding(col)) > SeqLen(sel[col]) THEN Adding(col) ELSE sel[col]
<1>4. row \in Indexes /\ l \in Nat /\ l > 0
  <2>1. row \in Indexes
    BY <1>1, <1>2, <1>3
  <2> QED
    BY <1>2, <1>3, <2>1, IndexesFinite DEF AllPay
<1>5. DOMAIN sel' = 0 .. MaxLen /\ sel'[col] = new /\ \A w \in (0 .. MaxLen) \ {col} : sel'[w] = sel[w]
  BY <1>3 DEF KnapsackStep
<1> HIDE DEF l
<1>6. BestOf(sel[col], row - 1, col) /\ col \in Nat
  <2>1. Seen(col) = row - 1 /\ col \in Nat
    BY <1>2, <1>3 DEF Seen
  <2>2. BestOf(sel[col], Seen(col), col)
    BY <1>3
  <2> QED
    BY <2>1, <2>2
<1>7. BestOf(new, row, col)
  <2> DEFINE u == sel[col - l]
  <2>1. ASSUME l <= col
        PROVE  /\ BestOf(u, row - 1, col - l)
               /\ Adding(col) = Append(u, row) /\ SeqLen(Adding(col)) = SeqLen(u) + l
               /\ SeqLen(u) \in Nat /\ SeqLen(sel[col]) \in Nat
    <3>1. col - l \in 0 .. MaxLen /\ ~(col - l > col)
      BY <1>2, <1>3, <1>4, <2>1
    <3>2. BestOf(sel[col - l], Seen(col - l), col - l) /\ Seen(col - l) = row - 1
      BY <1>3, <3>1 DEF Seen
    <3>3. BestOf(u, row - 1, col - l)
      BY <3>2
    <3>4. Adding(col) = Append(u, row)
      BY DEF Adding, l
    <3> DEFINE S == 1 .. row - 1
    <3>5. S \subseteq Indexes /\ row \in Indexes
      BY <1>2, <1>3, <1>4
    <3>6. u \in Seq(S) /\ SeqLen(u) = TotalLen(Range(u))
      BY <3>3 DEF BestOf
    <3>7. sel[col] \in Seq(S) /\ SeqLen(sel[col]) = TotalLen(Range(sel[col]))
      BY <1>6 DEF BestOf
    <3> HIDE DEF S, u
    <3>8. u \in Seq(Indexes) /\ Range(u) \subseteq Indexes
      BY <3>5, <3>6, AppendFacts
    <3>9. SeqLen(Append(u, row)) = SeqLen(u) + l
      BY <1>2, <1>4, <3>8, SeqLenAppend DEF l
    <3>10. Range(sel[col]) \subseteq Indexes
      BY <3>5, <3>7, AppendFacts
    <3>11. TotalLen(Range(u)) \in Nat /\ TotalLen(Range(sel[col])) \in Nat
      BY <1>2, <3>8, <3>10, LenType
    <3> QED
      BY <3>3, <3>4, <3>6, <3>7, <3>9, <3>11
  <2> HIDE DEF u
  <2>2. CASE l <= col /\ SeqLen(Adding(col)) > SeqLen(sel[col])
    <3>1. SeqLen(u) + l > SeqLen(sel[col]) /\ BestOf(u, row - 1, col - l) /\ l <= col
      BY <2>1, <2>2
    <3>2. BestOf(Append(u, row), row, col)
      BY <1>2, <1>4, <1>6, <3>1, Replaced DEF l
    <3>3. new = Append(u, row)
      BY <2>1, <2>2
    <3> QED
      BY <3>2, <3>3
  <2>3. CASE ~(l <= col /\ SeqLen(Adding(col)) > SeqLen(sel[col]))
    <3>1. ASSUME l <= col
          PROVE  BestOf(u, row - 1, col - l) /\ SeqLen(u) + l <= SeqLen(sel[col])
      <4>1. SeqLen(Adding(col)) = SeqLen(u) + l /\ SeqLen(u) \in Nat /\ SeqLen(sel[col]) \in Nat
        BY <2>1, <3>1
      <4>2. ~(SeqLen(u) + l > SeqLen(sel[col]))
        BY <2>3, <3>1, <4>1
      <4>3. SeqLen(u) + l <= SeqLen(sel[col])
        BY ONLY <1>4, <4>1, <4>2
      <4> QED
        BY <2>1, <3>1, <4>3
    <3>2. BestOf(sel[col], row, col)
      BY <1>2, <1>4, <1>6, <3>1, Kept DEF l
    <3>3. new = sel[col]
      BY <2>3
    <3> QED
      BY <3>2, <3>3
  <2> QED
    BY <2>2, <2>3
<1> HIDE DEF new
<1> DEFINE NewSeen(w) == IF w > col' THEN row' ELSE row' - 1
<1>8. /\ row' \in 1 .. Len(items) + 1 /\ col' \in 0 .. MaxLen
      /\ row' = Len(items) + 1 => col' = MaxLen
      /\ NewSeen(col) = row /\ \A w \in (0 .. MaxLen) \ {col} : NewSeen(w) = Seen(w)
  <2>1. CASE col > 0
    <3>1. row' = row /\ col' = col - 1
      BY <2>1 DEF KnapsackStep, NextCell
    <3> QED
      BY <1>1, <1>2, <1>3, <2>1, <3>1 DEF Seen
  <2>2. CASE ~(col > 0)
    <3>1. row' = row + 1 /\ col' = MaxLen
      BY <2>2 DEF KnapsackStep, NextCell
    <3>2. col = 0
      BY <1>2, <1>3, <2>2
    <3> QED
      BY <1>1, <1>2, <1>3, <3>1, <3>2 DEF Seen
  <2> QED
    BY <2>1, <2>2
<1>9. ASSUME NEW w \in 0 .. MaxLen PROVE BestOf(sel'[w], NewSeen(w), w)
  <2> HIDE DEF NewSeen
  <2>1. CASE w = col
    BY <1>5, <1>7, <1>8, <2>1
  <2>2. CASE w # col
    BY <1>3, <1>5, <1>8, <2>2
  <2> QED
    BY <2>1, <2>2
<1>10. Filling'
  <2>1. AllPay'
    BY <1>1, <1>3 DEF AllPay, args, Indexes
  <2>2. Len(items)' = Len(items)
    BY <1>1, SameArgs
  <2>3. \A s, n, w : BestOf(s, n, w)' <=> BestOf(s, n, w)
    BY <1>1, SameArgs
  <2>4. \A w : Seen(w)' = NewSeen(w)
    BY DEF Seen
  <2> HIDE DEF NewSeen
  <2>5. \A w \in 0 .. MaxLen : BestOf(sel[w], Seen(w), w)'
    BY <1>9, <2>3, <2>4
  <2> QED
    BY <1>5, <1>8, <2>1, <2>2, <2>5 DEF Filling
<1>11. Starting' /\ BruteForcing' /\ Picking'
  BY <1>1 DEF Starting, BruteForcing, Picking
<1>12. Selected'
  BY <1>1, SameArgs DEF PackingInv, Selected
<1> QED
  BY <1>1, <1>2, <1>10, <1>11, <1>12, NotReturned DEF PackingInv

\* The last cell has seen all items.
LEMMA KnapsackReturnsKeeps == PackingAssumption /\ PackingInv /\ KnapsackReturns => PackingInv'
<1> SUFFICES ASSUME PackingAssumption, PackingInv, KnapsackReturns PROVE PackingInv'
  OBVIOUS
<1>1. /\ UNCHANGED args /\ pc = "knapsack" /\ pc' = "done" /\ row > Len(items)
      /\ result' = IF sel[MaxLen] = <<>> THEN {} ELSE {Range(sel[MaxLen])}
      /\ threshold' = threshold /\ sel' = sel
  BY DEF KnapsackReturns, Return
<1>2. ArgsOK /\ ArgsOK' /\ MaxLen \in Nat \ {0} /\ Len(items) \in Nat
  BY <1>1, SameArgs, IndexesFinite DEF PackingInv, PackingAssumption
<1>3. /\ AllPay
      /\ row \in 1 .. Len(items) + 1 /\ col \in 0 .. MaxLen
      /\ row = Len(items) + 1 => col = MaxLen
      /\ \A w \in 0 .. MaxLen : BestOf(sel[w], Seen(w), w)
  BY <1>1 DEF PackingInv, Filling
<1>4. row = Len(items) + 1
  BY <1>1, <1>2, <1>3
<1>5. BestOf(sel[MaxLen], Len(items), MaxLen)
  <2>1. Seen(MaxLen) = Len(items) /\ MaxLen \in 0 .. MaxLen
    BY <1>2, <1>3, <1>4 DEF Seen
  <2> QED
    BY <1>3, <2>1
<1>6. result' = {c \in Longest : \A d \in Longest : MaskOf(c) <= MaskOf(d)}
  BY <1>1, <1>2, <1>3, <1>5, BestIsLongest
<1>7. threshold' = 0
  BY <1>1, <1>3 DEF AllPay
<1>8. KnapsackAgrees'
  <2>1. (\A c : MaskOf(c)' = MaskOf(c)) /\ Longest' = Longest
    BY <1>1, SameArgs
  <2>2. IsInjective(sel[MaxLen])
    BY <1>5 DEF BestOf
  <2> QED
    BY <1>1, <1>6, <2>1, <2>2 DEF KnapsackAgrees
<1>9. BruteForceOptimal' /\ GreedyFills'
  BY <1>1, <1>7 DEF BruteForceOptimal, GreedyFills, ByBruteForce, ByGreedy, ByKnapsack
<1>10. Selected'
  <2>1. \A c \in result' : c \in SUBSET Indexes /\ Viable(c)
    BY <1>6 DEF Longest, AllViable
  <2> QED
    BY <1>1, <2>1, SameArgs DEF Selected
<1>11. Starting' /\ BruteForcing' /\ Picking' /\ Filling'
  BY <1>1 DEF Starting, BruteForcing, Picking, Filling
<1> QED
  BY <1>2, <1>8, <1>9, <1>10, <1>11 DEF PackingInv

\* PackingCorrect: the parts of the invariant hold in every state.
THEOREM PackingCorrect == Spec => []PackingInv
<1>1. Init => PackingInv
  BY PackingAssumption, PackingInit
<1>2. PackingInv /\ [Next]_vars => PackingInv'
  BY PackingAssumption, PackItemsKeeps, BruteForceStepKeeps, BruteForceReturnsKeeps,
     GreedyStepKeeps, KnapsackStepKeeps, KnapsackReturnsKeeps, PackingUnchanged DEF Next
<1> QED
  BY <1>1, <1>2, PTL DEF Spec

\* PackingOptimal: brute force returns a viable combination that none exceeds in length.
THEOREM PackingOptimal == Spec => []BruteForceOptimal
<1>1. PackingInv => BruteForceOptimal
  BY DEF PackingInv
<1> QED
  BY <1>1, PackingCorrect, PTL

\* PackingKnapsack: the dynamic program selects what brute force selects.
THEOREM PackingKnapsack == Spec => []KnapsackAgrees
<1>1. PackingInv => KnapsackAgrees
  BY DEF PackingInv
<1> QED
  BY <1>1, PackingCorrect, PTL

\* PackingGreedy: what greedy selects fits, pays, and leaves no room.
THEOREM PackingGreedy == Spec => []GreedyFills
<1>1. PackingInv => GreedyFills
  BY DEF PackingInv
<1> QED
  BY <1>1, PackingCorrect, PTL

\* PackingPaid: the items of a selection are charged the whole blob between them.
THEOREM PackingPaid == Spec => []BlobPaid
<1>1. PackingInv => BlobPaid
  <2> SUFFICES ASSUME PackingInv, NEW c \in result
               PROVE  LET paid == MapThenSumSet(LAMBDA i : BlobDataCost(i, c), c)
                      IN  paid <= BlobLen * cost /\ paid > (BlobLen - Cardinality(c)) * cost
    BY DEF BlobPaid
  <2>1. ArgsOK /\ c \in SUBSET Indexes /\ Viable(c)
    BY DEF PackingInv, Selected
  <2>2. MapThenSumSet(LAMBDA i : BlobDataCost(i, c), c) = Total(CostOf(c), c)
    BY <2>1, PaidIs
  <2>3. /\ Total(CostOf(c), c) <= BlobLen * cost
        /\ Total(CostOf(c), c) > (BlobLen - Cardinality(c)) * cost
    BY <2>1, PackingAssumption, ViablePays
  <2> QED
    BY <2>2, <2>3
<1> QED
  BY <1>1, PackingCorrect, PTL

\* PackingNearMax: no item is charged more than its highest price allows.
THEOREM PackingNearMax == Spec => []ChargeNearMax
<1>1. PackingInv => ChargeNearMax
  <2> SUFFICES ASSUME PackingInv, NEW c \in result, NEW i \in c
               PROVE  BlobDataCost(i, c) * MaxLen <= BlobLen * items[i].len * (items[i].price + 1)
    BY DEF ChargeNearMax
  <2>1. ArgsOK /\ c \in SUBSET Indexes /\ Viable(c)
    BY DEF PackingInv, Selected
  <2> QED
    BY <2>1, PackingAssumption, ViableNearMax
<1> QED
  BY <1>1, PackingCorrect, PTL
===============================================================================
