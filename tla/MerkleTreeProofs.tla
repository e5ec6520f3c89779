-------------------------- MODULE MerkleTreeProofs --------------------------
(***************************************************************************)
(* What the algorithms of MerkleTree compute, for trees of every size.     *)
(*                                                                         *)
(* The recursive definitions are functions on ranges of leaves.  One part  *)
(* shows that such functions exist, so that the definitions are what they  *)
(* say.  The theorems then follow by going down from a range to its parts: *)
(* a claim that fails for some range fails for a smallest one              *)
(* (LeastNatural), and that one has smaller parts.  The first parts, about *)
(* natural numbers, ranks in a set and powers of two, serve other proofs   *)
(* too.                                                                    *)
(***************************************************************************)
EXTENDS MerkleTree, FiniteSets, WellFoundedInduction, FiniteSetTheorems, TLAPS

-----------------------------------------------------------------------------
(* Facts about sets of natural numbers.  LeastNatural stands in for        *)
(* induction: to show something of every natural number, take the least    *)
(* one of which it does not hold.                                          *)

\* A set of natural numbers that is not empty has a least element.
LEMMA LeastNatural ==
    ASSUME NEW T, T \subseteq Nat, T # {}
    PROVE  \E m \in T : \A n \in T : m <= n
<1>1. \E x \in T : \A y \in T : ~ (<<y, x>> \in OpToRel(<, Nat))
  BY NatLessThanWellFounded, WFMin
<1>2. PICK x \in T : \A y \in T : ~ (<<y, x>> \in OpToRel(<, Nat))
  BY <1>1
<1>3. ASSUME NEW y \in T PROVE x <= y
  <2>1. x \in Nat /\ y \in Nat
    OBVIOUS
  <2>2. ~ (<<y, x>> \in OpToRel(<, Nat))
    BY <1>2
  <2>3. ~ (y < x)
    BY <2>1, <2>2 DEF OpToRel
  <2> QED
    BY <2>1, <2>3
<1> QED
  BY <1>3

\* A bounded one has a greatest element.
LEMMA GreatestNatural ==
    ASSUME NEW n \in Nat, NEW S, S \subseteq 0..n, S # {}
    PROVE  \E m \in S : \A k \in S : k <= m
<1> DEFINE T == {n - k : k \in S}
<1>0. T \subseteq Nat
  OBVIOUS
<1>1. T # {}
  <2>1. PICK k \in S : TRUE
    OBVIOUS
  <2>2. n - k \in T
    OBVIOUS
  <2> QED
    BY <2>2
<1>2. PICK t \in T : \A u \in T : t <= u
  <2> HIDE DEF T
  <2> QED BY <1>0, <1>1, LeastNatural
<1>3. PICK m \in S : t = n - m
  OBVIOUS
<1>4. ASSUME NEW k \in S PROVE k <= m
  <2>1. n - k \in T
    OBVIOUS
  <2>2. t <= n - k
    BY <1>2, <2>1
  <2>3. k \in Int /\ m \in Int
    OBVIOUS
  <2> QED
    BY <2>2, <2>3, <1>3
<1> QED
  BY <1>4

\* A bounded set of natural numbers is finite, and so are its parts.
LEMMA BoundedFinite ==
    ASSUME NEW n \in Nat, NEW S, S \subseteq 0..n
    PROVE  IsFiniteSet(S) /\ Cardinality(S) \in Nat
<1>1. IsFiniteSet(0..n)
  BY FS_Interval
<1>2. IsFiniteSet(S)
  BY <1>1, FS_Subset
<1> QED
  BY <1>2, FS_CardinalityType

\* How many elements of S are not greater than c.
Rank(S, c) == Cardinality({d \in S : d <= c})

\* The ranks in a set of n elements are 1, ..., n.
LEMMA RankExists ==
    ASSUME NEW b \in Nat, NEW S, S \subseteq 0..b, NEW n \in 1..Cardinality(S)
    PROVE  \E c \in S : Rank(S, c) = n
<1> DEFINE A == {c \in S : Rank(S, c) >= n}
<1>0. \A c \in S : c \in Nat
  OBVIOUS
<1>1. Cardinality(S) \in Nat /\ n \in Nat /\ \A c : Rank(S, c) \in Nat
  <2>1. Cardinality(S) \in Nat
    BY BoundedFinite
  <2>2. ASSUME NEW c PROVE Rank(S, c) \in Nat
    <3>1. {d \in S : d <= c} \subseteq 0..b
      OBVIOUS
    <3> QED
      BY <3>1, BoundedFinite DEF Rank
  <2> QED
    BY <2>1, <2>2
<1>2. S # {}
  BY <1>1, FS_EmptySet
<1>3. PICK top \in S : \A k \in S : k <= top
  BY <1>2, GreatestNatural
<1>4. {d \in S : d <= top} = S
  BY <1>3
<1>5. top \in A
  BY <1>1, <1>4 DEF Rank
<1>6. A \subseteq Nat
  BY <1>0
<1>7. PICK m \in A : \A k \in A : m <= k
  <2> HIDE DEF A
  <2> QED
    BY <1>5, <1>6, LeastNatural
<1>8. m \in S /\ m \in Nat /\ Rank(S, m) >= n
  OBVIOUS
<1>9. CASE Rank(S, m) > n
  <2> DEFINE Below == {d \in S : d < m}
             UpTo  == {d \in S : d <= m}
  <2>1. IsFiniteSet(UpTo) /\ m \in UpTo /\ Below = UpTo \ {m}
    <3>1. UpTo \subseteq 0..b
      OBVIOUS
    <3>2. IsFiniteSet(UpTo)
      BY <3>1, BoundedFinite
    <3>3. Below = UpTo \ {m}
      <4>1. \A d \in S : d < m <=> d <= m /\ d # m
        BY <1>0, <1>8
      <4> QED
        BY <4>1
    <3> QED
      BY <1>8, <3>2, <3>3
  <2>2. Cardinality(Below) = Rank(S, m) - 1
    <3> HIDE DEF Below, UpTo
    <3>1. Cardinality(UpTo \ {m}) = Cardinality(UpTo) - 1
      BY <2>1, FS_RemoveElement
    <3> QED
      BY <2>1, <3>1 DEF Rank, UpTo
  <2>3. Cardinality(Below) >= n /\ n >= 1
    BY <1>1, <1>9, <2>2
  <2>4. Below # {} /\ Below \subseteq 0..b
    <3>1. Below \subseteq 0..b
      OBVIOUS
    <3>2. Below # {}
      <4> HIDE DEF Below
      <4> QED
        BY <1>1, <2>3, FS_EmptySet
    <3> QED
      BY <3>1, <3>2
  <2>5. PICK p \in Below : \A k \in Below : k <= p
    <3> HIDE DEF Below
    <3> QED
      BY <2>4, GreatestNatural
  <2>6. {d \in S : d <= p} = Below
    <3>1. ASSUME NEW d \in S PROVE d <= p <=> d < m
      <4>1. p \in Nat /\ d \in Nat /\ m \in Nat /\ p < m
        BY <1>0, <1>8
      <4>2. d < m => d <= p
        BY <2>5
      <4> QED
        BY <4>1, <4>2
    <3> QED
      BY <3>1
  <2>7. Rank(S, p) >= n /\ p \in S /\ p < m
    BY <2>3, <2>5, <2>6 DEF Rank
  <2>8. p \in A
    BY <2>7
  <2>9. m <= p
    <3> HIDE DEF A
    <3> QED
      BY <1>7, <2>8
  <2> QED
    BY <1>8, <2>7, <2>9
<1>10. CASE ~(Rank(S, m) > n)
  BY <1>1, <1>8, <1>10
<1> QED
  BY <1>9, <1>10

\* A rank is between 1 and the number of elements, and a greater element has a
\* greater rank.
LEMMA RankOrder ==
    ASSUME NEW b \in Nat, NEW S, S \subseteq 0..b, NEW c \in S
    PROVE  /\ Rank(S, c) \in 1..Cardinality(S)
           /\ \A a \in S : a < c => Rank(S, a) < Rank(S, c)
<1> DEFINE UpTo(x) == {d \in S : d <= x}
<1>1. ASSUME NEW x PROVE /\ UpTo(x) \subseteq 0..b /\ UpTo(x) \subseteq S
                         /\ IsFiniteSet(UpTo(x)) /\ Cardinality(UpTo(x)) \in Nat
  <2>1. UpTo(x) \subseteq 0..b
    OBVIOUS
  <2>2. IsFiniteSet(UpTo(x)) /\ Cardinality(UpTo(x)) \in Nat
    BY <2>1, BoundedFinite
  <2> QED
    BY <2>1, <2>2
<1>2. IsFiniteSet(S) /\ Cardinality(S) \in Nat
  BY BoundedFinite
<1>3. \A x : Rank(S, x) = Cardinality(UpTo(x))
  BY DEF Rank
<1>4. c \in UpTo(c) /\ c \in Nat
  OBVIOUS
<1>5. ASSUME NEW a \in S, a < c PROVE UpTo(a) \subseteq UpTo(c) /\ c \notin UpTo(a)
  <2>1. a \in Nat /\ c \in Nat /\ \A d \in S : d \in Nat
    OBVIOUS
  <2>2. \A d \in S : d <= a => d <= c
    BY <1>5, <2>1
  <2>3. ~ (c <= a)
    BY <1>5, <2>1
  <2> QED
    BY <2>2, <2>3
<1> HIDE DEF UpTo
<1>6. Cardinality(UpTo(c)) # 0
  BY <1>1, <1>4, FS_EmptySet
<1>7. Cardinality(UpTo(c)) <= Cardinality(S)
  BY <1>1, <1>2, FS_Subset
<1>8. ASSUME NEW a \in S, a < c PROVE Cardinality(UpTo(a)) < Cardinality(UpTo(c))
  <2>1. UpTo(a) \in SUBSET UpTo(c) /\ UpTo(a) # UpTo(c)
    BY <1>4, <1>5, <1>8
  <2>2. /\ Cardinality(UpTo(a)) <= Cardinality(UpTo(c))
        /\ Cardinality(UpTo(c)) # Cardinality(UpTo(a))
    BY <1>1, <2>1, FS_Subset
  <2> QED
    BY <1>1, <2>2
<1> QED
  BY <1>1, <1>2, <1>3, <1>6, <1>7, <1>8

-----------------------------------------------------------------------------
(* Powers of two.                                                          *)

\* Powers of two, from the number of subsets of a finite set.
LEMMA PowNat ==
    ASSUME NEW n \in Nat
    PROVE  2^n \in Nat /\ 2^n > 0 /\ 2^(n + 1) = 2 * 2^n
<1> DEFINE A == SUBSET (1..n)
           B == {X \cup {n + 1} : X \in A}
           f == [X \in A |-> X \cup {n + 1}]
<1>1. IsFiniteSet(1..n) /\ Cardinality(1..n) = n
  BY FS_Interval
<1>2. IsFiniteSet(1..(n + 1)) /\ Cardinality(1..(n + 1)) = n + 1
  BY FS_Interval
<1>3. Cardinality(A) = 2^n /\ IsFiniteSet(A)
  BY <1>1, FS_SUBSET
<1>4. Cardinality(SUBSET (1..(n + 1))) = 2^(n + 1)
  BY <1>2, FS_SUBSET
<1>5. f \in Surjection(A, B)
  BY DEF Surjection
<1>6. f \in Injection(A, B)
  <2>1. ASSUME NEW X \in A, NEW Y \in A, f[X] = f[Y] PROVE X = Y
    <3>1. X \cup {n + 1} = Y \cup {n + 1}
      BY <2>1
    <3>2. n + 1 \notin X /\ n + 1 \notin Y
      OBVIOUS
    <3> QED
      BY <3>1, <3>2
  <2> QED
    BY <2>1, <1>5 DEF Injection, Surjection, IsInjective
<1>7. Cardinality(B) = 2^n /\ IsFiniteSet(B)
  BY <1>3, <1>5, <1>6, FS_Surjection
<1>8. A \cap B = {}
  OBVIOUS
<1>9. A \cup B = SUBSET (1..(n + 1))
  <2>1. ASSUME NEW X \in SUBSET (1..(n + 1)) PROVE X \in A \cup B
    <3>1. CASE n + 1 \in X
      <4>1. X \ {n + 1} \in A
        OBVIOUS
      <4>2. X = (X \ {n + 1}) \cup {n + 1}
        BY <3>1
      <4> QED
        BY <4>1, <4>2
    <3>2. CASE n + 1 \notin X
      BY <3>2
    <3> QED
      BY <3>1, <3>2
  <2>2. A \subseteq SUBSET (1..(n + 1)) /\ B \subseteq SUBSET (1..(n + 1))
    <3>1. \A x \in 1..n : x \in 1..(n + 1)
      OBVIOUS
    <3>2. n + 1 \in 1..(n + 1)
      OBVIOUS
    <3> QED
      BY <3>1, <3>2, Zenon
  <2> HIDE DEF A, B
  <2> QED
    BY <2>1, <2>2
<1>10. Cardinality(A \cup B) = 2^n + 2^n - Cardinality({})
  <2> HIDE DEF A, B
  <2> QED BY <1>3, <1>7, <1>8, FS_Union
<1>11. 2^n \in Nat
  <2> HIDE DEF A
  <2> QED BY <1>3, FS_CardinalityType
<1>12. 2^n # 0
  <2>1. A # {}
    OBVIOUS
  <2> HIDE DEF A
  <2> QED BY <2>1, <1>3, FS_EmptySet
<1> HIDE DEF A, B
<1>13. 2^(n + 1) = 2^n + 2^n - 0
  BY <1>4, <1>9, <1>10, FS_EmptySet
<1> QED
  BY <1>11, <1>12, <1>13

LEMMA MultAssoc ==
    ASSUME NEW a \in Nat, NEW b \in Nat, NEW c \in Nat
    PROVE  a * b \in Nat /\ a * (b * c) = (a * b) * c
  OBVIOUS

LEMMA DivMult ==
    ASSUME NEW a \in Nat, NEW b \in Nat, b > 0
    PROVE  (a * b) \div b = a
  OBVIOUS

\* Division takes off what is less than the divisor.
LEMMA DivSum ==
    ASSUME NEW p \in Nat \ {0}, NEW x \in 0..(p - 1), NEW q \in Nat
    PROVE  (x + q * p) \div p = q
<1> DEFINE u == q * p
<1>1. u \in Nat
  OBVIOUS
<1> DEFINE v == (x + u) \div p
           r == (x + u) % p
<1>2. v \in Int /\ r \in 0..(p - 1) /\ x + u = p * v + r
  BY <1>1
<1> HIDE DEF v, r
<1>3. p * v = p * q + (x - r)
  BY <1>1, <1>2
<1>4. p * (v - q) = x - r
  BY <1>2, <1>3
<1>5. v = q
  <2>1. CASE v - q >= 1
    <3>1. p * (v - q) >= p
      BY <1>2, <2>1
    <3> QED BY <1>2, <1>4, <3>1
  <2>2. CASE v - q <= -1
    <3>1. p * (v - q) <= -p
      BY <1>2, <2>2
    <3> QED BY <1>2, <1>4, <3>1
  <2> QED BY <1>2, <2>1, <2>2
<1> QED
  BY <1>5 DEF v

\* A smaller power of two divides a larger one.
LEMMA PowDivides ==
    ASSUME NEW i \in Nat, NEW l \in Nat, i <= l
    PROVE  \E c \in Nat : 2^l = c * 2^i
<1> DEFINE T == {k \in Nat : i <= k /\ ~ \E c \in Nat : 2^k = c * 2^i}
<1> SUFFICES ASSUME T # {} PROVE FALSE
  OBVIOUS
<1>1. PICK k \in T : \A j \in T : k <= j
  <2>1. T \subseteq Nat
    OBVIOUS
  <2> HIDE DEF T
  <2> QED BY <2>1, LeastNatural
<1>2. k \in Nat /\ i <= k /\ ~ \E c \in Nat : 2^k = c * 2^i
  BY <1>1
<1>3. k # i
  <2>1. 2^i \in Nat
    BY PowNat
  <2>2. 2^i = 1 * 2^i
    BY <2>1
  <2> QED BY <1>2, <2>2
<1>4. k - 1 \in Nat /\ i <= k - 1 /\ (k - 1) + 1 = k
  BY <1>2, <1>3
<1>5. k - 1 \notin T
  <2> HIDE DEF T
  <2> QED BY <1>1, <1>2, <1>4
<1>6. PICK c \in Nat : 2^(k - 1) = c * 2^i
  BY <1>4, <1>5
<1>7. 2^k = 2 * (c * 2^i) /\ 2^i \in Nat
  BY <1>4, <1>6, PowNat
<1>8. 2^k = (2 * c) * 2^i /\ 2 * c \in Nat
  <2>1. 2 * (c * 2^i) = (2 * c) * 2^i /\ 2 * c \in Nat
    BY <1>7, MultAssoc
  <2> QED BY <1>7, <2>1
<1> QED
  BY <1>2, <1>8

-----------------------------------------------------------------------------
(* Powers of two and the split point.                                      *)

\* n < 2^n.
LEMMA PowAbove ==
    ASSUME NEW n \in Nat
    PROVE  n < 2^n
<1> DEFINE T == {m \in Nat : ~ (m < 2^m)}
<1> SUFFICES ASSUME T # {} PROVE FALSE
  OBVIOUS
<1>1. PICK m \in T : \A k \in T : m <= k
  <2>1. T \subseteq Nat
    OBVIOUS
  <2> HIDE DEF T
  <2> QED BY <2>1, LeastNatural
<1>2. m \in Nat /\ ~ (m < 2^m)
  BY <1>1
<1>3. m # 0
  <2> SUFFICES ASSUME m = 0 PROVE FALSE
    OBVIOUS
  <2>1. 2^0 = 1
    OBVIOUS
  <2>2. 2^m = 2^0
    BY Zenon
  <2> QED BY <2>1, <2>2, <1>2
<1>4. m - 1 \in Nat /\ m - 1 < 2^(m - 1)
  BY <1>1, <1>2, <1>3
<1>5. 2^(m - 1) \in Nat /\ 2^((m - 1) + 1) = 2 * 2^(m - 1)
  BY <1>4, PowNat
<1>6. (m - 1) + 1 = m
  BY <1>2
<1>7. 2^m = 2 * 2^(m - 1)
  BY <1>5, <1>6
<1> QED
  BY <1>2, <1>4, <1>5, <1>7

\* A larger exponent gives a larger power.
LEMMA PowOrder ==
    ASSUME NEW m \in Nat, NEW n \in Nat, m < n
    PROVE  2 * 2^m <= 2^n
<1> DEFINE T == {k \in Nat : m < k /\ ~ (2 * 2^m <= 2^k)}
<1> SUFFICES ASSUME T # {} PROVE FALSE
  OBVIOUS
<1>1. PICK k \in T : \A j \in T : k <= j
  <2>1. T \subseteq Nat
    OBVIOUS
  <2> HIDE DEF T
  <2> QED BY <2>1, LeastNatural
<1>2. k \in Nat /\ m < k /\ ~ (2 * 2^m <= 2^k)
  BY <1>1
<1>3. k - 1 \in Nat /\ (k - 1) + 1 = k
  BY <1>2
<1>4. 2^(k - 1) \in Nat /\ 2^k = 2 * 2^(k - 1)
  BY <1>3, PowNat
<1>5. 2^m \in Nat
  BY PowNat
<1>6. CASE k - 1 = m
  BY <1>2, <1>4, <1>5, <1>6
<1>7. CASE k - 1 # m
  <2>1. 2 * 2^m <= 2^(k - 1)
    BY <1>1, <1>2, <1>3, <1>7
  <2> QED
    BY <2>1, <1>2, <1>4, <1>5
<1> QED
  BY <1>6, <1>7

\* splitPoint returns what the code's loop does: the power of two below n whose
\* double is not.
LEMMA SplitPointIs ==
    ASSUME NEW n \in Nat, n > 1
    PROVE  /\ splitPoint(n) \in 1..(n - 1) /\ n <= 2 * splitPoint(n)
           /\ \E i \in Nat : splitPoint(n) = 2^i
<1> DEFINE T == {i \in Nat : n <= 2^i}
<1>1. PICK i \in T : \A j \in T : i <= j
  <2>1. T \subseteq Nat
    OBVIOUS
  <2>2. n \in T
    BY PowAbove, PowNat
  <2> HIDE DEF T
  <2> QED BY <2>1, <2>2, LeastNatural
<1>2. i \in Nat /\ n <= 2^i
  BY <1>1
<1>3. i # 0
  <2> SUFFICES ASSUME i = 0 PROVE FALSE
    OBVIOUS
  <2>1. 2^0 = 1
    OBVIOUS
  <2>2. 2^i = 2^0
    BY Zenon
  <2> QED BY <2>1, <2>2, <1>2
<1>4. i - 1 \in Nat /\ (i - 1) + 1 = i
  BY <1>2, <1>3
<1>5. ~ (n <= 2^(i - 1))
  BY <1>1, <1>4
<1>6. 2^(i - 1) \in Nat /\ 2^(i - 1) > 0 /\ 2^i = 2 * 2^(i - 1) /\ i - 1 < 2^(i - 1)
  BY <1>4, PowNat, PowAbove
<1> DEFINE k == 2^(i - 1)
<1>7. k \in 1..(n - 1) /\ n <= 2 * k /\ i - 1 \in 0..k
  BY <1>2, <1>4, <1>5, <1>6
<1>8. IsPowerOfTwo(k)
  BY <1>7 DEF IsPowerOfTwo
<1> HIDE DEF k
<1>9. /\ splitPoint(n) \in 1..(n - 1)
      /\ IsPowerOfTwo(splitPoint(n)) /\ n <= 2 * splitPoint(n)
  BY <1>7, <1>8 DEF splitPoint
<1>10. \E j \in Nat : splitPoint(n) = 2^j
  BY <1>9 DEF IsPowerOfTwo
<1> QED
  BY <1>9, <1>10

\* There is one power of two below n whose double is not.
LEMMA SplitPointUnique ==
    ASSUME NEW n \in Nat, n > 1, NEW i \in Nat, 2^i < n, n <= 2 * 2^i
    PROVE  splitPoint(n) = 2^i
<1>1. splitPoint(n) \in 1..(n - 1) /\ n <= 2 * splitPoint(n)
  BY SplitPointIs
<1>2. PICK j \in Nat : splitPoint(n) = 2^j
  BY SplitPointIs
<1>3. 2^i \in Nat /\ 2^j \in Nat
  BY PowNat
<1>4. i < j => 2 * 2^i <= 2^j
  BY PowOrder
<1>5. j < i => 2 * 2^j <= 2^i
  BY PowOrder
<1>6. i = j
  BY <1>1, <1>2, <1>3, <1>4, <1>5
<1> QED
  BY <1>2, <1>6

-----------------------------------------------------------------------------
(* Recursion over ranges.                                                  *)

\* The number of leaves of a range, and the ranges of at most n leaves.
Size(r) == r[2] - r[1]

Small(n) == {r \in Ranges : Size(r) <= n}

\* A range of more than one leaf has two smaller parts.
LEMMA Parts ==
    ASSUME NEW r \in Ranges, Size(r) # 1
    PROVE  /\ Size(r) \in Nat /\ Size(r) > 1
           /\ <<r[1], mid(r)>> \in Ranges /\ Size(<<r[1], mid(r)>>) < Size(r)
           /\ <<mid(r), r[2]>> \in Ranges /\ Size(<<mid(r), r[2]>>) < Size(r)
<1>1. /\ r[1] \in Nat /\ r[2] \in Nat /\ r[2] - r[1] \in Nat /\ r[2] - r[1] > 1
  BY DEF Ranges, Size
<1>2. splitPoint(r[2] - r[1]) \in 1..(r[2] - r[1] - 1)
  BY <1>1, SplitPointIs
<1> QED
  BY <1>1, <1>2 DEF Ranges, Size, mid

LEMMA SizeNat ==
    ASSUME NEW r \in Ranges
    PROVE  Size(r) \in Nat /\ Size(r) > 0
  BY DEF Ranges, Size

\* What VerifyConsistency makes of the result of a part.
VerifyStep(p, inLeft, below) ==
    IF ~below.ok \/ below.used >= Len(p) THEN [old |-> EmptyHash, new |-> EmptyHash, ok |-> FALSE, used |-> 0]
    ELSE IF inLeft
    THEN [below EXCEPT !.new = InteriorHash(@, p[below.used + 1]), !.used = @ + 1]
    ELSE [below EXCEPT !.old = InteriorHash(p[below.used + 1], @),
                       !.new = InteriorHash(p[below.used + 1], @), !.used = @ + 1]

\* One step of a recursion over ranges: op says what is made of the values a and b
\* of the two parts.
Combine(op, a, b) ==
    LET below == IF op.left THEN a ELSE b
    IN  CASE op.how = "node"   -> InteriorHash(a, b)
          [] op.how = "append" -> Append(below, op.arg)
          [] op.how = "count"  -> 1 + below
          [] op.how = "below"  -> below
          [] op.how = "hash"   -> IF op.left THEN InteriorHash(below, op.arg)
                                             ELSE InteriorHash(op.arg, below)
          [] op.how = "verify" -> VerifyStep(op.arg, op.left, below)

\* h is defined by recursion over ranges: it is at[r] in stop.
Recursive(h, stop, at, op) ==
    /\ h = [r \in Ranges |-> h[r]]
    /\ \A r \in Ranges : h[r] = IF r \in stop THEN at[r]
                                ELSE Combine(op[r], h[<<r[1], mid(r)>>], h[<<mid(r), r[2]>>])

\* A function that is defined by recursion over ranges exists: those for ranges of
\* at most n leaves exist, agree with each other, and together make it up.
LEMMA RecursionExists ==
    ASSUME NEW stop, NEW at, NEW op, \A r \in Ranges : Size(r) = 1 => r \in stop
    PROVE  \E h : Recursive(h, stop, at, op)
<1> DEFINE Body(f, r) == IF r \in stop THEN at[r]
                         ELSE Combine(op[r], f[<<r[1], mid(r)>>], f[<<mid(r), r[2]>>])
           Upto(f, n) == f = [r \in Small(n) |-> Body(f, r)]
<1>1. ASSUME NEW f, NEW g, NEW r \in Ranges,
             Size(r) # 1 => f[<<r[1], mid(r)>>] = g[<<r[1], mid(r)>>] /\ f[<<mid(r), r[2]>>] = g[<<mid(r), r[2]>>]
      PROVE  Body(f, r) = Body(g, r)
  BY <1>1
<1> HIDE DEF Body
<1>2. ASSUME NEW m \in Nat, NEW n \in Nat, m <= n, NEW f, NEW g, Upto(f, m), Upto(g, n)
      PROVE  \A r \in Small(m) : f[r] = g[r]
  <2> DEFINE T == {k \in Nat : \E r \in Small(m) : Size(r) = k /\ f[r] # g[r]}
  <2> SUFFICES ASSUME T # {} PROVE FALSE
    BY SizeNat DEF Small
  <2>1. PICK k \in T : \A j \in T : k <= j
    <3>1. T \subseteq Nat
      OBVIOUS
    <3> HIDE DEF T
    <3> QED BY <3>1, LeastNatural
  <2>2. PICK r \in Small(m) : Size(r) = k /\ f[r] # g[r]
    BY <2>1
  <2>3. r \in Ranges /\ Size(r) <= m /\ r \in Small(n) /\ k \in Nat
    BY <2>1, <2>2, <1>2, SizeNat DEF Small
  <2>4. f[r] = Body(f, r) /\ g[r] = Body(g, r)
    BY <1>2, <2>2, <2>3
  <2>5. ASSUME NEW x \in Ranges, Size(x) < k PROVE f[x] = g[x]
    <3>1. Size(x) \in Nat /\ x \in Small(m)
      BY <2>2, <2>3, <2>5, SizeNat, <1>2 DEF Small
    <3>2. Size(x) \notin T
      <4> HIDE DEF T
      <4> QED BY <2>1, <2>3, <2>5, <3>1
    <3> QED
      BY <3>1, <3>2
  <2>6. Body(f, r) = Body(g, r)
    BY <1>1, <2>2, <2>3, <2>5, Parts
  <2> QED
    BY <2>2, <2>4, <2>6
<1>3. \A n \in Nat : \E f : Upto(f, n)
  <2> DEFINE T == {n \in Nat : ~ \E f : Upto(f, n)}
  <2> SUFFICES ASSUME T # {} PROVE FALSE
    OBVIOUS
  <2>1. PICK n \in T : \A j \in T : n <= j
    <3>1. T \subseteq Nat
      OBVIOUS
    <3> HIDE DEF T
    <3> QED BY <3>1, LeastNatural
  <2>2. n \in Nat /\ ~ \E f : Upto(f, n)
    BY <2>1
  <2>3. n # 0
    <3> SUFFICES ASSUME n = 0 PROVE FALSE
      OBVIOUS
    <3>1. Small(n) = {}
      BY SizeNat DEF Small
    <3>2. Upto([r \in {} |-> r], n)
      BY <3>1
    <3> QED BY <3>2, <2>2
  <2>4. n - 1 \in Nat /\ n - 1 \notin T
    <3> HIDE DEF T
    <3> QED BY <2>1, <2>2, <2>3
  <2>5. PICK f : Upto(f, n - 1)
    BY <2>4
  <2> DEFINE g == [r \in Small(n) |-> Body(f, r)]
  <2>6. ASSUME NEW r \in Small(n) PROVE Body(f, r) = Body(g, r)
    <3>1. ASSUME NEW x \in Ranges, Size(x) < Size(r) PROVE f[x] = g[x]
      <4>1. Size(x) \in Nat /\ Size(r) \in Nat /\ Size(r) <= n
        BY SizeNat DEF Small
      <4>2. x \in Small(n - 1) /\ x \in Small(n)
        BY <4>1, <3>1, <2>2 DEF Small
      <4> QED
        BY <4>2, <2>5
    <3> HIDE DEF g
    <3>2. r \in Ranges
      BY DEF Small
    <3> QED
      BY <3>1, <3>2, <1>1, Parts
  <2>7. Upto(g, n)
    BY <2>6
  <2> QED
    BY <2>2, <2>7
<1> DEFINE F(n) == CHOOSE f : Upto(f, n)
           h == [r \in Ranges |-> F(Size(r))[r]]
<1>4. ASSUME NEW n \in Nat PROVE Upto(F(n), n)
  BY <1>3
<1>5. ASSUME NEW r \in Ranges PROVE h[r] = Body(h, r)
  <2> HIDE DEF F
  <2>1. Size(r) \in Nat /\ r \in Small(Size(r))
    BY SizeNat DEF Small
  <2>2. h[r] = Body(F(Size(r)), r)
    BY <2>1, <1>4
  <2>3. ASSUME NEW x \in Ranges, Size(x) < Size(r) PROVE F(Size(r))[x] = h[x]
    <3>1. Size(x) \in Nat /\ x \in Small(Size(x)) /\ Size(x) <= Size(r)
      BY SizeNat, <2>1, <2>3 DEF Small
    <3>2. F(Size(x))[x] = F(Size(r))[x]
      <4> HIDE DEF Upto
      <4> QED BY <1>2, <1>4, <2>1, <3>1
    <3> QED
      BY <3>2
  <2> HIDE DEF h
  <2>4. Body(F(Size(r)), r) = Body(h, r)
    BY <1>1, <2>3, Parts, ZenonT(30)
  <2> QED
    BY <2>2, <2>4
<1>6. h = [r \in Ranges |-> h[r]]
  OBVIOUS
<1> HIDE DEF h
<1> QED
  BY <1>5, <1>6 DEF Body, Recursive

-----------------------------------------------------------------------------
(* The recursive definitions are what they say.                            *)

Single == {r \in Ranges : Size(r) = 1}

\* computeSubtreeHash.
LEMMA SubtreeHashIs ==
    ASSUME NEW hashAt, NEW s \in Nat, NEW e \in Nat, s < e
    PROVE  /\ e - s = 1 => computeSubtreeHash(s, e, hashAt) = hashAt[s]
           /\ e - s # 1 => LET k == splitPoint(e - s)
                           IN  computeSubtreeHash(s, e, hashAt) =
                                   InteriorHash(computeSubtreeHash(s, s + k, hashAt),
                                                computeSubtreeHash(s + k, e, hashAt))
<1> DEFINE h == CHOOSE h : h = [r \in Ranges |-> IF r[2] - r[1] = 1 THEN hashAt[r[1]]
                                        ELSE InteriorHash(h[<<r[1], mid(r)>>], h[<<mid(r), r[2]>>])]
           at == [r \in Ranges |-> hashAt[r[1]]]
           op == [r \in Ranges |-> [how |-> "node", left |-> TRUE]]
<1>1. \E g : g = [r \in Ranges |-> IF r[2] - r[1] = 1 THEN hashAt[r[1]]
                            ELSE InteriorHash(g[<<r[1], mid(r)>>], g[<<mid(r), r[2]>>])]
  <2>1. \A r \in Ranges : Size(r) = 1 => r \in Single
    BY DEF Single
  <2>2. PICK g : Recursive(g, Single, at, op)
    <3> HIDE DEF at, op
    <3> QED BY <2>1, RecursionExists
  <2>3. ASSUME NEW r \in Ranges
        PROVE  g[r] = IF r[2] - r[1] = 1 THEN hashAt[r[1]]
                      ELSE InteriorHash(g[<<r[1], mid(r)>>], g[<<mid(r), r[2]>>])
    BY <2>2 DEF Recursive, Combine, Single, Size
  <2>4. g = [r \in Ranges |-> g[r]]
    BY <2>2 DEF Recursive
  <2> HIDE DEF at, op
  <2>5. g = [r \in Ranges |-> IF r[2] - r[1] = 1 THEN hashAt[r[1]]
                              ELSE InteriorHash(g[<<r[1], mid(r)>>], g[<<mid(r), r[2]>>])]
    BY <2>3, <2>4
  <2> QED
    BY <2>5, Zenon
<1>2. h = [r \in Ranges |-> IF r[2] - r[1] = 1 THEN hashAt[r[1]]
                            ELSE InteriorHash(h[<<r[1], mid(r)>>], h[<<mid(r), r[2]>>])]
  BY <1>1, Zenon
<1>3. \A a, b : computeSubtreeHash(a, b, hashAt) = h[<<a, b>>]
  BY Zenon DEF computeSubtreeHash
<1> HIDE DEF h
<1>4. <<s, e>> \in Ranges
  BY DEF Ranges
<1>5. h[<<s, e>>] = IF e - s = 1 THEN hashAt[s]
                    ELSE InteriorHash(h[<<s, mid(<<s, e>>)>>], h[<<mid(<<s, e>>), e>>])
  BY <1>2, <1>4
<1> QED
  BY <1>3, <1>5 DEF mid

\* subtreeHashFromNodes.
LEMMA NodesHashIs ==
    ASSUME NEW nodes, NEW s \in Nat, NEW e \in Nat, s < e
    PROVE  /\ IsPowerOfTwo(e - s) => subtreeHashFromNodes(s, e, nodes)
                                     = nodeAt(nodes, Log2(e - s), Shift(s, Log2(e - s)))
           /\ ~IsPowerOfTwo(e - s) => LET k == splitPoint(e - s)
                           IN  subtreeHashFromNodes(s, e, nodes) =
                                   InteriorHash(subtreeHashFromNodes(s, s + k, nodes),
                                                subtreeHashFromNodes(s + k, e, nodes))
<1> DEFINE h == CHOOSE h : h = [r \in Ranges |->
                    IF IsPowerOfTwo(r[2] - r[1])
                    THEN LET level == Log2(r[2] - r[1]) IN nodeAt(nodes, level, Shift(r[1], level))
                    ELSE InteriorHash(h[<<r[1], mid(r)>>], h[<<mid(r), r[2]>>])]
           stop == {r \in Ranges : IsPowerOfTwo(r[2] - r[1])}
           at == [r \in Ranges |-> nodeAt(nodes, Log2(r[2] - r[1]), Shift(r[1], Log2(r[2] - r[1])))]
           op == [r \in Ranges |-> [how |-> "node", left |-> TRUE]]
<1>1. \A r \in Ranges : Size(r) = 1 => r \in stop
  <2>1. IsPowerOfTwo(1)
    <3>1. 2^0 = 1 /\ 0 \in 0..1
      OBVIOUS
    <3> QED BY <3>1, Zenon DEF IsPowerOfTwo
  <2> QED BY <2>1 DEF Size
<1>2. PICK f : Recursive(f, stop, at, op)
  <2> HIDE DEF stop, at, op
  <2> QED BY <1>1, RecursionExists
<1>3. ASSUME NEW r \in Ranges
      PROVE  f[r] = IF IsPowerOfTwo(r[2] - r[1])
                    THEN LET level == Log2(r[2] - r[1]) IN nodeAt(nodes, level, Shift(r[1], level))
                    ELSE InteriorHash(f[<<r[1], mid(r)>>], f[<<mid(r), r[2]>>])
  BY <1>2 DEF Recursive, Combine
<1>4. f = [r \in Ranges |-> f[r]]
  BY <1>2 DEF Recursive
<1> HIDE DEF stop, at, op
<1>5. f = [r \in Ranges |->
               IF IsPowerOfTwo(r[2] - r[1])
               THEN LET level == Log2(r[2] - r[1]) IN nodeAt(nodes, level, Shift(r[1], level))
               ELSE InteriorHash(f[<<r[1], mid(r)>>], f[<<mid(r), r[2]>>])]
  BY <1>3, <1>4
<1>6. h = [r \in Ranges |->
               IF IsPowerOfTwo(r[2] - r[1])
               THEN LET level == Log2(r[2] - r[1]) IN nodeAt(nodes, level, Shift(r[1], level))
               ELSE InteriorHash(h[<<r[1], mid(r)>>], h[<<mid(r), r[2]>>])]
  BY <1>5, Zenon
<1>7. \A a, b : subtreeHashFromNodes(a, b, nodes) = h[<<a, b>>]
  BY Zenon DEF subtreeHashFromNodes
<1> HIDE DEF h
<1>8. <<s, e>> \in Ranges
  BY DEF Ranges
<1>9. h[<<s, e>>] = IF IsPowerOfTwo(e - s)
                    THEN nodeAt(nodes, Log2(e - s), Shift(s, Log2(e - s)))
                    ELSE InteriorHash(h[<<s, mid(<<s, e>>)>>], h[<<mid(<<s, e>>), e>>])
  BY <1>6, <1>8
<1> QED
  BY <1>7, <1>9 DEF mid

\* pathLen.
LEMMA PathLenIs ==
    ASSUME NEW index, NEW r \in Ranges
    PROVE  /\ Size(r) = 1 => pathLen(index, r) = 0
           /\ Size(r) # 1 => pathLen(index, r) = 1 + pathLen(index, partOf(index, r))
<1> DEFINE h == CHOOSE h : h = [q \in Ranges |-> IF q[2] - q[1] = 1 THEN 0 ELSE 1 + h[partOf(index, q)]]
           at == [q \in Ranges |-> 0]
           op == [q \in Ranges |-> [how |-> "count", left |-> index < mid(q)]]
<1>1. \A q \in Ranges : Size(q) = 1 => q \in Single
  BY DEF Single
<1>2. PICK f : Recursive(f, Single, at, op)
  <2> HIDE DEF at, op
  <2> QED BY <1>1, RecursionExists
<1>3. ASSUME NEW q \in Ranges
      PROVE  f[q] = IF q[2] - q[1] = 1 THEN 0 ELSE 1 + f[partOf(index, q)]
  BY <1>2 DEF Recursive, Combine, Single, Size, partOf
<1>4. f = [q \in Ranges |-> f[q]]
  BY <1>2 DEF Recursive
<1> HIDE DEF at, op
<1>5. f = [q \in Ranges |-> IF q[2] - q[1] = 1 THEN 0 ELSE 1 + f[partOf(index, q)]]
  BY <1>3, <1>4
<1>6. h = [q \in Ranges |-> IF q[2] - q[1] = 1 THEN 0 ELSE 1 + h[partOf(index, q)]]
  BY <1>5, Zenon
<1>7. \A q : pathLen(index, q) = h[q]
  BY Zenon DEF pathLen
<1> HIDE DEF h
<1>8. h[r] = IF r[2] - r[1] = 1 THEN 0 ELSE 1 + h[partOf(index, r)]
  BY <1>6
<1> QED
  BY <1>7, <1>8 DEF Size

\* The hashes of all ranges, from the leaves and from the stored rows.
LeafHashes(hashAt) == [r \in Ranges |-> computeSubtreeHash(r[1], r[2], hashAt)]
NodeHashes(nodes)  == [r \in Ranges |-> subtreeHashFromNodes(r[1], r[2], nodes)]

\* p has the proofs of a leaf in all ranges, made of the hashes of the siblings.
ProofsOf(p, index, hash) ==
    \A r \in Ranges :
        /\ Size(r) = 1 => p[r] = <<>>
        /\ Size(r) # 1 => p[r] = Append(p[partOf(index, r)], hash[sibling(index, r)])

\* The parts of a range that is split are ranges; a leaf of the range is in partOf.
LEMMA PartsOf ==
    ASSUME NEW r \in Ranges, Size(r) # 1, NEW leaf
    PROVE  /\ partOf(leaf, r) \in Ranges /\ Size(partOf(leaf, r)) < Size(r)
           /\ sibling(leaf, r) \in Ranges /\ Size(sibling(leaf, r)) < Size(r)
           /\ leaf \in r[1]..(r[2] - 1) => leaf \in partOf(leaf, r)[1]..(partOf(leaf, r)[2] - 1)
<1>1. /\ <<r[1], mid(r)>> \in Ranges /\ Size(<<r[1], mid(r)>>) < Size(r)
      /\ <<mid(r), r[2]>> \in Ranges /\ Size(<<mid(r), r[2]>>) < Size(r)
  BY Parts
<1>2. r[1] \in Nat /\ mid(r) \in Nat /\ r[2] \in Nat
  BY <1>1 DEF Ranges
<1> QED
  BY <1>1, <1>2 DEF partOf, sibling

\* InclusionProof.
LEMMA InclusionProofIs ==
    ASSUME NEW index, NEW hashAt
    PROVE  \E p : /\ \A size : InclusionProof(index, size, hashAt) = p[<<0, size>>]
                  /\ ProofsOf(p, index, LeafHashes(hashAt))
<1> DEFINE h == CHOOSE h : h = [r \in Ranges |->
                    IF r[2] - r[1] = 1 THEN <<>>
                    ELSE LET other == sibling(index, r)
                         IN  Append(h[partOf(index, r)], computeSubtreeHash(other[1], other[2], hashAt))]
           at == [r \in Ranges |-> <<>>]
           hash(q) == computeSubtreeHash(q[1], q[2], hashAt)
           op == [r \in Ranges |-> [how |-> "append", left |-> index < mid(r), arg |-> hash(sibling(index, r))]]
<1>1. \A q \in Ranges : Size(q) = 1 => q \in Single
  BY DEF Single
<1>2. PICK f : Recursive(f, Single, at, op)
  <2> HIDE DEF at, op
  <2> QED BY <1>1, RecursionExists
<1>3. ASSUME NEW r \in Ranges
      PROVE  f[r] = IF r[2] - r[1] = 1 THEN <<>> ELSE Append(f[partOf(index, r)], hash(sibling(index, r)))
  <2> HIDE DEF hash
  <2> QED BY <1>2 DEF Recursive, Combine, Single, Size, partOf
<1>4. f = [q \in Ranges |-> f[q]]
  BY <1>2 DEF Recursive
<1> HIDE DEF at, op
<1>5. f = [r \in Ranges |->
               IF r[2] - r[1] = 1 THEN <<>>
               ELSE LET other == sibling(index, r)
                    IN  Append(f[partOf(index, r)], computeSubtreeHash(other[1], other[2], hashAt))]
  BY <1>3, <1>4
<1>6. h = [r \in Ranges |->
               IF r[2] - r[1] = 1 THEN <<>>
               ELSE LET other == sibling(index, r)
                    IN  Append(h[partOf(index, r)], computeSubtreeHash(other[1], other[2], hashAt))]
  BY <1>5, Zenon
<1>7. \A size : InclusionProof(index, size, hashAt) = h[<<0, size>>]
  BY Zenon DEF InclusionProof
<1> HIDE DEF h
<1>8. \A r \in Ranges : h[r] =
          IF r[2] - r[1] = 1 THEN <<>>
          ELSE LET other == sibling(index, r)
               IN  Append(h[partOf(index, r)], computeSubtreeHash(other[1], other[2], hashAt))
  BY <1>6
<1>9. ASSUME NEW r \in Ranges, Size(r) # 1
      PROVE  h[r] = Append(h[partOf(index, r)], LeafHashes(hashAt)[sibling(index, r)])
  BY <1>8, <1>9, PartsOf DEF Size, LeafHashes
<1> QED
  BY <1>7, <1>8, <1>9 DEF Size, ProofsOf

\* InclusionProofFromNodes.
LEMMA InclusionProofFromNodesIs ==
    ASSUME NEW index, NEW nodes
    PROVE  \E p : /\ \A size : InclusionProofFromNodes(index, size, nodes) = p[<<0, size>>]
                  /\ ProofsOf(p, index, NodeHashes(nodes))
<1> DEFINE h == CHOOSE h : h = [r \in Ranges |->
                    IF r[2] - r[1] = 1 THEN <<>>
                    ELSE LET other == sibling(index, r)
                         IN  Append(h[partOf(index, r)], subtreeHashFromNodes(other[1], other[2], nodes))]
           at == [r \in Ranges |-> <<>>]
           hash(q) == subtreeHashFromNodes(q[1], q[2], nodes)
           op == [r \in Ranges |-> [how |-> "append", left |-> index < mid(r), arg |-> hash(sibling(index, r))]]
<1>1. \A q \in Ranges : Size(q) = 1 => q \in Single
  BY DEF Single
<1>2. PICK f : Recursive(f, Single, at, op)
  <2> HIDE DEF at, op
  <2> QED BY <1>1, RecursionExists
<1>3. ASSUME NEW r \in Ranges
      PROVE  f[r] = IF r[2] - r[1] = 1 THEN <<>> ELSE Append(f[partOf(index, r)], hash(sibling(index, r)))
  <2> HIDE DEF hash
  <2> QED BY <1>2 DEF Recursive, Combine, Single, Size, partOf
<1>4. f = [q \in Ranges |-> f[q]]
  BY <1>2 DEF Recursive
<1> HIDE DEF at, op
<1>5. f = [r \in Ranges |->
               IF r[2] - r[1] = 1 THEN <<>>
               ELSE LET other == sibling(index, r)
                    IN  Append(f[partOf(index, r)], subtreeHashFromNodes(other[1], other[2], nodes))]
  BY <1>3, <1>4
<1>6. h = [r \in Ranges |->
               IF r[2] - r[1] = 1 THEN <<>>
               ELSE LET other == sibling(index, r)
                    IN  Append(h[partOf(index, r)], subtreeHashFromNodes(other[1], other[2], nodes))]
  BY <1>5, Zenon
<1>7. \A size : InclusionProofFromNodes(index, size, nodes) = h[<<0, size>>]
  BY Zenon DEF InclusionProofFromNodes
<1> HIDE DEF h
<1>8. \A r \in Ranges : h[r] =
          IF r[2] - r[1] = 1 THEN <<>>
          ELSE LET other == sibling(index, r)
               IN  Append(h[partOf(index, r)], subtreeHashFromNodes(other[1], other[2], nodes))
  BY <1>6
<1>9. ASSUME NEW r \in Ranges, Size(r) # 1
      PROVE  h[r] = Append(h[partOf(index, r)], NodeHashes(nodes)[sibling(index, r)])
  BY <1>8, <1>9, PartsOf DEF Size, NodeHashes
<1> QED
  BY <1>7, <1>8, <1>9 DEF Size, ProofsOf

\* g has the hashes that RootFromInclusionProof reaches in all ranges.
RootsOf(g, index, leafHash, proof) ==
    \A r \in Ranges :
        /\ Size(r) = 1 \/ Len(proof) = 0 => g[r] = leafHash
        /\ Size(r) # 1 /\ Len(proof) # 0 =>
              LET below == g[partOf(index, r)]
                  used  == pathLen(index, partOf(index, r))
              IN  /\ used >= Len(proof) => g[r] = below
                  /\ ~ (used >= Len(proof)) =>
                        g[r] = IF index < mid(r) THEN InteriorHash(below, proof[used + 1])
                                                 ELSE InteriorHash(proof[used + 1], below)

\* RootFromInclusionProof.
LEMMA RootFromProofIs ==
    ASSUME NEW index, NEW leafHash, NEW proof
    PROVE  \E g : /\ \A size : RootFromInclusionProof(index, size, leafHash, proof) = g[<<0, size>>]
                  /\ RootsOf(g, index, leafHash, proof)
<1> DEFINE used(r) == pathLen(index, partOf(index, r))
           Body(f, r) == IF r[2] - r[1] = 1 \/ Len(proof) = 0 THEN leafHash
                         ELSE IF used(r) >= Len(proof) THEN f[partOf(index, r)]
                         ELSE IF index < mid(r) THEN InteriorHash(f[partOf(index, r)], proof[used(r) + 1])
                                                ELSE InteriorHash(proof[used(r) + 1], f[partOf(index, r)])
           h == CHOOSE h : h = [r \in Ranges |-> Body(h, r)]
           stop == IF Len(proof) = 0 THEN Ranges ELSE Single
           at == [r \in Ranges |-> leafHash]
           op == [r \in Ranges |-> [how |-> IF used(r) >= Len(proof) THEN "below" ELSE "hash",
                                    left |-> index < mid(r), arg |-> proof[used(r) + 1]]]
<1>1. \A q \in Ranges : Size(q) = 1 => q \in stop
  BY DEF Single
<1>2. PICK f : Recursive(f, stop, at, op)
  <2> HIDE DEF stop, at, op
  <2> QED BY <1>1, RecursionExists
<1>3. ASSUME NEW r \in Ranges PROVE f[r] = Body(f, r)
  <2> HIDE DEF used
  <2> QED BY <1>2 DEF Recursive, Combine, Single, Size, partOf
<1>4. f = [q \in Ranges |-> f[q]]
  BY <1>2 DEF Recursive
<1>5. f = [r \in Ranges |-> Body(f, r)]
  <2> HIDE DEF Body
  <2> QED BY <1>3, <1>4
<1>6. h = [r \in Ranges |-> Body(h, r)]
  <2> HIDE DEF Body, stop, at, op
  <2> QED BY <1>5, Zenon
<1>7. \A size : RootFromInclusionProof(index, size, leafHash, proof) = h[<<0, size>>]
  BY Zenon DEF RootFromInclusionProof
<1> HIDE DEF h
<1>8. \A r \in Ranges : h[r] = Body(h, r)
  <2> HIDE DEF Body
  <2> QED BY <1>6
<1>9. ASSUME NEW r \in Ranges
      PROVE  /\ Size(r) = 1 \/ Len(proof) = 0 => h[r] = leafHash
             /\ Size(r) # 1 /\ Len(proof) # 0 =>
                   /\ used(r) >= Len(proof) => h[r] = h[partOf(index, r)]
                   /\ ~ (used(r) >= Len(proof)) =>
                         h[r] = IF index < mid(r)
                                THEN InteriorHash(h[partOf(index, r)], proof[used(r) + 1])
                                ELSE InteriorHash(proof[used(r) + 1], h[partOf(index, r)])
  <2> HIDE DEF used
  <2> QED BY <1>8 DEF Size
<1>10. RootsOf(h, index, leafHash, proof)
  BY <1>9, Zenon DEF RootsOf
<1> QED
  BY <1>7, <1>10

-----------------------------------------------------------------------------
(* Inclusion proofs.                                                       *)

\* hash is a tree hash: the hash of a range that is split is made of its parts'.
TreeHash(hash) ==
    \A r \in Ranges : Size(r) # 1 =>
        hash[r] = InteriorHash(hash[<<r[1], mid(r)>>], hash[<<mid(r), r[2]>>])

LEMMA LeafHashesTree ==
    ASSUME NEW hashAt
    PROVE  /\ TreeHash(LeafHashes(hashAt))
           /\ \A i \in Nat : LeafHashes(hashAt)[<<i, i + 1>>] = hashAt[i]
           /\ \A n \in Nat \ {0} : MTH(n, hashAt) = LeafHashes(hashAt)[<<0, n>>]
<1>1. ASSUME NEW r \in Ranges, Size(r) # 1
      PROVE  LeafHashes(hashAt)[r] = InteriorHash(LeafHashes(hashAt)[<<r[1], mid(r)>>],
                                                  LeafHashes(hashAt)[<<mid(r), r[2]>>])
  <2>1. r[1] \in Nat /\ r[2] \in Nat /\ r[1] < r[2] /\ r[2] - r[1] # 1
    BY <1>1 DEF Ranges, Size
  <2>2. <<r[1], mid(r)>> \in Ranges /\ <<mid(r), r[2]>> \in Ranges
    BY <1>1, Parts
  <2> QED
    BY <2>1, <2>2, SubtreeHashIs DEF LeafHashes, mid
<1>2. ASSUME NEW i \in Nat PROVE LeafHashes(hashAt)[<<i, i + 1>>] = hashAt[i]
  <2>1. <<i, i + 1>> \in Ranges
    BY DEF Ranges
  <2>2. i + 1 \in Nat /\ i < i + 1 /\ (i + 1) - i = 1
    OBVIOUS
  <2> QED
    BY <2>1, <2>2, SubtreeHashIs DEF LeafHashes
<1>3. ASSUME NEW n \in Nat \ {0} PROVE MTH(n, hashAt) = LeafHashes(hashAt)[<<0, n>>]
  <2>1. <<0, n>> \in Ranges
    BY DEF Ranges
  <2> QED
    BY <2>1 DEF MTH, LeafHashes
<1> QED
  BY <1>1, <1>2, <1>3 DEF TreeHash

\* A proof has as many hashes as pathLen says.
LEMMA ProofLength ==
    ASSUME NEW index, NEW hash, NEW p, ProofsOf(p, index, hash), NEW r \in Ranges
    PROVE  /\ pathLen(index, r) \in Nat /\ Len(p[r]) = pathLen(index, r)
           /\ p[r] \in Seq({hash[q] : q \in Ranges})
<1> DEFINE H == {hash[q] : q \in Ranges}
           Good(q) == /\ pathLen(index, q) \in Nat /\ Len(p[q]) = pathLen(index, q)
                      /\ p[q] \in Seq(H)
           T == {k \in Nat : \E q \in Ranges : Size(q) = k /\ ~Good(q)}
<1> SUFFICES ASSUME T # {} PROVE FALSE
  BY SizeNat
<1>1. PICK k \in T : \A j \in T : k <= j
  <2>1. T \subseteq Nat
    OBVIOUS
  <2> HIDE DEF T
  <2> QED BY <2>1, LeastNatural
<1>2. PICK q \in Ranges : Size(q) = k /\ ~Good(q)
  BY <1>1
<1>3. CASE Size(q) = 1
  <2>1. pathLen(index, q) = 0 /\ p[q] = <<>>
    BY <1>3, PathLenIs DEF ProofsOf
  <2> QED
    BY <2>1, <1>2
<1>4. CASE Size(q) # 1
  <2> DEFINE u == partOf(index, q)
  <2>1. u \in Ranges /\ Size(u) < Size(q) /\ sibling(index, q) \in Ranges
    BY <1>4, PartsOf
  <2>2. Good(u)
    <3> HIDE DEF u, Good
    <3>1. Size(u) \in Nat /\ Size(u) < k /\ k \in Nat
      BY <2>1, <1>2, SizeNat
    <3>2. Size(u) \notin T
      <4> HIDE DEF T
      <4> QED BY <3>1, <1>1
    <3> QED BY <3>1, <3>2, <2>1
  <2>3. p[q] = Append(p[u], hash[sibling(index, q)]) /\ hash[sibling(index, q)] \in H
    BY <1>4, <2>1 DEF ProofsOf
  <2>4. pathLen(index, q) = 1 + pathLen(index, u)
    BY <1>4, PathLenIs
  <2> HIDE DEF H, u
  <2> QED
    BY <1>2, <2>2, <2>3, <2>4
<1> QED
  BY <1>3, <1>4

\* The proof of a leaf in a tree leads from the leaf's hash to the root, for any
\* tree hash.
LEMMA ProofLeadsToRoot ==
    ASSUME NEW hash, TreeHash(hash), NEW size \in Nat \ {0}, NEW index \in 0..(size - 1),
           NEW p, ProofsOf(p, index, hash)
    PROVE  RootFromInclusionProof(index, size, hash[<<index, index + 1>>], p[<<0, size>>])
               = hash[<<0, size>>]
<1> DEFINE full == p[<<0, size>>]
           leafHash == hash[<<index, index + 1>>]
<1>1. PICK g : /\ \A n : RootFromInclusionProof(index, n, leafHash, full) = g[<<0, n>>]
               /\ RootsOf(g, index, leafHash, full)
  <2> HIDE DEF full, leafHash
  <2> QED BY RootFromProofIs
<1> DEFINE Inside(r) == /\ index \in r[1]..(r[2] - 1) /\ Len(p[r]) <= Len(full)
                        /\ \A j \in 1..Len(p[r]) : full[j] = p[r][j]
           T == {k \in Nat : \E r \in Ranges : Size(r) = k /\ Inside(r) /\ g[r] # hash[r]}
<1>2. <<0, size>> \in Ranges
  BY DEF Ranges
<1>3. T = {}
  <2> SUFFICES ASSUME T # {} PROVE FALSE
    OBVIOUS
  <2>1. PICK k \in T : \A j \in T : k <= j
    <3>1. T \subseteq Nat
      OBVIOUS
    <3> HIDE DEF T
    <3> QED BY <3>1, LeastNatural
  <2>2. PICK r \in Ranges : Size(r) = k /\ Inside(r) /\ g[r] # hash[r]
    BY <2>1
  <2>3. CASE Size(r) = 1
    <3>1. r[1] \in Nat /\ r[2] \in Nat /\ r = <<r[1], r[2]>>
      BY DEF Ranges
    <3>2. r[1] = index /\ r[2] = index + 1
      BY <2>2, <2>3, <3>1, SMTT(30) DEF Size
    <3>3. g[r] = leafHash
      BY <1>1, <2>3 DEF RootsOf
    <3> QED
      BY <2>2, <3>1, <3>2, <3>3
  <2>4. CASE Size(r) # 1
    <3> DEFINE u == partOf(index, r)
               v == sibling(index, r)
               n == pathLen(index, u)
    <3>1. u \in Ranges /\ Size(u) < Size(r) /\ v \in Ranges /\ index \in u[1]..(u[2] - 1)
      BY <2>2, <2>4, PartsOf
    <3>2. p[r] = Append(p[u], hash[v])
      BY <2>4 DEF ProofsOf
    <3>3. n \in Nat /\ Len(p[u]) = n /\ p[u] \in Seq({hash[q] : q \in Ranges})
      BY <3>1, ProofLength, SMTT(30)
    <3>4. /\ Len(p[r]) = n + 1 /\ p[r][n + 1] = hash[v]
          /\ \A j \in 1..n : p[r][j] = p[u][j]
      <4> HIDE DEF u, v, n
      <4> QED BY <3>2, <3>3, SMTT(30)
    <3>5. Len(full) \in Nat
      BY <1>2, ProofLength
    <3>6. Inside(u)
      <4> HIDE DEF u, v, n, full
      <4> QED BY <3>1, <3>3, <3>4, <3>5, <2>2
    <3>7. g[u] = hash[u]
      <4> HIDE DEF u, Inside
      <4>1. Size(u) \in Nat /\ Size(u) < k /\ k \in Nat
        BY <2>2, <3>1, SizeNat
      <4>2. Size(u) \notin T
        <5> HIDE DEF T
        <5> QED BY <2>1, <4>1
      <4> QED BY <4>1, <4>2, <3>1, <3>6
    <3>8. full[n + 1] = hash[v] /\ Len(full) # 0 /\ ~ (n >= Len(full))
      <4> HIDE DEF u, v, n, full
      <4> QED BY <2>2, <3>3, <3>4, <3>5
    <3>9. g[r] = IF index < mid(r) THEN InteriorHash(hash[u], hash[v]) ELSE InteriorHash(hash[v], hash[u])
      <4> HIDE DEF full
      <4> QED BY <1>1, <2>4, <3>7, <3>8 DEF RootsOf
    <3>10. hash[r] = InteriorHash(hash[<<r[1], mid(r)>>], hash[<<mid(r), r[2]>>])
      BY <2>4 DEF TreeHash
    <3> QED
      BY <2>2, <3>9, <3>10 DEF partOf, sibling
  <2> QED
    BY <2>3, <2>4
<1>4. Inside(<<0, size>>)
  BY <1>2, ProofLength
<1>5. g[<<0, size>>] = hash[<<0, size>>]
  BY <1>2, <1>3, <1>4, SizeNat
<1> QED
  BY <1>1, <1>5

\* merkle.InclusionProof and merkle.RootFromInclusionProof fit together: for every
\* tree and every leaf of it, the proof leads from the leaf to the tree hash.
THEOREM InclusionProofVerifies ==
    ASSUME NEW hashAt, NEW size \in Nat \ {0}, NEW index \in 0..(size - 1)
    PROVE  RootFromInclusionProof(index, size, hashAt[index], InclusionProof(index, size, hashAt))
               = MTH(size, hashAt)
<1> DEFINE hash == LeafHashes(hashAt)
<1>1. TreeHash(hash) /\ hash[<<index, index + 1>>] = hashAt[index] /\ MTH(size, hashAt) = hash[<<0, size>>]
  BY LeafHashesTree
<1>2. PICK p : /\ \A n : InclusionProof(index, n, hashAt) = p[<<0, n>>]
               /\ ProofsOf(p, index, hash)
  BY InclusionProofIs
<1> HIDE DEF hash
<1>3. RootFromInclusionProof(index, size, hash[<<index, index + 1>>], p[<<0, size>>]) = hash[<<0, size>>]
  BY <1>1, <1>2, ProofLeadsToRoot
<1> QED
  BY <1>1, <1>2, <1>3

\* merkle.RootFromInclusionProof binds: of all the proofs with as many hashes as the
\* path has, only InclusionProof's leads to the tree hash, and only from the leaf
\* that is at the index.  This is what makes an accepted proof say something of the
\* log (it rests on hashes that are free of collisions).
THEOREM InclusionProofBinds ==
    ASSUME NEW hashAt, NEW size \in Nat \ {0}, NEW index \in 0..(size - 1), NEW leafHash,
           NEW S, NEW proof \in Seq(S), Len(proof) = pathLen(index, <<0, size>>),
           RootFromInclusionProof(index, size, leafHash, proof) = MTH(size, hashAt)
    PROVE  leafHash = hashAt[index] /\ proof = InclusionProof(index, size, hashAt)
<1> DEFINE hash == LeafHashes(hashAt)
<1>1. TreeHash(hash) /\ hash[<<index, index + 1>>] = hashAt[index] /\ MTH(size, hashAt) = hash[<<0, size>>]
  BY LeafHashesTree
<1>2. PICK p : /\ \A n : InclusionProof(index, n, hashAt) = p[<<0, n>>]
               /\ ProofsOf(p, index, hash)
  BY InclusionProofIs
<1>3. PICK g : /\ \A n : RootFromInclusionProof(index, n, leafHash, proof) = g[<<0, n>>]
               /\ RootsOf(g, index, leafHash, proof)
  BY RootFromProofIs
<1> HIDE DEF hash
<1> DEFINE Fits(r) == index \in r[1]..(r[2] - 1) /\ pathLen(index, r) <= Len(proof) /\ g[r] = hash[r]
           Bound(r) == /\ leafHash = hash[<<index, index + 1>>]
                       /\ \A j \in 1..pathLen(index, r) : proof[j] = p[r][j]
           T == {k \in Nat : \E r \in Ranges : Size(r) = k /\ Fits(r) /\ ~Bound(r)}
<1>4. T = {}
  <2> SUFFICES ASSUME T # {} PROVE FALSE
    OBVIOUS
  <2>1. PICK k \in T : \A j \in T : k <= j
    <3>1. T \subseteq Nat
      OBVIOUS
    <3> HIDE DEF T
    <3> QED BY <3>1, LeastNatural
  <2>2. PICK r \in Ranges : Size(r) = k /\ Fits(r) /\ ~Bound(r)
    BY <2>1
  <2>3. CASE Size(r) = 1
    <3>1. r[1] \in Nat /\ r[2] \in Nat /\ r = <<r[1], r[2]>>
      BY DEF Ranges
    <3>2. r[1] = index /\ r[2] = index + 1
      <4>1. index \in r[1]..(r[2] - 1)
        BY <2>2
      <4>2. r[2] - r[1] = 1
        BY <2>3 DEF Size
      <4>3. index \in Nat
        OBVIOUS
      <4> QED BY ONLY <3>1, <4>1, <4>2, <4>3
    <3>3. g[r] = leafHash
      BY <1>3, <2>3 DEF RootsOf
    <3>4. pathLen(index, r) = 0
      BY <2>3, PathLenIs
    <3>5. r = <<index, index + 1>>
      BY <3>1, <3>2
    <3>6. leafHash = hash[<<index, index + 1>>]
      BY <2>2, <3>3, <3>5
    <3>7. Bound(r)
      BY <3>4, <3>6
    <3> QED
      BY <2>2, <3>7
  <2>4. CASE Size(r) # 1
    <3> DEFINE u == partOf(index, r)
               v == sibling(index, r)
               n == pathLen(index, u)
    <3>1. u \in Ranges /\ Size(u) < Size(r) /\ v \in Ranges /\ index \in u[1]..(u[2] - 1)
      BY <2>2, <2>4, PartsOf
    <3>2. p[r] = Append(p[u], hash[v])
      BY <1>2, <2>4 DEF ProofsOf
    <3>3. n \in Nat /\ Len(p[u]) = n /\ p[u] \in Seq({hash[q] : q \in Ranges})
      <4> HIDE DEF u, T, Fits, Bound
      <4>1. ProofsOf(p, index, hash) /\ u \in Ranges
        BY <1>2, <3>1
      <4> QED BY ONLY <4>1, ProofLength
    <3>4. /\ p[r][n + 1] = hash[v]
          /\ \A j \in 1..n : p[r][j] = p[u][j]
      <4> HIDE DEF u, v, n
      <4> QED BY <3>2, <3>3
    <3>5. pathLen(index, r) = n + 1 /\ Len(proof) \in Nat
      BY <2>4, <3>3, PathLenIs
    <3>6. Len(proof) # 0 /\ ~ (n >= Len(proof))
      <4> HIDE DEF n
      <4> QED BY <2>2, <3>3, <3>5
    <3>7. g[r] = IF index < mid(r) THEN InteriorHash(g[u], proof[n + 1]) ELSE InteriorHash(proof[n + 1], g[u])
      BY <1>3, <2>4, <3>6 DEF RootsOf
    <3>8. hash[r] = InteriorHash(hash[<<r[1], mid(r)>>], hash[<<mid(r), r[2]>>])
      BY <1>1, <2>4 DEF TreeHash
    <3>9. g[u] = hash[u] /\ proof[n + 1] = hash[v]
      <4>1. CASE index < mid(r)
        <5>1. u = <<r[1], mid(r)>> /\ v = <<mid(r), r[2]>>
          BY <4>1 DEF partOf, sibling
        <5>2. InteriorHash(g[u], proof[n + 1]) = InteriorHash(hash[u], hash[v])
          BY <4>1, <5>1, <3>7, <3>8, <2>2
        <5> HIDE DEF u, v, n
        <5> QED BY <5>2 DEF InteriorHash
      <4>2. CASE ~ (index < mid(r))
        <5>1. u = <<mid(r), r[2]>> /\ v = <<r[1], mid(r)>>
          BY <4>2 DEF partOf, sibling
        <5>2. InteriorHash(proof[n + 1], g[u]) = InteriorHash(hash[v], hash[u])
          BY <4>2, <5>1, <3>7, <3>8, <2>2
        <5> HIDE DEF u, v, n
        <5> QED BY <5>2 DEF InteriorHash
      <4> QED BY <4>1, <4>2
    <3>10. Fits(u)
      <4> HIDE DEF u, n
      <4> QED BY <3>1, <3>3, <3>5, <3>9, <2>2 DEF n
    <3>11. Bound(u)
      <4> HIDE DEF u, Fits, Bound
      <4>1. Size(u) \in Nat /\ Size(u) < k /\ k \in Nat
        BY <2>2, <3>1, SizeNat
      <4>2. Size(u) \notin T
        <5> HIDE DEF T
        <5> QED BY <2>1, <4>1
      <4> QED BY <4>1, <4>2, <3>1, <3>10
    <3>12. Bound(r)
      <4>1. ASSUME NEW j \in 1..(n + 1) PROVE proof[j] = p[r][j]
        <5>1. CASE j = n + 1
          BY <5>1, <3>4, <3>9
        <5>2. CASE j # n + 1
          <6>1. j \in 1..n
            <7> HIDE DEF n
            <7> QED BY <5>2, <3>3
          <6> QED BY <6>1, <3>4, <3>11
        <5> QED BY <5>1, <5>2
      <4> QED
        BY <4>1, <3>5, <3>11
    <3> QED
      BY <2>2, <3>12
  <2> QED
    BY <2>3, <2>4
<1>5. <<0, size>> \in Ranges
  BY DEF Ranges
<1>6. Fits(<<0, size>>)
  <2>1. g[<<0, size>>] = hash[<<0, size>>]
    BY <1>1, <1>3
  <2>2. Len(proof) \in Nat
    OBVIOUS
  <2> QED
    BY <2>1, <2>2
<1>7. Bound(<<0, size>>)
  <2> HIDE DEF Fits, Bound
  <2> QED BY <1>4, <1>5, <1>6, SizeNat
<1>8. Len(p[<<0, size>>]) = Len(proof) /\ p[<<0, size>>] \in Seq({hash[q] : q \in Ranges})
  BY <1>2, <1>5, ProofLength
<1>9. proof = p[<<0, size>>]
  <2>1. \A j \in 1..Len(proof) : proof[j] = p[<<0, size>>][j]
    BY <1>7
  <2> QED
    BY <2>1, <1>8, SMTT(30)
<1> QED
  BY <1>1, <1>2, <1>7, <1>9

-----------------------------------------------------------------------------
(* Values that are built one step after the other.                         *)

\* What a step makes of the value so far.
ChainStep(op, v) ==
    CASE op.how = "left"   -> InteriorHash(v, op.arg)
      [] op.how = "right"  -> InteriorHash(op.arg, v)
      [] op.how = "concat" -> v \o op.arg
      [] op.how = "append" -> Append(v, op.arg)
      [] op.how = "keep"   -> v

\* f has the values from a on, in n steps.
ChainOf(f, n, a, op) == f = [i \in 0..n |-> IF i = 0 THEN a ELSE ChainStep(op[i], f[i - 1])]

LEMMA ChainExists ==
    ASSUME NEW n \in Nat, NEW a, NEW op
    PROVE  \E f : ChainOf(f, n, a, op)
<1> DEFINE T == {v \in Nat : ~ \E f : ChainOf(f, v, a, op)}
<1> SUFFICES ASSUME T # {} PROVE FALSE
  OBVIOUS
<1>1. PICK v \in T : \A u \in T : v <= u
  <2>1. T \subseteq Nat
    OBVIOUS
  <2> HIDE DEF T
  <2> QED BY <2>1, LeastNatural
<1>2. v \in Nat /\ ~ \E f : ChainOf(f, v, a, op)
  BY <1>1
<1>3. v # 0
  <2> SUFFICES ASSUME v = 0 PROVE FALSE
    OBVIOUS
  <2>1. ChainOf([i \in 0..0 |-> a], v, a, op)
    BY DEF ChainOf
  <2> QED BY <1>2, <2>1
<1>4. v - 1 \in Nat /\ v - 1 \notin T
  <2> HIDE DEF T
  <2> QED BY <1>1, <1>2, <1>3
<1>5. PICK f : ChainOf(f, v - 1, a, op)
  BY <1>4
<1> DEFINE g == [i \in 0..v |-> IF i = v THEN ChainStep(op[v], f[v - 1]) ELSE f[i]]
<1>6. ASSUME NEW i \in 0..v PROVE g[i] = IF i = 0 THEN a ELSE ChainStep(op[i], g[i - 1])
  <2>1. CASE i = v
    <3>1. i - 1 \in 0..v /\ i - 1 # v /\ i # 0
      BY <1>2, <1>3, <2>1
    <3> QED BY <2>1, <3>1
  <2>2. CASE i # v
    <3>1. i \in 0..(v - 1) /\ (i # 0 => i - 1 \in 0..v /\ i - 1 # v)
      BY <1>2, <2>2
    <3>2. f[i] = IF i = 0 THEN a ELSE ChainStep(op[i], f[i - 1])
      BY <1>5, <3>1 DEF ChainOf
    <3> QED BY <2>2, <3>1, <3>2
  <2> QED BY <2>1, <2>2
<1>7. g = [i \in 0..v |-> g[i]]
  OBVIOUS
<1> HIDE DEF g
<1>8. ChainOf(g, v, a, op)
  BY <1>6, <1>7 DEF ChainOf
<1> QED
  BY <1>2, <1>8

-----------------------------------------------------------------------------
(* Inclusion proofs that are checked by the bits of the index.             *)

\* w has the hashes on the way from a leaf to the root, at each level on the side
\* that the parity of the index says.
WalksUp(w, index, leafHash, proof) ==
    /\ w[0] = leafHash
    /\ \A i \in 1..Len(proof) :
          w[i] = IF Shift(index, i - 1) % 2 = 0 THEN InteriorHash(w[i - 1], proof[i])
                                               ELSE InteriorHash(proof[i], w[i - 1])

\* VerifyInclusion.
LEMMA VerifyInclusionIs ==
    ASSUME NEW leafHash, NEW index, NEW proof, Len(proof) \in Nat
    PROVE  \E w : /\ WalksUp(w, index, leafHash, proof)
                  /\ \A size, root : VerifyInclusion(leafHash, index, size, proof, root)
                                         <=> index \in 0..(size - 1) /\ w[Len(proof)] = root
<1> DEFINE h == CHOOSE h : h = [i \in 0..Len(proof) |->
                    IF i = 0 THEN leafHash
                    ELSE IF Shift(index, i - 1) % 2 = 0 THEN InteriorHash(h[i - 1], proof[i])
                                                       ELSE InteriorHash(proof[i], h[i - 1])]
           op == [i \in 1..Len(proof) |->
                     [how |-> IF Shift(index, i - 1) % 2 = 0 THEN "left" ELSE "right", arg |-> proof[i]]]
<1>1. PICK f : ChainOf(f, Len(proof), leafHash, op)
  <2> HIDE DEF op
  <2> QED BY ChainExists
<1>2. ASSUME NEW i \in 0..Len(proof), i # 0
      PROVE  ChainStep(op[i], f[i - 1]) = IF Shift(index, i - 1) % 2 = 0
                                          THEN InteriorHash(f[i - 1], proof[i])
                                          ELSE InteriorHash(proof[i], f[i - 1])
  BY <1>2 DEF ChainStep
<1> HIDE DEF op
<1>3. f = [i \in 0..Len(proof) |->
              IF i = 0 THEN leafHash
              ELSE IF Shift(index, i - 1) % 2 = 0 THEN InteriorHash(f[i - 1], proof[i])
                                                 ELSE InteriorHash(proof[i], f[i - 1])]
  BY <1>1, <1>2 DEF ChainOf
<1>4. h = [i \in 0..Len(proof) |->
              IF i = 0 THEN leafHash
              ELSE IF Shift(index, i - 1) % 2 = 0 THEN InteriorHash(h[i - 1], proof[i])
                                                 ELSE InteriorHash(proof[i], h[i - 1])]
  BY <1>3, Zenon
<1>5. \A size, root : VerifyInclusion(leafHash, index, size, proof, root)
                          <=> index \in 0..(size - 1) /\ h[Len(proof)] = root
  BY Zenon DEF VerifyInclusion
<1> HIDE DEF h
<1>6. WalksUp(h, index, leafHash, proof)
  BY <1>4 DEF WalksUp
<1> QED
  BY <1>5, <1>6

\* In the trees of F, down to the leaf, the sides are those of the index's bits.
BitsLead(F, index) ==
    \A q \in F :
        /\ q \in Ranges /\ index \in q[1]..(q[2] - 1)
        /\ Size(q) # 1 =>
              /\ partOf(index, q) \in F
              /\ (index < mid(q) <=> Shift(index, pathLen(index, partOf(index, q))) % 2 = 0)

\* In such a tree the walk by bits leads to the root, for any tree hash.
LEMMA WalkLeads ==
    ASSUME NEW hash, TreeHash(hash), NEW index, NEW p, ProofsOf(p, index, hash),
           NEW F, BitsLead(F, index), NEW top \in F,
           NEW w, WalksUp(w, index, hash[<<index, index + 1>>], p[top])
    PROVE  w[Len(p[top])] = hash[top]
<1> DEFINE full == p[top]
           Inside(r) == /\ r \in F /\ Len(p[r]) <= Len(full)
                        /\ \A j \in 1..Len(p[r]) : full[j] = p[r][j]
           T == {k \in Nat : \E r \in Ranges : Size(r) = k /\ Inside(r) /\ w[Len(p[r])] # hash[r]}
           H == {hash[q] : q \in Ranges}
<1>1. ASSUME NEW r \in Ranges
      PROVE  pathLen(index, r) \in Nat /\ Len(p[r]) = pathLen(index, r) /\ p[r] \in Seq(H)
  BY ProofLength
<1> HIDE DEF H
<1>2. top \in Ranges
  BY DEF BitsLead
<1>3. T = {}
  <2> SUFFICES ASSUME T # {} PROVE FALSE
    OBVIOUS
  <2>1. PICK k \in T : \A j \in T : k <= j
    <3>1. T \subseteq Nat
      OBVIOUS
    <3> HIDE DEF T
    <3> QED BY <3>1, LeastNatural
  <2>2. PICK r \in Ranges : Size(r) = k /\ Inside(r) /\ w[Len(p[r])] # hash[r]
    BY <2>1
  <2>3. index \in r[1]..(r[2] - 1)
    BY <2>2 DEF BitsLead
  <2>4. CASE Size(r) = 1
    <3>1. r[1] \in Nat /\ r[2] \in Nat /\ r = <<r[1], r[2]>>
      BY DEF Ranges
    <3>2. r[1] = index /\ r[2] = index + 1
      BY <2>3, <2>4, <3>1, SMTT(30) DEF Size
    <3>3. Len(p[r]) = 0
      BY <2>4 DEF ProofsOf
    <3> QED
      BY <2>2, <3>1, <3>2, <3>3 DEF WalksUp
  <2>5. CASE Size(r) # 1
    <3> DEFINE u == partOf(index, r)
               v == sibling(index, r)
               n == pathLen(index, u)
    <3>1. u \in Ranges /\ Size(u) < Size(r) /\ v \in Ranges
      BY <2>5, PartsOf
    <3>2. p[r] = Append(p[u], hash[v]) /\ hash[v] \in H
      BY <2>5, <3>1 DEF ProofsOf, H
    <3>3. n \in Nat /\ Len(p[u]) = n /\ p[u] \in Seq(H)
      <4> HIDE DEF u
      <4> QED BY <1>1, <3>1
    <3>4. /\ Len(p[r]) = n + 1 /\ p[r][n + 1] = hash[v]
          /\ \A j \in 1..n : p[r][j] = p[u][j]
      <4> HIDE DEF u, v, n
      <4> QED BY <3>2, <3>3, SMTT(30)
    <3>5. Len(full) \in Nat
      BY <1>2, ProofLength
    <3>6. Inside(u)
      <4>1. u \in F
        BY <2>2, <2>5 DEF BitsLead
      <4> HIDE DEF u, v, n, full
      <4> QED BY <4>1, <3>3, <3>4, <3>5, <2>2
    <3>7. w[n] = hash[u]
      <4> HIDE DEF u, n, Inside
      <4>1. Size(u) \in Nat /\ Size(u) < k /\ k \in Nat
        BY <2>2, <3>1, SizeNat
      <4>2. Size(u) \notin T
        <5> HIDE DEF T
        <5> QED BY <2>1, <4>1
      <4> QED BY <4>1, <4>2, <3>1, <3>3, <3>6
    <3>8. full[n + 1] = hash[v] /\ n + 1 \in 1..Len(full)
      <4> HIDE DEF u, v, n, full
      <4> QED BY <2>2, <3>3, <3>4, <3>5
    <3>9. w[n + 1] = IF Shift(index, n) % 2 = 0 THEN InteriorHash(hash[u], hash[v])
                                                ELSE InteriorHash(hash[v], hash[u])
      <4>1. (n + 1) - 1 = n
        BY <3>3
      <4> HIDE DEF u, v, n
      <4> QED BY <3>7, <3>8, <4>1 DEF WalksUp
    <3>10. index < mid(r) <=> Shift(index, n) % 2 = 0
      BY <2>2, <2>5 DEF BitsLead
    <3>11. hash[r] = InteriorHash(hash[<<r[1], mid(r)>>], hash[<<mid(r), r[2]>>])
      BY <2>5 DEF TreeHash
    <3> QED
      BY <2>2, <3>4, <3>9, <3>10, <3>11 DEF partOf, sibling
  <2> QED
    BY <2>4, <2>5
<1>4. Inside(top)
  BY <1>2, ProofLength
<1> QED
  BY <1>2, <1>3, <1>4, SizeNat

\* The leaves whose indices differ from index in the low l bits only.
Block(index, l) == <<Shift(index, l) * 2^l, Shift(index, l) * 2^l + 2^l>>

LEMMA ShiftBounds ==
    ASSUME NEW index \in Nat, NEW l \in Nat
    PROVE  /\ Shift(index, l) \in Nat /\ Shift(index, l) * 2^l \in Nat
           /\ Shift(index, l) * 2^l <= index /\ index < Shift(index, l) * 2^l + 2^l
<1> DEFINE p == 2^l
           v == index \div p
           r == index % p
<1>1. p \in Nat /\ p > 0
  BY PowNat
<1> HIDE DEF p
<1>2. v \in Nat /\ r \in 0..(p - 1) /\ index = p * v + r
  BY <1>1
<1> HIDE DEF v, r
<1>3. v * p = p * v /\ v * p \in Nat
  BY <1>1, <1>2
<1>4. v * p <= index /\ index < v * p + p
  BY <1>1, <1>2, <1>3
<1> QED
  BY <1>2, <1>3, <1>4 DEF Shift, v, p

LEMMA ShiftValue ==
    ASSUME NEW index \in Nat, NEW l \in Nat, NEW d \in Nat, d * 2^l <= index, index < d * 2^l + 2^l
    PROVE  Shift(index, l) = d
<1> DEFINE p == 2^l
           x == index - d * p
<1>1. p \in Nat \ {0}
  BY PowNat
<1> HIDE DEF p
<1>2. d * p \in Nat
  BY <1>1
<1>3. x \in 0..(p - 1) /\ index = x + d * p
  BY <1>1, <1>2 DEF p
<1> HIDE DEF x
<1>4. (x + d * p) \div p = d
  BY <1>1, <1>3, DivSum
<1> QED
  BY <1>3, <1>4 DEF Shift, p

\* A block of more than one leaf has the block of the next bit as the index's part.
LEMMA BlockPart ==
    ASSUME NEW index \in Nat, NEW l \in Nat
    PROVE  /\ Block(index, l + 1) \in Ranges /\ Size(Block(index, l + 1)) # 1
           /\ partOf(index, Block(index, l + 1)) = Block(index, l)
           /\ index < mid(Block(index, l + 1)) <=> Shift(index, l) % 2 = 0
<1> DEFINE p == 2^l
           e == Shift(index, l + 1)
           a == e * 2^(l + 1)
           q == Block(index, l + 1)
<1>0. l + 1 \in Nat
  OBVIOUS
<1>1. p \in Nat /\ p > 0 /\ 2^(l + 1) = 2 * p /\ e \in Nat
  BY <1>0, PowNat, ShiftBounds
<1>2. a \in Nat /\ a <= index /\ index < a + 2^(l + 1)
  BY <1>0, ShiftBounds
<1>3. a = (2 * e) * p /\ a + p = (2 * e + 1) * p
  <2> HIDE DEF p, e
  <2>1. e * (2 * p) = (e * 2) * p
    BY <1>1, MultAssoc
  <2>2. e * 2 = 2 * e
    BY <1>1
  <2>3. (2 * e) * p + p = (2 * e + 1) * p
    BY <1>1
  <2>4. a = (2 * e) * p
    BY <1>1, <2>1, <2>2, Zenon
  <2> QED BY <2>3, <2>4, Zenon
<1>4. q = <<a, a + 2 * p>>
  BY <1>1 DEF Block
<1>5. splitPoint(2 * p) = p
  <2>1. 2 * p \in Nat /\ 2 * p > 1 /\ p < 2 * p
    BY <1>1
  <2> QED BY <2>1, SplitPointUnique
<1> HIDE DEF p, a, e, q
<1>6. q \in Ranges /\ Size(q) = 2 * p /\ Size(q) # 1 /\ mid(q) = a + p
  BY <1>1, <1>2, <1>4, <1>5 DEF Ranges, Size, mid
<1>7. CASE index < a + p
  <2>1. Shift(index, l) = 2 * e
    BY <1>1, <1>2, <1>3, <1>7, ShiftValue DEF p
  <2>2. (2 * e) % 2 = 0
    BY <1>1
  <2>3. partOf(index, q) = <<a, a + p>>
    BY <1>4, <1>6, <1>7 DEF partOf
  <2>4. Block(index, l) = <<a, a + p>>
    BY <1>3, <2>1 DEF Block, p
  <2> QED BY <1>6, <1>7, <2>1, <2>2, <2>3, <2>4 DEF q
<1>8. CASE ~ (index < a + p)
  <2>1. Shift(index, l) = 2 * e + 1
    <3>1. 2 * e + 1 \in Nat /\ (2 * e + 1) * 2^l <= index /\ index < (2 * e + 1) * 2^l + 2^l
      BY <1>1, <1>2, <1>3, <1>8 DEF p
    <3> QED BY <3>1, ShiftValue
  <2>2. (2 * e + 1) % 2 = 1
    BY <1>1
  <2>3. partOf(index, q) = <<a + p, a + 2 * p>>
    BY <1>4, <1>6, <1>8 DEF partOf
  <2>4. Block(index, l) = <<a + p, a + 2 * p>>
    <3>1. Block(index, l) = <<a + p, (a + p) + p>>
      BY <1>3, <2>1 DEF Block, p
    <3> QED BY <3>1, <1>1, <1>2
  <2> QED BY <1>6, <1>8, <2>1, <2>2, <2>3, <2>4 DEF q
<1> QED BY <1>7, <1>8

\* The path in a block has as many hashes as the block has low bits.
LEMMA BlockLen ==
    ASSUME NEW index \in Nat, NEW l \in Nat
    PROVE  pathLen(index, Block(index, l)) = l
<1> DEFINE T == {k \in Nat : pathLen(index, Block(index, k)) # k}
<1> SUFFICES ASSUME T # {} PROVE FALSE
  OBVIOUS
<1>1. PICK k \in T : \A j \in T : k <= j
  <2>1. T \subseteq Nat
    OBVIOUS
  <2> HIDE DEF T
  <2> QED BY <2>1, LeastNatural
<1>2. k \in Nat /\ pathLen(index, Block(index, k)) # k
  BY <1>1
<1>3. k # 0
  <2> SUFFICES ASSUME k = 0 PROVE FALSE
    OBVIOUS
  <2>1. Block(index, 0) \in Ranges /\ Size(Block(index, 0)) = 1
    <3> DEFINE a == Shift(index, 0) * 2^0
    <3>0. 0 \in Nat /\ 2^0 = 1
      OBVIOUS
    <3>1. a \in Nat
      BY <3>0, ShiftBounds, Zenon
    <3>2. Block(index, 0) = <<a, a + 1>>
      BY <3>0, Zenon DEF Block
    <3> HIDE DEF a
    <3> QED BY <3>1, <3>2 DEF Ranges, Size
  <2> QED BY <1>2, <2>1, PathLenIs
<1>4. k - 1 \in Nat /\ k - 1 \notin T /\ (k - 1) + 1 = k
  <2> HIDE DEF T
  <2> QED BY <1>1, <1>2, <1>3
<1>5. pathLen(index, Block(index, k - 1)) = k - 1
  BY <1>4
<1>6. /\ Block(index, (k - 1) + 1) \in Ranges /\ Size(Block(index, (k - 1) + 1)) # 1
      /\ partOf(index, Block(index, (k - 1) + 1)) = Block(index, k - 1)
  BY <1>4, BlockPart
<1>7. pathLen(index, Block(index, k)) = 1 + (k - 1)
  BY <1>4, <1>5, <1>6, PathLenIs
<1> QED
  BY <1>2, <1>7

\* For the hashes of the leaves: the walk leads to the root of the tree.
LEMMA SidesLead ==
    ASSUME NEW hashAt, NEW size \in Nat \ {0}, NEW index \in 0..(size - 1),
           NEW F, BitsLead(F, index), <<0, size>> \in F,
           NEW w, WalksUp(w, index, hashAt[index], InclusionProof(index, size, hashAt))
    PROVE  w[Len(InclusionProof(index, size, hashAt))] = MTH(size, hashAt)
<1> DEFINE hash == LeafHashes(hashAt)
<1>1. index \in Nat
  OBVIOUS
<1>2. TreeHash(hash) /\ hash[<<index, index + 1>>] = hashAt[index] /\ MTH(size, hashAt) = hash[<<0, size>>]
  BY <1>1, LeafHashesTree
<1>3. PICK p : /\ \A n : InclusionProof(index, n, hashAt) = p[<<0, n>>]
               /\ ProofsOf(p, index, hash)
  BY InclusionProofIs
<1> HIDE DEF hash
<1>4. WalksUp(w, index, hash[<<index, index + 1>>], p[<<0, size>>])
  BY <1>2, <1>3
<1>5. w[Len(p[<<0, size>>])] = hash[<<0, size>>]
  BY <1>2, <1>3, <1>4, WalkLeads
<1> QED
  BY <1>2, <1>3, <1>5

\* In such a tree VerifyInclusion accepts the proof of InclusionProof.
LEMMA VerifyInclusionByBits ==
    ASSUME NEW hashAt, NEW size \in Nat \ {0}, NEW index \in 0..(size - 1),
           NEW F, BitsLead(F, index), <<0, size>> \in F
    PROVE  VerifyInclusion(hashAt[index], index, size, InclusionProof(index, size, hashAt), MTH(size, hashAt))
<1> DEFINE hash == LeafHashes(hashAt)
<1>1. index \in Nat
  OBVIOUS
<1>2. TreeHash(hash) /\ hash[<<index, index + 1>>] = hashAt[index] /\ MTH(size, hashAt) = hash[<<0, size>>]
  BY <1>1, LeafHashesTree
<1>3. PICK p : /\ \A n : InclusionProof(index, n, hashAt) = p[<<0, n>>]
               /\ ProofsOf(p, index, hash)
  BY InclusionProofIs
<1> HIDE DEF hash
<1>4. Len(p[<<0, size>>]) \in Nat
  <2>1. <<0, size>> \in Ranges
    BY DEF Ranges
  <2> QED BY <1>3, <2>1, ProofLength
<1>5. PICK w : /\ WalksUp(w, index, hash[<<index, index + 1>>], p[<<0, size>>])
               /\ \A n, root : VerifyInclusion(hash[<<index, index + 1>>], index, n, p[<<0, size>>], root)
                                   <=> index \in 0..(n - 1) /\ w[Len(p[<<0, size>>])] = root
  BY <1>4, VerifyInclusionIs
<1>6. w[Len(p[<<0, size>>])] = hash[<<0, size>>]
  BY <1>2, <1>3, <1>5, WalkLeads
<1> QED
  BY <1>2, <1>3, <1>5, <1>6

\* The blocks of a leaf, up to the complete tree of 2^h leaves.
LEMMA BlocksLead ==
    ASSUME NEW h \in Nat, NEW index \in 0..(2^h - 1)
    PROVE  \E F : BitsLead(F, index) /\ <<0, 2^h>> \in F
<1> DEFINE size == 2^h
           F    == {Block(index, l) : l \in 0..h}
<1>1. size \in Nat \ {0} /\ index \in Nat /\ index < size
  BY PowNat
<1>4. <<0, size>> = Block(index, h)
  <2>1. 0 * size = 0 /\ 0 + size = size
    BY <1>1
  <2>2. Shift(index, h) = 0
    BY <1>1, <2>1, ShiftValue
  <2> HIDE DEF size
  <2> QED BY <2>1, <2>2 DEF Block, size
<1>5. BitsLead(F, index)
  <2>1. ASSUME NEW l \in 0..h
        PROVE  LET q == Block(index, l)
               IN  /\ q \in Ranges /\ index \in q[1]..(q[2] - 1)
                   /\ Size(q) # 1 =>
                        /\ partOf(index, q) \in F
                        /\ (index < mid(q) <=> Shift(index, pathLen(index, partOf(index, q))) % 2 = 0)
    <3> DEFINE q == Block(index, l)
    <3>1. q \in Ranges /\ index \in q[1]..(q[2] - 1)
      <4>1. l \in Nat /\ 2^l \in Nat /\ 2^l > 0
        BY PowNat
      <4>2. /\ Shift(index, l) * 2^l \in Nat
            /\ Shift(index, l) * 2^l <= index /\ index < Shift(index, l) * 2^l + 2^l
        BY <1>1, <4>1, ShiftBounds
      <4> QED BY <1>1, <4>1, <4>2 DEF Block, Ranges
    <3>2. ASSUME Size(q) # 1
          PROVE  /\ partOf(index, q) \in F
                 /\ (index < mid(q) <=> Shift(index, pathLen(index, partOf(index, q))) % 2 = 0)
      <4>1. l # 0
        <5> SUFFICES ASSUME l = 0 PROVE FALSE
          OBVIOUS
        <5> DEFINE a == Shift(index, 0) * 2^0
        <5>0. 0 \in Nat /\ 2^0 = 1
          OBVIOUS
        <5>1. a \in Nat
          BY <1>1, <5>0, ShiftBounds, Zenon
        <5>2. Block(index, 0) = <<a, a + 1>>
          BY <5>0, Zenon DEF Block
        <5>3. q = Block(index, 0)
          OBVIOUS
        <5> HIDE DEF a, q
        <5>4. Size(q) = 1
          BY <5>1, <5>2, <5>3 DEF Size
        <5> QED BY <3>2, <5>4
      <4>2. l - 1 \in Nat /\ (l - 1) + 1 = l /\ l - 1 \in 0..h
        BY <4>1
      <4>3. /\ partOf(index, q) = Block(index, l - 1)
            /\ (index < mid(q) <=> Shift(index, l - 1) % 2 = 0)
        BY <1>1, <4>2, BlockPart
      <4>4. pathLen(index, Block(index, l - 1)) = l - 1
        BY <1>1, <4>2, BlockLen
      <4> QED BY <4>2, <4>3, <4>4
    <3> QED BY <3>1, <3>2
  <2> QED BY <2>1 DEF BitsLead
<1>6. <<0, size>> \in F
  <2> HIDE DEF size
  <2> QED BY <1>4
<1> HIDE DEF F
<1> QED BY <1>5, <1>6

\* merkle.VerifyInclusion, which goes by the bits of the index and never looks at
\* the size, accepts every proof of merkle.InclusionProof in a tree of 2^h leaves.
THEOREM VerifyInclusionCompleteTrees ==
    ASSUME NEW hashAt, NEW h \in Nat, NEW index \in 0..(2^h - 1)
    PROVE  VerifyInclusion(hashAt[index], index, 2^h, InclusionProof(index, 2^h, hashAt), MTH(2^h, hashAt))
<1>1. 2^h \in Nat \ {0}
  BY PowNat
<1>2. PICK F : BitsLead(F, index) /\ <<0, 2^h>> \in F
  BY BlocksLead
<1> DEFINE size == 2^h
<1> HIDE DEF size
<1>3. size \in Nat \ {0} /\ index \in 0..(size - 1) /\ <<0, size>> \in F
  BY <1>1, <1>2 DEF size
<1>4. VerifyInclusion(hashAt[index], index, size, InclusionProof(index, size, hashAt), MTH(size, hashAt))
  BY <1>2, <1>3, VerifyInclusionByBits
<1> QED BY <1>4 DEF size

\* The path of a leaf is no longer than the tree is high.
LEMMA PathBound ==
    ASSUME NEW index, NEW h \in Nat, NEW r \in Ranges, Size(r) <= 2^h
    PROVE  pathLen(index, r) \in 0..h
<1> DEFINE Bad(k) == \E q \in Ranges : Size(q) <= 2^k /\ pathLen(index, q) \notin 0..k
           T == {k \in Nat : Bad(k)}
<1> SUFFICES ASSUME T # {} PROVE FALSE
  OBVIOUS
<1>1. PICK k \in T : \A j \in T : k <= j
  <2>1. T \subseteq Nat
    OBVIOUS
  <2> HIDE DEF T
  <2> QED BY <2>1, LeastNatural
<1>2. k \in Nat
  OBVIOUS
<1>3. PICK q \in Ranges : Size(q) <= 2^k /\ pathLen(index, q) \notin 0..k
  BY <1>1
<1>4. Size(q) # 1
  <2>1. Size(q) = 1 => pathLen(index, q) = 0
    BY PathLenIs
  <2> QED BY <1>2, <1>3, <2>1
<1>5. Size(q) \in Nat /\ Size(q) > 1
  BY <1>4, Parts
<1>6. k # 0
  <2> SUFFICES ASSUME k = 0 PROVE FALSE
    OBVIOUS
  <2>1. 2^0 = 1
    OBVIOUS
  <2> QED BY <1>3, <1>5, <2>1
<1>7. k - 1 \in Nat /\ (k - 1) + 1 = k
  BY <1>2, <1>6
<1>8. k - 1 \notin T
  <2> HIDE DEF T
  <2> QED BY <1>1, <1>7
<1> DEFINE u == partOf(index, q)
           s == splitPoint(Size(q))
<1>9. u \in Ranges /\ pathLen(index, q) = 1 + pathLen(index, u)
  BY <1>4, PartsOf, PathLenIs
<1>10. s <= 2^(k - 1) /\ Size(q) - s <= 2^(k - 1)
  <2>1. s \in 1..(Size(q) - 1) /\ Size(q) <= 2 * s
    BY <1>5, SplitPointIs
  <2>2. PICK i \in Nat : s = 2^i
    BY <1>5, SplitPointIs
  <2>3. 2^k = 2 * 2^(k - 1) /\ 2^(k - 1) \in Nat /\ 2^i \in Nat
    BY <1>7, PowNat
  <2>4. ~ (k - 1 < i)
    <3> SUFFICES ASSUME k - 1 < i PROVE FALSE
      OBVIOUS
    <3>1. 2 * 2^(k - 1) <= 2^i
      BY <1>7, PowOrder
    <3> QED BY <1>3, <1>5, <2>1, <2>2, <2>3, <3>1
  <2>5. 2^i <= 2^(k - 1)
    <3>1. CASE i = k - 1
      BY <2>3, <3>1
    <3>2. CASE i < k - 1
      <4>1. 2 * 2^i <= 2^(k - 1)
        BY <1>7, <3>2, PowOrder
      <4> QED BY <2>3, <4>1
    <3> QED BY <1>7, <2>4, <3>1, <3>2
  <2> HIDE DEF s
  <2> QED BY <1>5, <2>1, <2>2, <2>3, <2>5
<1>11. Size(u) <= 2^(k - 1)
  <2>1. q[1] \in Nat /\ q[2] \in Nat /\ mid(q) = q[1] + s /\ Size(q) = q[2] - q[1]
    BY DEF Ranges, mid, Size
  <2>2. s \in Nat
    BY <1>5, SplitPointIs
  <2>3. u = <<q[1], mid(q)>> \/ u = <<mid(q), q[2]>>
    BY DEF partOf
  <2> HIDE DEF s, u
  <2>4. CASE u = <<q[1], mid(q)>>
    <3>1. Size(u) = s
      BY <2>1, <2>2, <2>4 DEF Size
    <3> QED BY <3>1, <1>10
  <2>5. CASE u = <<mid(q), q[2]>>
    <3>1. Size(u) = Size(q) - s
      BY <2>1, <2>2, <2>5 DEF Size
    <3> QED BY <3>1, <1>10
  <2> QED BY <2>3, <2>4, <2>5
<1>12. pathLen(index, u) \in 0..(k - 1)
  BY <1>7, <1>8, <1>9, <1>11
<1> HIDE DEF u
<1>13. pathLen(index, q) \in 0..k
  BY <1>2, <1>7, <1>9, <1>12
<1> QED
  BY <1>3, <1>13

\* The length of a path is a number.
LEMMA PathNat ==
    ASSUME NEW index, NEW r \in Ranges
    PROVE  pathLen(index, r) \in Nat
<1>1. Size(r) \in Nat
  BY SizeNat
<1>2. 2^Size(r) \in Nat /\ Size(r) < 2^Size(r)
  BY <1>1, PowNat, PowAbove
<1>3. Size(r) <= 2^Size(r)
  BY <1>1, <1>2
<1>4. pathLen(index, r) \in 0..Size(r)
  BY <1>1, <1>3, PathBound
<1> QED BY <1>1, <1>4

\* Those are all trees for the second leaf: it is on the right below, on the left above.
LEMMA SecondLeafBits ==
    ASSUME NEW F, F = {<<1, 2>>} \cup {<<0, e>> : e \in {n \in Nat : n > 1}}
    PROVE  BitsLead(F, 1)
<1>1. ASSUME NEW q \in F
      PROVE  /\ q \in Ranges /\ 1 \in q[1]..(q[2] - 1)
             /\ Size(q) # 1 =>
                   /\ partOf(1, q) \in F
                   /\ (1 < mid(q) <=> Shift(1, pathLen(1, partOf(1, q))) % 2 = 0)
  <2>1. CASE q = <<1, 2>>
    BY <2>1 DEF Ranges, Size
  <2>2. ASSUME NEW e \in Nat, e > 1, q = <<0, e>>
        PROVE  /\ q \in Ranges /\ 1 \in q[1]..(q[2] - 1)
               /\ partOf(1, q) \in F
               /\ (1 < mid(q) <=> Shift(1, pathLen(1, partOf(1, q))) % 2 = 0)
    <3>1. q \in Ranges /\ 1 \in q[1]..(q[2] - 1) /\ Size(q) # 1
      BY <2>2 DEF Ranges, Size
    <3>2. splitPoint(e) \in 1..(e - 1) /\ mid(q) = splitPoint(e)
      BY <2>2, SplitPointIs DEF mid
    <3>3. CASE e = 2
      <4>1. mid(q) = 1 /\ partOf(1, q) = <<1, 2>>
        BY <2>2, <3>2, <3>3 DEF partOf
      <4>2. pathLen(1, <<1, 2>>) = 0
        <5>1. <<1, 2>> \in Ranges /\ Size(<<1, 2>>) = 1
          BY DEF Ranges, Size
        <5> QED BY <5>1, PathLenIs
      <4>3. Shift(1, 0) % 2 = 1
        BY DEF Shift
      <4> QED BY <3>1, <4>1, <4>2, <4>3
    <3>4. CASE e # 2
      <4> DEFINE m == mid(q)
      <4>1. m \in Nat /\ m > 1
        BY <2>2, <3>2, <3>4, SplitPointIs
      <4>2. partOf(1, q) = <<0, m>>
        BY <2>2, <4>1 DEF partOf
      <4>3. <<0, m>> \in Ranges /\ Size(<<0, m>>) # 1
        BY <4>1 DEF Ranges, Size
      <4> HIDE DEF m
      <4>4. pathLen(1, <<0, m>>) = 1 + pathLen(1, partOf(1, <<0, m>>))
        BY <4>3, PathLenIs
      <4> DEFINE l == pathLen(1, partOf(1, <<0, m>>))
      <4>5. l \in Nat
        <5>1. partOf(1, <<0, m>>) \in Ranges
          BY <4>3, PartsOf
        <5> QED BY <5>1, PathNat
      <4> HIDE DEF l
      <4>6. 2^l \in Nat /\ 2^l > 0 /\ 2^(l + 1) = 2 * 2^l /\ l + 1 \in Nat
        BY <4>5, PowNat
      <4>7. Shift(1, l + 1) = 0
        <5>1. 0 * 2^(l + 1) <= 1 /\ 1 < 0 * 2^(l + 1) + 2^(l + 1)
          BY <4>6
        <5> QED BY <4>6, <5>1, ShiftValue
      <4>8. pathLen(1, partOf(1, q)) = l + 1
        BY <4>2, <4>4, <4>5 DEF l
      <4>9. Shift(1, l + 1) % 2 = 0
        BY <4>7
      <4>10. <<0, m>> \in F
        BY <4>1
      <4> QED BY <3>1, <4>1, <4>2, <4>8, <4>9, <4>10 DEF m
    <3> QED BY <3>3, <3>4
  <2> QED BY <2>1, <2>2
<1> QED
  BY <1>1, Zenon DEF BitsLead

LEMMA InclusionProofShort ==
    ASSUME NEW hashAt, NEW size \in Nat \ {0}, NEW index, NEW h \in Nat, size <= 2^h
    PROVE  /\ Len(InclusionProof(index, size, hashAt)) \in 0..h
           /\ \E H : InclusionProof(index, size, hashAt) \in Seq(H)
<1>1. PICK p : /\ \A n : InclusionProof(index, n, hashAt) = p[<<0, n>>]
               /\ ProofsOf(p, index, LeafHashes(hashAt))
  BY InclusionProofIs
<1>2. <<0, size>> \in Ranges /\ Size(<<0, size>>) <= 2^h
  BY DEF Ranges, Size
<1> DEFINE H == {LeafHashes(hashAt)[q] : q \in Ranges}
<1>3. Len(p[<<0, size>>]) = pathLen(index, <<0, size>>) /\ p[<<0, size>>] \in Seq(H)
  BY <1>1, <1>2, ProofLength
<1>4. pathLen(index, <<0, size>>) \in 0..h
  BY <1>2, PathBound
<1> HIDE DEF H
<1> QED
  BY <1>1, <1>3, <1>4

-----------------------------------------------------------------------------
(* Hashes from stored rows.                                                *)

\* The hash of a range depends on its leaves only.
LEMMA HashOfLeaves ==
    ASSUME NEW f, NEW g, NEW s \in Nat, NEW e \in Nat, s < e, \A i \in s..(e - 1) : f[i] = g[i]
    PROVE  computeSubtreeHash(s, e, f) = computeSubtreeHash(s, e, g)
<1> DEFINE Same(a, b) == computeSubtreeHash(a, b, f) = computeSubtreeHash(a, b, g)
           T == {k \in Nat : \E a, b \in s..e : a < b /\ b - a = k /\ ~Same(a, b)}
<1> SUFFICES ASSUME T # {} PROVE FALSE
  <2>1. s \in s..e /\ e \in s..e /\ e - s \in Nat
    OBVIOUS
  <2> HIDE DEF Same
  <2>2. T = {} => Same(s, e)
    BY <2>1
  <2> QED
    BY <2>2 DEF Same
<1>1. PICK k \in T : \A j \in T : k <= j
  <2>1. T \subseteq Nat
    OBVIOUS
  <2> HIDE DEF T
  <2> QED BY <2>1, LeastNatural
<1>2. PICK a \in s..e, b \in s..e : a < b /\ b - a = k /\ ~Same(a, b)
  <2> HIDE DEF Same
  <2> QED BY <1>1
<1>3. a \in Nat /\ b \in Nat /\ k \in Nat
  BY <1>1, <1>2
<1>4. CASE b - a = 1
  <2>1. computeSubtreeHash(a, b, f) = f[a] /\ computeSubtreeHash(a, b, g) = g[a]
    BY <1>2, <1>3, <1>4, SubtreeHashIs
  <2> QED BY <2>1, <1>2, <1>3, <1>4
<1>5. CASE b - a # 1
  <2> DEFINE m == a + splitPoint(b - a)
  <2>1. splitPoint(b - a) \in 1..(b - a - 1)
    <3>1. b - a \in Nat /\ b - a > 1
      BY <1>2, <1>3, <1>5
    <3> QED BY <3>1, SplitPointIs
  <2>2. /\ computeSubtreeHash(a, b, f) = InteriorHash(computeSubtreeHash(a, m, f), computeSubtreeHash(m, b, f))
        /\ computeSubtreeHash(a, b, g) = InteriorHash(computeSubtreeHash(a, m, g), computeSubtreeHash(m, b, g))
    BY <1>2, <1>3, <1>5, SubtreeHashIs
  <2>3. m \in s..e /\ a < m /\ m < b /\ m - a \in Nat /\ b - m \in Nat /\ m - a < k /\ b - m < k
    BY <2>1, <1>2, <1>3
  <2> HIDE DEF m
  <2>4. m - a \notin T /\ b - m \notin T
    <3> HIDE DEF T
    <3> QED BY <1>1, <1>3, <2>3
  <2>5. Same(a, m) /\ Same(m, b)
    <3> HIDE DEF Same
    <3> QED BY <2>3, <2>4, <1>2
  <2> QED
    BY <1>2, <2>2, <2>5
<1> QED
  BY <1>4, <1>5

\* So does the proof of a leaf.
LEMMA ProofOfLeaves ==
    ASSUME NEW f, NEW g, NEW size \in Nat \ {0}, NEW index, \A i \in 0..(size - 1) : f[i] = g[i]
    PROVE  InclusionProof(index, size, f) = InclusionProof(index, size, g)
<1>1. PICK p : /\ \A m : InclusionProof(index, m, f) = p[<<0, m>>]
               /\ ProofsOf(p, index, LeafHashes(f))
  BY InclusionProofIs
<1>2. PICK q : /\ \A m : InclusionProof(index, m, g) = q[<<0, m>>]
               /\ ProofsOf(q, index, LeafHashes(g))
  BY InclusionProofIs
<1> DEFINE Bad(k) == \E r \in Ranges : Size(r) = k /\ r[2] <= size /\ p[r] # q[r]
           T == {k \in Nat : Bad(k)}
<1>3. T = {}
  <2> SUFFICES ASSUME T # {} PROVE FALSE
    OBVIOUS
  <2>1. PICK k \in T : \A j \in T : k <= j
    <3>1. T \subseteq Nat
      OBVIOUS
    <3> HIDE DEF T
    <3> QED BY <3>1, LeastNatural
  <2>2. PICK r \in Ranges : Size(r) = k /\ r[2] <= size /\ p[r] # q[r]
    BY <2>1
  <2>3. r[1] \in Nat /\ r[2] \in Nat /\ r[1] < r[2] /\ k \in Nat
    BY <2>1, <2>2 DEF Ranges
  <2>4. Size(r) # 1
    <3>1. Size(r) = 1 => p[r] = <<>> /\ q[r] = <<>>
      BY <1>1, <1>2 DEF ProofsOf
    <3> QED BY <2>2, <3>1
  <2> DEFINE u == partOf(index, r)
             s == sibling(index, r)
  <2>5. u \in Ranges /\ Size(u) < k /\ s \in Ranges
    BY <2>2, <2>4, PartsOf
  <2>6. u[2] <= size /\ s[2] <= size /\ s[1] \in Nat /\ s[2] \in Nat /\ s[1] < s[2]
    <3>1. mid(r) \in Nat /\ mid(r) < r[2]
      <4>1. <<mid(r), r[2]>> \in Ranges
        BY <2>4, Parts
      <4> QED BY <4>1 DEF Ranges
    <3>2. u[2] <= r[2] /\ s[2] <= r[2] /\ u[2] \in Nat
      BY <2>3, <3>1 DEF partOf, sibling
    <3>3. s[1] \in Nat /\ s[2] \in Nat /\ s[1] < s[2]
      <4> HIDE DEF s
      <4> QED BY <2>5 DEF Ranges
    <3> HIDE DEF u, s
    <3> QED BY <2>2, <2>3, <3>2, <3>3
  <2>7. p[r] = Append(p[u], LeafHashes(f)[s]) /\ q[r] = Append(q[u], LeafHashes(g)[s])
    BY <1>1, <1>2, <2>4 DEF ProofsOf
  <2> HIDE DEF u, s
  <2>8. LeafHashes(f)[s] = LeafHashes(g)[s]
    <3>1. \A i \in s[1]..(s[2] - 1) : f[i] = g[i]
      BY <2>6
    <3>2. computeSubtreeHash(s[1], s[2], f) = computeSubtreeHash(s[1], s[2], g)
      BY <2>6, <3>1, HashOfLeaves
    <3> QED BY <2>5, <3>2 DEF LeafHashes
  <2>9. p[u] = q[u]
    <3>1. Size(u) \in Nat
      BY <2>5, SizeNat
    <3>2. Size(u) \notin T
      <4> HIDE DEF T
      <4> QED BY <2>1, <2>3, <2>5, <3>1
    <3> QED BY <2>5, <2>6, <3>1, <3>2
  <2> QED BY <2>2, <2>7, <2>8, <2>9, Zenon
<1>4. <<0, size>> \in Ranges /\ <<0, size>>[2] <= size /\ Size(<<0, size>>) \in Nat
  BY DEF Ranges, Size
<1>5. p[<<0, size>>] = q[<<0, size>>]
  <2> DEFINE r == <<0, size>>
  <2>1. r \in Ranges /\ r[2] <= size /\ Size(r) \in Nat
    BY <1>4
  <2> HIDE DEF r
  <2>2. p[r] = q[r]
    BY <1>3, <2>1
  <2> QED BY <2>2 DEF r
<1> QED
  BY <1>1, <1>2, <1>5, Zenon

LEMMA PowInjective ==
    ASSUME NEW i \in Nat, NEW j \in Nat, 2^i = 2^j
    PROVE  i = j
<1>1. 2^i \in Nat /\ 2^i > 0 /\ 2^j \in Nat /\ 2^j > 0
  BY PowNat
<1>2. i < j => 2 * 2^i <= 2^j
  BY PowOrder
<1>3. j < i => 2 * 2^j <= 2^i
  BY PowOrder
<1> QED
  BY <1>1, <1>2, <1>3

LEMMA Log2Is ==
    ASSUME NEW h \in Nat
    PROVE  IsPowerOfTwo(2^h) /\ Log2(2^h) = h
<1>1. 2^h \in Nat /\ h \in 0..2^h
  BY PowNat, PowAbove
<1>2. \A i \in 0..2^h : 2^h = 2^i => i = h
  <2> SUFFICES ASSUME NEW i \in 0..2^h, 2^h = 2^i PROVE i = h
    OBVIOUS
  <2>1. i \in Nat
    BY <1>1
  <2> QED BY <2>1, PowInjective
<1>3. IsPowerOfTwo(2^h)
  BY <1>1, Zenon DEF IsPowerOfTwo
<1>4. Log2(2^h) = h
  BY <1>1, <1>2, Zenon DEF Log2
<1> QED
  BY <1>3, <1>4

\* A range that subtreeHashFromNodes may be asked for: it starts at a multiple of a
\* power of two that is at least as large as it is.
Aligned(s, e) == \E l, j \in Nat : s = j * 2^l /\ e - s <= 2^l

\* The rows of the complete subtrees of the first n leaves hold their hashes.
RowsHold(nodes, hashAt, n) ==
    \A l, j \in Nat : (j + 1) * 2^l <= n =>
        nodeAt(nodes, l, j) = computeSubtreeHash(j * 2^l, (j + 1) * 2^l, hashAt)

\* A multiple of a power of two is one of every smaller power.
LEMMA AlignedBelow ==
    ASSUME NEW l \in Nat, NEW j \in Nat, NEW i \in Nat, i <= l
    PROVE  \E d \in Nat : j * 2^l = d * 2^i /\ (d + 1) * 2^i = j * 2^l + 2^i
<1>1. PICK c \in Nat : 2^l = c * 2^i
  BY PowDivides
<1>2. 2^i \in Nat
  BY PowNat
<1>3. j * c \in Nat /\ j * (c * 2^i) = (j * c) * 2^i
  BY <1>2, MultAssoc
<1>4. ((j * c) + 1) * 2^i = (j * c) * 2^i + 2^i
  BY <1>2, <1>3
<1>5. j * 2^l = (j * c) * 2^i
  BY <1>1, <1>3, Zenon
<1> QED
  BY <1>3, <1>4, <1>5

LEMMA AlignedFromZero ==
    ASSUME NEW n \in Nat
    PROVE  Aligned(0, n)
<1>1. n < 2^n /\ 2^n \in Nat
  BY PowAbove, PowNat
<1>2. 0 = 0 * 2^n /\ n - 0 <= 2^n
  BY <1>1
<1> QED
  BY <1>2, Zenon DEF Aligned

\* The parts of an aligned range are aligned.
LEMMA PartsAligned ==
    ASSUME NEW r \in Ranges, Size(r) # 1, Aligned(r[1], r[2])
    PROVE  Aligned(r[1], mid(r)) /\ Aligned(mid(r), r[2])
<1> DEFINE a == r[1]
           b == r[2]
           m == mid(r)
<1>1. a \in Nat /\ b \in Nat /\ b - a \in Nat /\ b - a > 1
  BY DEF Ranges, Size
<1>2. PICK l \in Nat, j \in Nat : a = j * 2^l /\ b - a <= 2^l
  BY DEF Aligned
<1>3. /\ splitPoint(b - a) \in 1..(b - a - 1) /\ b - a <= 2 * splitPoint(b - a)
      /\ \E i \in Nat : splitPoint(b - a) = 2^i
  BY <1>1, SplitPointIs
<1>4. PICK i \in Nat : splitPoint(b - a) = 2^i
  BY <1>3
<1>5. m = a + 2^i /\ m - a <= 2^i /\ b - m <= 2^i /\ 2^i < 2^l /\ 2^l \in Nat
  <2>1. 2^i \in Nat /\ 2^l \in Nat
    BY PowNat
  <2>2. m = a + 2^i
    BY <1>4 DEF mid
  <2> HIDE DEF a, b, m
  <2> QED BY <2>1, <2>2, <1>1, <1>2, <1>3, <1>4
<1>6. i <= l
  <2>1. l < i => 2 * 2^l <= 2^i
    BY PowOrder
  <2> QED BY <1>5, <2>1, PowNat
<1>7. PICK d \in Nat : a = d * 2^i /\ (d + 1) * 2^i = a + 2^i
  <2>1. \E d \in Nat : j * 2^l = d * 2^i /\ (d + 1) * 2^i = j * 2^l + 2^i
    BY <1>6, AlignedBelow
  <2> QED BY <2>1, <1>2
<1>8. d + 1 \in Nat /\ m = (d + 1) * 2^i
  BY <1>5, <1>7
<1> HIDE DEF a, b, m
<1>9. Aligned(a, m) /\ Aligned(m, b)
  BY <1>5, <1>7, <1>8, Zenon DEF Aligned
<1> QED
  BY <1>9 DEF a, b, m

LEMMA OneIsPower == IsPowerOfTwo(1)
<1>1. 2^0 = 1 /\ 0 \in 0..1
  OBVIOUS
<1> QED BY <1>1, Zenon DEF IsPowerOfTwo

\* The stored rows and the leaves give the same hash to an aligned range.
LEMMA RowsGiveHashes ==
    ASSUME NEW hashAt, NEW nodes, NEW n \in Nat, RowsHold(nodes, hashAt, n),
           NEW s \in Nat, NEW e \in 0..n, s < e, Aligned(s, e)
    PROVE  subtreeHashFromNodes(s, e, nodes) = computeSubtreeHash(s, e, hashAt)
<1> DEFINE Same(a, b) == subtreeHashFromNodes(a, b, nodes) = computeSubtreeHash(a, b, hashAt)
           T == {k \in Nat : \E a, b \in 0..n : a < b /\ b - a = k /\ Aligned(a, b) /\ ~Same(a, b)}
<1> SUFFICES ASSUME T # {} PROVE FALSE
  <2>1. s \in 0..n /\ e \in 0..n /\ e - s \in Nat
    OBVIOUS
  <2> HIDE DEF Same
  <2>2. T = {} => Same(s, e)
    BY <2>1
  <2> QED
    BY <2>2 DEF Same
<1>1. PICK k \in T : \A j \in T : k <= j
  <2>1. T \subseteq Nat
    OBVIOUS
  <2> HIDE DEF T
  <2> QED BY <2>1, LeastNatural
<1>2. PICK a \in 0..n, b \in 0..n : a < b /\ b - a = k /\ Aligned(a, b) /\ ~Same(a, b)
  <2> HIDE DEF Same
  <2> QED BY <1>1
<1>3. a \in Nat /\ b \in Nat /\ k \in Nat
  BY <1>1, <1>2
<1>4. PICK l \in Nat, j \in Nat : a = j * 2^l /\ b - a <= 2^l
  BY <1>2 DEF Aligned
<1>5. CASE IsPowerOfTwo(b - a)
  <2>1. PICK h \in 0..(b - a) : b - a = 2^h
    BY <1>5 DEF IsPowerOfTwo
  <2>2. h \in Nat /\ 2^h \in Nat /\ 2^h > 0 /\ 2^l \in Nat /\ 2^h <= 2^l
    BY <1>3, <1>4, <2>1, PowNat
  <2>3. h <= l
    BY <2>2, PowOrder
  <2>4. PICK d \in Nat : a = d * 2^h /\ (d + 1) * 2^h = a + 2^h
    <3>1. \E d \in Nat : j * 2^l = d * 2^h /\ (d + 1) * 2^h = j * 2^l + 2^h
      <4> HIDE DEF T, Same
      <4>1. h \in Nat
        BY <2>2
      <4> QED BY ONLY <4>1, <2>3, l \in Nat, j \in Nat, AlignedBelow, ZenonT(30)
    <3> QED BY <3>1, <1>4
  <2>5. (d + 1) * 2^h = b
    BY <2>1, <2>2, <2>4, <1>3
  <2>6. Log2(b - a) = h
    BY <2>1, <2>2, Log2Is
  <2>7. Shift(a, h) = d
    BY <2>2, <2>4, DivMult DEF Shift
  <2>8. subtreeHashFromNodes(a, b, nodes) = nodeAt(nodes, h, d)
    BY <1>2, <1>3, <1>5, <2>6, <2>7, NodesHashIs
  <2>9. nodeAt(nodes, h, d) = computeSubtreeHash(d * 2^h, (d + 1) * 2^h, hashAt)
    BY <2>2, <2>5, <1>2 DEF RowsHold
  <2> QED
    BY <2>4, <2>5, <2>8, <2>9, <1>2
<1>6. CASE ~IsPowerOfTwo(b - a)
  <2> DEFINE m == a + splitPoint(b - a)
  <2>1. b - a # 1 /\ b - a \in Nat /\ b - a > 1
    BY <1>2, <1>3, <1>6, OneIsPower
  <2>2. splitPoint(b - a) \in 1..(b - a - 1)
    BY <2>1, SplitPointIs
  <2>3. /\ subtreeHashFromNodes(a, b, nodes)
             = InteriorHash(subtreeHashFromNodes(a, m, nodes), subtreeHashFromNodes(m, b, nodes))
        /\ computeSubtreeHash(a, b, hashAt)
             = InteriorHash(computeSubtreeHash(a, m, hashAt), computeSubtreeHash(m, b, hashAt))
    BY <1>2, <1>3, <1>6, <2>1, SubtreeHashIs, NodesHashIs, ZenonT(30)
  <2>4. m \in 0..n /\ a < m /\ m < b /\ m - a \in Nat /\ b - m \in Nat /\ m - a < k /\ b - m < k
    BY <2>2, <1>2, <1>3
  <2>5. Aligned(a, m) /\ Aligned(m, b)
    <3>1. <<a, b>> \in Ranges /\ Size(<<a, b>>) # 1 /\ mid(<<a, b>>) = m
      BY <1>2, <1>3, <2>1 DEF Ranges, Size, mid
    <3> HIDE DEF m
    <3> QED BY <3>1, <1>2, PartsAligned
  <2> HIDE DEF m
  <2>6. m - a \notin T /\ b - m \notin T
    <3> HIDE DEF T
    <3> QED BY <1>1, <1>3, <2>4
  <2>7. Same(a, m) /\ Same(m, b)
    <3> HIDE DEF Same
    <3> QED BY <2>4, <2>5, <2>6, <1>2
  <2> QED
    BY <1>2, <2>3, <2>7
<1> QED
  BY <1>5, <1>6

LEMMA RowsGiveRangeHash ==
    ASSUME NEW hashAt, NEW nodes, NEW n \in Nat, RowsHold(nodes, hashAt, n),
           NEW r \in Ranges, r[2] <= n, Aligned(r[1], r[2])
    PROVE  NodeHashes(nodes)[r] = LeafHashes(hashAt)[r]
<1>1. r[1] \in Nat /\ r[2] \in 0..n /\ r[1] < r[2]
  BY DEF Ranges
<1> QED
  BY <1>1, RowsGiveHashes DEF NodeHashes, LeafHashes

\* The rows that recomputeInterior keeps stand for the leaves: RootFromNodes, from
\* which handleConsistencyProof serves roots, computes the tree hash of every tree
\* whose complete subtrees have their rows.
THEOREM RootFromRows ==
    ASSUME NEW hashAt, NEW nodes, NEW n \in Nat, RowsHold(nodes, hashAt, n), NEW size \in 0..n
    PROVE  RootFromNodes(size, nodes) = MTH(size, hashAt)
<1>1. CASE size = 0
  BY <1>1 DEF RootFromNodes, MTH
<1>2. CASE size # 0
  <2>1. Aligned(0, size)
    BY AlignedFromZero
  <2>2. subtreeHashFromNodes(0, size, nodes) = computeSubtreeHash(0, size, hashAt)
    BY <2>1, <1>2, RowsGiveHashes
  <2> QED
    BY <2>2, <1>2 DEF RootFromNodes, MTH
<1> QED
  BY <1>1, <1>2

\* InclusionProofFromNodes, the O(log n) proof from stored rows, is the proof that
\* InclusionProof computes from the leaves, for every tree and every leaf of it.
THEOREM ProofFromRows ==
    ASSUME NEW hashAt, NEW nodes, NEW n \in Nat, RowsHold(nodes, hashAt, n),
           NEW size \in 1..n, NEW index \in 0..(size - 1)
    PROVE  InclusionProofFromNodes(index, size, nodes) = InclusionProof(index, size, hashAt)
<1>1. PICK p : /\ \A m : InclusionProofFromNodes(index, m, nodes) = p[<<0, m>>]
               /\ ProofsOf(p, index, NodeHashes(nodes))
  BY InclusionProofFromNodesIs
<1>2. PICK q : /\ \A m : InclusionProof(index, m, hashAt) = q[<<0, m>>]
               /\ ProofsOf(q, index, LeafHashes(hashAt))
  BY InclusionProofIs
<1> DEFINE T == {k \in Nat : \E r \in Ranges : /\ Size(r) = k /\ r[2] <= n /\ Aligned(r[1], r[2])
                                               /\ p[r] # q[r]}
<1>3. T = {}
  <2> SUFFICES ASSUME T # {} PROVE FALSE
    OBVIOUS
  <2>1. PICK k \in T : \A j \in T : k <= j
    <3>1. T \subseteq Nat
      OBVIOUS
    <3> HIDE DEF T
    <3> QED BY <3>1, LeastNatural
  <2>2. PICK r \in Ranges : Size(r) = k /\ r[2] <= n /\ Aligned(r[1], r[2]) /\ p[r] # q[r]
    BY <2>1
  <2>3. CASE Size(r) = 1
    BY <2>2, <2>3, <1>1, <1>2 DEF ProofsOf
  <2>4. CASE Size(r) # 1
    <3> DEFINE u == partOf(index, r)
               v == sibling(index, r)
    <3>1. u \in Ranges /\ Size(u) < Size(r) /\ v \in Ranges
      BY <2>4, PartsOf
    <3>2. mid(r) <= n
      <4>1. <<mid(r), r[2]>> \in Ranges
        BY <2>4, Parts
      <4> QED BY <4>1, <2>2 DEF Ranges
    <3>3. u[2] <= n /\ Aligned(u[1], u[2]) /\ v[2] <= n /\ Aligned(v[1], v[2])
      BY <2>2, <2>4, <3>2, PartsAligned DEF partOf, sibling
    <3> HIDE DEF u, v
    <3>4. p[u] = q[u]
      <4>1. Size(u) \in Nat /\ Size(u) < k /\ k \in Nat
        BY <2>2, <3>1, SizeNat
      <4>2. Size(u) \notin T
        <5> HIDE DEF T
        <5> QED BY <2>1, <4>1
      <4> QED BY <4>1, <4>2, <3>1, <3>3
    <3>5. NodeHashes(nodes)[v] = LeafHashes(hashAt)[v]
      BY <3>1, <3>3, RowsGiveRangeHash
    <3>6. p[r] = Append(p[u], NodeHashes(nodes)[v]) /\ q[r] = Append(q[u], LeafHashes(hashAt)[v])
      BY <1>1, <1>2, <2>4 DEF ProofsOf, u, v
    <3> QED
      BY <2>2, <3>4, <3>5, <3>6
  <2> QED
    BY <2>3, <2>4
<1>4. <<0, size>> \in Ranges /\ Aligned(0, size)
  BY AlignedFromZero DEF Ranges
<1>5. p[<<0, size>>] = q[<<0, size>>]
  BY <1>3, <1>4, SizeNat
<1> QED
  BY <1>1, <1>2, <1>5

-----------------------------------------------------------------------------
(* Consistency proofs.                                                     *)

\* The recursion of a consistency proof stays among the ranges with the last leaf
\* of the old tree; the old tree's part of such a range is split where the range is.
LEMMA SpanningParts ==
    ASSUME NEW old \in Nat \ {0}, NEW r \in Spanning(old), r[2] # old
    PROVE  /\ r \in Ranges /\ Size(r) # 1 /\ r[1] \in Nat /\ mid(r) \in Nat /\ r[2] \in Nat
           /\ partOf(old - 1, r) \in Spanning(old) /\ partOf(old - 1, r) \in Ranges
           /\ Size(partOf(old - 1, r)) < Size(r) /\ sibling(old - 1, r) \in Ranges
           /\ old <= mid(r) => /\ partOf(old - 1, r) = <<r[1], mid(r)>>
                               /\ sibling(old - 1, r) = <<mid(r), r[2]>>
           /\ ~ (old <= mid(r)) => /\ partOf(old - 1, r) = <<mid(r), r[2]>>
                                   /\ sibling(old - 1, r) = <<r[1], mid(r)>>
                                   /\ <<r[1], old>> \in Ranges /\ Size(<<r[1], old>>) # 1
                                   /\ mid(<<r[1], old>>) = mid(r)
<1>1. r \in Ranges /\ r[1] \in Nat /\ r[2] \in Nat /\ r[1] < old /\ old < r[2]
  BY DEF Spanning, Ranges
<1>2. Size(r) # 1
  BY <1>1 DEF Size
<1>3. /\ <<r[1], mid(r)>> \in Ranges /\ Size(<<r[1], mid(r)>>) < Size(r)
      /\ <<mid(r), r[2]>> \in Ranges /\ Size(<<mid(r), r[2]>>) < Size(r)
  BY <1>1, <1>2, Parts
<1>4. mid(r) \in Nat /\ r[1] < mid(r) /\ mid(r) < r[2]
  BY <1>3 DEF Ranges
<1>5. old - 1 < mid(r) <=> old <= mid(r)
  BY <1>4
<1>6. CASE old <= mid(r)
  <2>1. partOf(old - 1, r) = <<r[1], mid(r)>> /\ sibling(old - 1, r) = <<mid(r), r[2]>>
    BY <1>5, <1>6 DEF partOf, sibling
  <2>2. <<r[1], mid(r)>> \in Spanning(old)
    BY <1>1, <1>3, <1>6 DEF Spanning
  <2> QED
    BY <2>1, <2>2, <1>1, <1>2, <1>3, <1>4, <1>6
<1>7. CASE ~ (old <= mid(r))
  <2>1. partOf(old - 1, r) = <<mid(r), r[2]>> /\ sibling(old - 1, r) = <<r[1], mid(r)>>
    BY <1>5, <1>7 DEF partOf, sibling
  <2>2. <<mid(r), r[2]>> \in Spanning(old)
    BY <1>1, <1>3, <1>4, <1>7 DEF Spanning
  <2>3. <<r[1], old>> \in Ranges /\ Size(<<r[1], old>>) # 1
    BY <1>1, <1>4, <1>7 DEF Ranges, Size
  <2>4. PICK i \in Nat : splitPoint(r[2] - r[1]) = 2^i
    BY <1>1, SplitPointIs
  <2>5. 2^i < old - r[1] /\ old - r[1] <= 2 * 2^i /\ old - r[1] \in Nat /\ old - r[1] > 1
    <3>1. mid(r) = r[1] + 2^i /\ r[2] - r[1] <= 2 * 2^i /\ 2^i \in Nat
      BY <1>1, <2>4, SplitPointIs, PowNat DEF mid
    <3> QED BY <3>1, <1>1, <1>4, <1>7
  <2>6. splitPoint(old - r[1]) = 2^i
    BY <2>5, SplitPointUnique
  <2>7. mid(<<r[1], old>>) = mid(r)
    BY <2>4, <2>6 DEF mid
  <2> QED
    BY <2>1, <2>2, <2>3, <2>7, <1>1, <1>2, <1>3, <1>4, <1>7
<1> QED
  BY <1>6, <1>7

\* p has the consistency proofs for all ranges with the old tree's last leaf.
ConsistencyProofsOf(p, old, hash) ==
    \A r \in Spanning(old) :
        /\ r[2] = old => p[r] = IF r[1] = 0 THEN <<>> ELSE <<hash[r]>>
        /\ r[2] # old => p[r] = Append(p[partOf(old - 1, r)], hash[sibling(old - 1, r)])

\* The recursion starts at the whole new tree.
LEMMA SpanningAll ==
    ASSUME NEW old \in Nat \ {0}, NEW new \in Nat, old <= new
    PROVE  <<0, new>> \in Spanning(old) /\ <<0, new>> \in Ranges
  BY DEF Spanning, Ranges

\* h is defined by recursion over the spanning ranges: it is at[r] where the old
\* tree ends the range, and follows the part with the old tree's last leaf elsewhere.
SpanningRecursive(h, old, at, op) ==
    /\ h = [r \in Spanning(old) |-> h[r]]
    /\ \A r \in Spanning(old) :
          /\ r[2] = old => h[r] = at[r]
          /\ r[2] # old => \E other : h[r] =
                 Combine(op[r], IF op[r].left THEN h[partOf(old - 1, r)] ELSE other,
                                IF op[r].left THEN other ELSE h[partOf(old - 1, r)])

LEMMA SpanningRecursion ==
    ASSUME NEW old \in Nat \ {0}, NEW at, NEW op,
           \A r \in Ranges : op[r].left = (old - 1 < mid(r))
    PROVE  \E h : SpanningRecursive(h, old, at, op)
<1> DEFINE stop == {r \in Ranges : r \notin Spanning(old) \/ r[2] = old}
<1>1. \A r \in Ranges : Size(r) = 1 => r \in stop
  BY DEF Spanning, Ranges, Size
<1>2. PICK f : Recursive(f, stop, at, op)
  <2> HIDE DEF stop
  <2> QED BY <1>1, RecursionExists
<1> DEFINE h == [r \in Spanning(old) |-> f[r]]
<1>3. ASSUME NEW r \in Spanning(old), r[2] = old PROVE h[r] = at[r]
  <2>1. r \in Ranges /\ r \in stop
    BY <1>3 DEF Spanning
  <2> HIDE DEF stop
  <2> QED BY <1>2, <2>1 DEF Recursive
<1>4. ASSUME NEW r \in Spanning(old), r[2] # old
      PROVE  \E other : h[r] =
                 Combine(op[r], IF op[r].left THEN h[partOf(old - 1, r)] ELSE other,
                                IF op[r].left THEN other ELSE h[partOf(old - 1, r)])
  <2>1. r \in Ranges /\ r \notin stop /\ partOf(old - 1, r) \in Spanning(old)
    BY <1>4, SpanningParts
  <2> HIDE DEF stop
  <2>2. f[r] = Combine(op[r], f[<<r[1], mid(r)>>], f[<<mid(r), r[2]>>])
    BY <1>2, <2>1 DEF Recursive
  <2>3. h[r] = f[r] /\ h[partOf(old - 1, r)] = f[partOf(old - 1, r)]
    BY <2>1
  <2> HIDE DEF h
  <2>4. CASE op[r].left
    <3>1. partOf(old - 1, r) = <<r[1], mid(r)>>
      BY <2>1, <2>4 DEF partOf
    <3>2. h[r] = Combine(op[r], h[partOf(old - 1, r)], f[<<mid(r), r[2]>>])
      BY <2>2, <2>3, <3>1
    <3> QED BY <3>2, <2>4
  <2>5. CASE ~op[r].left
    <3>1. partOf(old - 1, r) = <<mid(r), r[2]>>
      BY <2>1, <2>5 DEF partOf
    <3>2. h[r] = Combine(op[r], f[<<r[1], mid(r)>>], h[partOf(old - 1, r)])
      BY <2>2, <2>3, <3>1
    <3> QED BY <3>2, <2>5
  <2> QED
    BY <2>4, <2>5
<1>5. h = [r \in Spanning(old) |-> h[r]]
  OBVIOUS
<1> HIDE DEF h
<1> QED
  BY <1>3, <1>4, <1>5 DEF SpanningRecursive

\* ConsistencyProofFromNodes.
LEMMA ConsistencyProofIs ==
    ASSUME NEW old \in Nat \ {0}, NEW nodes
    PROVE  \E p : /\ \A new : ConsistencyProofFromNodes(old, new, nodes)
                                  = IF old = new THEN <<>> ELSE p[<<0, new>>]
                  /\ ConsistencyProofsOf(p, old, NodeHashes(nodes))
<1> DEFINE hash(q) == subtreeHashFromNodes(q[1], q[2], nodes)
           Body(f, r) == IF r[2] = old
                         THEN IF r[1] = 0 THEN <<>> ELSE <<subtreeHashFromNodes(r[1], r[2], nodes)>>
                         ELSE LET other == sibling(old - 1, r)
                              IN  Append(f[partOf(old - 1, r)], subtreeHashFromNodes(other[1], other[2], nodes))
           h == CHOOSE h : h = [r \in Spanning(old) |-> Body(h, r)]
           at == [r \in Ranges |-> IF r[1] = 0 THEN <<>> ELSE <<hash(r)>>]
           op == [r \in Ranges |-> [how |-> "append", left |-> old - 1 < mid(r), arg |-> hash(sibling(old - 1, r))]]
<1>1. \A r \in Ranges : op[r].left = (old - 1 < mid(r))
  OBVIOUS
<1>2. PICK f : SpanningRecursive(f, old, at, op)
  <2> HIDE DEF at, op
  <2> QED BY <1>1, SpanningRecursion
<1>3. ASSUME NEW r \in Spanning(old) PROVE f[r] = Body(f, r)
  <2>1. r \in Ranges
    BY DEF Spanning
  <2>2. CASE r[2] = old
    BY <1>2, <2>1, <2>2 DEF SpanningRecursive
  <2>3. CASE r[2] # old
    <3>1. PICK other : f[r] = Combine(op[r], IF op[r].left THEN f[partOf(old - 1, r)] ELSE other,
                                             IF op[r].left THEN other ELSE f[partOf(old - 1, r)])
      BY <1>2, <2>3 DEF SpanningRecursive
    <3>2. f[r] = Append(f[partOf(old - 1, r)], hash(sibling(old - 1, r)))
      <4> HIDE DEF hash
      <4> QED BY <3>1, <2>1 DEF Combine
    <3> QED
      BY <3>2, <2>3
  <2> QED BY <2>2, <2>3
<1>4. f = [r \in Spanning(old) |-> Body(f, r)]
  <2> HIDE DEF Body
  <2> QED BY <1>2, <1>3 DEF SpanningRecursive
<1>5. h = [r \in Spanning(old) |-> Body(h, r)]
  <2> HIDE DEF Body, at, op
  <2> QED BY <1>4, Zenon
<1>6. \A new : ConsistencyProofFromNodes(old, new, nodes)
                   = IF old = 0 \/ old = new THEN <<>> ELSE h[<<0, new>>]
  BY Zenon DEF ConsistencyProofFromNodes
<1> HIDE DEF h
<1>7. \A r \in Spanning(old) : h[r] = Body(h, r)
  <2> HIDE DEF Body
  <2> QED BY <1>5
<1>8. ASSUME NEW r \in Spanning(old)
      PROVE  /\ r[2] = old => h[r] = IF r[1] = 0 THEN <<>> ELSE <<NodeHashes(nodes)[r]>>
             /\ r[2] # old => h[r] = Append(h[partOf(old - 1, r)], NodeHashes(nodes)[sibling(old - 1, r)])
  <2>1. r \in Ranges
    BY DEF Spanning
  <2>2. CASE r[2] = old
    BY <1>7, <2>1, <2>2 DEF NodeHashes
  <2>3. CASE r[2] # old
    <3>1. sibling(old - 1, r) \in Ranges
      BY <2>3, SpanningParts
    <3> QED BY <1>7, <2>3, <3>1 DEF NodeHashes
  <2> QED BY <2>2, <2>3
<1>9. ConsistencyProofsOf(h, old, NodeHashes(nodes))
  BY <1>8, Zenon DEF ConsistencyProofsOf
<1> QED
  BY <1>6, <1>9

\* g has what verifyConsistencyRec returns for all ranges.
Failed == [old |-> EmptyHash, new |-> EmptyHash, ok |-> FALSE, used |-> 0]

VerifiedFrom(g, old, proof, oldRoot) ==
    \A r \in Spanning(old) :
        /\ r[2] = old => g[r] = IF r[1] = 0
                                THEN [old |-> oldRoot, new |-> oldRoot, ok |-> TRUE, used |-> 0]
                                ELSE IF Len(proof) = 0 THEN Failed
                                ELSE [old |-> proof[1], new |-> proof[1], ok |-> TRUE, used |-> 1]
        /\ r[2] # old => g[r] = VerifyStep(proof, old <= mid(r), g[partOf(old - 1, r)])

\* VerifyConsistency.
LEMMA VerifyConsistencyIs ==
    ASSUME NEW old \in Nat \ {0}, NEW proof, NEW oldRoot
    PROVE  \E g : /\ \A newRoot : \A new \in Nat : old < new =>
                        (VerifyConsistency(old, new, proof, oldRoot, newRoot) <=>
                            /\ proof # <<>> /\ g[<<0, new>>].ok /\ g[<<0, new>>].used = Len(proof)
                            /\ g[<<0, new>>].old = oldRoot /\ g[<<0, new>>].new = newRoot)
                  /\ VerifiedFrom(g, old, proof, oldRoot)
<1> DEFINE failed == [old |-> EmptyHash, new |-> EmptyHash, ok |-> FALSE, used |-> 0]
           Body(f, r) == IF r[2] = old
                         THEN IF r[1] = 0
                              THEN [old |-> oldRoot, new |-> oldRoot, ok |-> TRUE, used |-> 0]
                              ELSE IF Len(proof) = 0 THEN failed
                              ELSE [old |-> proof[1], new |-> proof[1], ok |-> TRUE, used |-> 1]
                         ELSE LET below == f[partOf(old - 1, r)]
                              IN  IF ~below.ok \/ below.used >= Len(proof) THEN failed
                                  ELSE LET p == proof[below.used + 1]
                                       IN  IF old <= mid(r)
                                           THEN [below EXCEPT !.new = InteriorHash(@, p), !.used = @ + 1]
                                           ELSE [below EXCEPT !.old = InteriorHash(p, @), !.new = InteriorHash(p, @),
                                                              !.used = @ + 1]
           Step(f, r) == VerifyStep(proof, old <= mid(r), f[partOf(old - 1, r)])
           Base(r) == IF r[1] = 0 THEN [old |-> oldRoot, new |-> oldRoot, ok |-> TRUE, used |-> 0]
                      ELSE IF Len(proof) = 0 THEN failed
                      ELSE [old |-> proof[1], new |-> proof[1], ok |-> TRUE, used |-> 1]
           h == CHOOSE h : h = [r \in Spanning(old) |-> Body(h, r)]
           at == [r \in Ranges |-> Base(r)]
           op == [r \in Ranges |-> [how |-> "verify", left |-> old - 1 < mid(r), arg |-> proof]]
<1>1. \A r \in Ranges : op[r].left = (old - 1 < mid(r))
  OBVIOUS
<1>2. PICK f : SpanningRecursive(f, old, at, op)
  <2> HIDE DEF at, op
  <2> QED BY <1>1, SpanningRecursion
<1>3. ASSUME NEW e, NEW r \in Spanning(old)
      PROVE  Body(e, r) = IF r[2] = old THEN Base(r) ELSE Step(e, r)
  BY Zenon DEF VerifyStep
<1>4. ASSUME NEW r \in Spanning(old) PROVE f[r] = Body(f, r)
  <2>1. r \in Ranges
    BY DEF Spanning
  <2>2. CASE r[2] = old
    <3> HIDE DEF Body, Step, Base
    <3> QED BY <1>2, <1>3, <2>1, <2>2, ZenonT(30) DEF SpanningRecursive
  <2>3. CASE r[2] # old
    <3>1. PICK other : f[r] = Combine(op[r], IF op[r].left THEN f[partOf(old - 1, r)] ELSE other,
                                             IF op[r].left THEN other ELSE f[partOf(old - 1, r)])
      BY <1>2, <2>3 DEF SpanningRecursive
    <3>2. f[r] = VerifyStep(proof, old - 1 < mid(r), f[partOf(old - 1, r)])
      <4> HIDE DEF Body, Step, Base
      <4> QED BY <3>1, <2>1 DEF Combine
    <3>3. old - 1 < mid(r) <=> old <= mid(r)
      <4>1. mid(r) \in Nat
        BY <2>3, SpanningParts
      <4> QED BY <4>1
    <3>4. f[r] = Step(f, r)
      BY <3>2, <3>3, Zenon DEF VerifyStep
    <3> HIDE DEF Body, Step, Base
    <3> QED
      BY <1>3, <3>4, <2>3
  <2> QED BY <2>2, <2>3
<1>5. f = [r \in Spanning(old) |-> Body(f, r)]
  <2> HIDE DEF Body
  <2> QED BY <1>2, <1>4 DEF SpanningRecursive
<1>6. h = [r \in Spanning(old) |-> Body(h, r)]
  <2> HIDE DEF Body, at, op
  <2> QED BY <1>5, Zenon
<1>7. ASSUME NEW new \in Nat, NEW newRoot, old < new
      PROVE VerifyConsistency(old, new, proof, oldRoot, newRoot) <=>
                /\ proof # <<>> /\ h[<<0, new>>].ok /\ h[<<0, new>>].used = Len(proof)
                /\ h[<<0, new>>].old = oldRoot /\ h[<<0, new>>].new = newRoot
  <2>1. ~ (old > new \/ old < 0) /\ old # new /\ old # 0
    BY <1>7
  <2> QED BY <2>1, Zenon DEF VerifyConsistency
<1> HIDE DEF h
<1>8. \A r \in Spanning(old) : h[r] = Body(h, r)
  <2> HIDE DEF Body
  <2> QED BY <1>6
<1>9. \A r \in Spanning(old) : h[r] = IF r[2] = old THEN Base(r) ELSE Step(h, r)
  <2> HIDE DEF Body, Base, Step
  <2> QED BY <1>3, <1>8
<1>10. VerifiedFrom(h, old, proof, oldRoot)
  BY <1>9, Zenon DEF VerifiedFrom, Failed
<1> QED
  BY <1>7, <1>10, Zenon

LEMMA ConsistencyProofSeq ==
    ASSUME NEW old \in Nat \ {0}, NEW hash, NEW p, ConsistencyProofsOf(p, old, hash), NEW r \in Spanning(old)
    PROVE  p[r] \in Seq({hash[q] : q \in Ranges})
<1> DEFINE H == {hash[q] : q \in Ranges}
           T == {k \in Nat : \E q \in Spanning(old) : Size(q) = k /\ p[q] \notin Seq(H)}
<1>1. \A q \in Spanning(old) : q \in Ranges
  BY DEF Spanning
<1> SUFFICES ASSUME T # {} PROVE FALSE
  BY <1>1, SizeNat
<1>2. PICK k \in T : \A j \in T : k <= j
  <2>1. T \subseteq Nat
    OBVIOUS
  <2> HIDE DEF T
  <2> QED BY <2>1, LeastNatural
<1>3. PICK q \in Spanning(old) : Size(q) = k /\ p[q] \notin Seq(H)
  BY <1>2
<1>4. CASE q[2] = old
  <2>1. hash[q] \in H
    BY <1>1
  <2>2. p[q] = IF q[1] = 0 THEN <<>> ELSE <<hash[q]>>
    BY <1>4 DEF ConsistencyProofsOf
  <2> HIDE DEF H
  <2> QED
    BY <2>1, <2>2, <1>3
<1>5. CASE q[2] # old
  <2> DEFINE u == partOf(old - 1, q)
             v == sibling(old - 1, q)
  <2>1. u \in Spanning(old) /\ u \in Ranges /\ Size(u) < Size(q) /\ v \in Ranges
    BY <1>5, SpanningParts
  <2>2. p[q] = Append(p[u], hash[v])
    BY <1>5 DEF ConsistencyProofsOf
  <2> HIDE DEF u, v
  <2>3. hash[v] \in H
    BY <2>1
  <2>4. p[u] \in Seq(H)
    <3>1. Size(u) \in Nat /\ Size(u) < k /\ k \in Nat
      BY <2>1, <1>1, <1>3, SizeNat
    <3>2. Size(u) \notin T
      <4> HIDE DEF T
      <4> QED BY <3>1, <1>2
    <3> QED BY <3>1, <3>2, <2>1
  <2> HIDE DEF H
  <2> QED
    BY <1>3, <2>2, <2>3, <2>4
<1> QED
  BY <1>4, <1>5

\* One step of verifyConsistencyRec on a record, left and right.
LEMMA StepLeft ==
    ASSUME NEW a, NEW b, NEW c, NEW n, NEW x
    PROVE  [[old |-> a, new |-> b, ok |-> c, used |-> n] EXCEPT !.new = InteriorHash(@, x), !.used = @ + 1]
               = [old |-> a, new |-> InteriorHash(b, x), ok |-> c, used |-> n + 1]
<1> DEFINE e == [old |-> a, new |-> b, ok |-> c, used |-> n]
           f == [e EXCEPT !.new = InteriorHash(b, x), !.used = n + 1]
<1>1. f = [k \in {"old", "new", "ok", "used"} |->
               IF k = "used" THEN n + 1 ELSE IF k = "new" THEN InteriorHash(b, x) ELSE e[k]]
  OBVIOUS
<1>2. f = [k \in {"old", "new", "ok", "used"} |->
               CASE k = "used" -> n + 1 [] k = "new" -> InteriorHash(b, x) [] k = "old" -> a [] k = "ok" -> c]
  BY <1>1
<1>3. f = [old |-> a, new |-> InteriorHash(b, x), ok |-> c, used |-> n + 1]
  BY <1>2
<1>4. e.new = b /\ e.used = n
  OBVIOUS
<1>5. [e EXCEPT !.new = InteriorHash(@, x), !.used = @ + 1] = f
  <2> HIDE DEF e
  <2> QED BY <1>4, Zenon
<1> QED
  BY <1>3, <1>5, Zenon

LEMMA StepRight ==
    ASSUME NEW a, NEW b, NEW c, NEW n, NEW x
    PROVE  [[old |-> a, new |-> b, ok |-> c, used |-> n] EXCEPT
                !.old = InteriorHash(x, @), !.new = InteriorHash(x, @), !.used = @ + 1]
               = [old |-> InteriorHash(x, a), new |-> InteriorHash(x, b), ok |-> c, used |-> n + 1]
<1> DEFINE e == [old |-> a, new |-> b, ok |-> c, used |-> n]
           f == [e EXCEPT !.old = InteriorHash(x, a), !.new = InteriorHash(x, b), !.used = n + 1]
<1>1. f = [k \in {"old", "new", "ok", "used"} |->
               IF k = "used" THEN n + 1 ELSE IF k = "new" THEN InteriorHash(x, b)
               ELSE IF k = "old" THEN InteriorHash(x, a) ELSE e[k]]
  OBVIOUS
<1>2. f = [k \in {"old", "new", "ok", "used"} |->
               CASE k = "used" -> n + 1 [] k = "new" -> InteriorHash(x, b) [] k = "old" -> InteriorHash(x, a)
                 [] k = "ok" -> c]
  BY <1>1
<1>3. f = [old |-> InteriorHash(x, a), new |-> InteriorHash(x, b), ok |-> c, used |-> n + 1]
  BY <1>2
<1>4. e.new = b /\ e.used = n /\ e.old = a
  OBVIOUS
<1>5. [e EXCEPT !.old = InteriorHash(x, @), !.new = InteriorHash(x, @), !.used = @ + 1] = f
  <2> HIDE DEF e
  <2> QED BY <1>4, Zenon
<1> QED
  BY <1>3, <1>5, Zenon

LEMMA StepLeftOf ==
    ASSUME NEW e, NEW f, NEW a, NEW b, NEW c, NEW n, NEW x,
           e = [old |-> a, new |-> b, ok |-> c, used |-> n],
           f = [e EXCEPT !.new = InteriorHash(@, x), !.used = @ + 1]
    PROVE  f = [old |-> a, new |-> InteriorHash(b, x), ok |-> c, used |-> n + 1]
  BY StepLeft, Zenon

LEMMA StepRightOf ==
    ASSUME NEW e, NEW f, NEW a, NEW b, NEW c, NEW n, NEW x,
           e = [old |-> a, new |-> b, ok |-> c, used |-> n],
           f = [e EXCEPT !.old = InteriorHash(x, @), !.new = InteriorHash(x, @), !.used = @ + 1]
    PROVE  f = [old |-> InteriorHash(x, a), new |-> InteriorHash(x, b), ok |-> c, used |-> n + 1]
  BY StepRight, Zenon

LEMMA ConsistencyProofLeads ==
    ASSUME NEW hashAt, NEW nodes, NEW n \in Nat, RowsHold(nodes, hashAt, n),
           NEW old \in Nat \ {0}, NEW new \in 0..n, old < new,
           NEW p, ConsistencyProofsOf(p, old, NodeHashes(nodes)),
           NEW g, VerifiedFrom(g, old, p[<<0, new>>], MTH(old, hashAt))
    PROVE  /\ g[<<0, new>>] = [old |-> MTH(old, hashAt), new |-> MTH(new, hashAt), ok |-> TRUE,
                               used |-> Len(p[<<0, new>>])]
           /\ p[<<0, new>>] # <<>>
<1> DEFINE full == p[<<0, new>>]
           hash == LeafHashes(hashAt)
           H == {NodeHashes(nodes)[q] : q \in Ranges}
           Inside(r) == /\ r[2] <= n /\ Aligned(r[1], r[2]) /\ Len(p[r]) <= Len(full)
                        /\ \A j \in 1..Len(p[r]) : full[j] = p[r][j]
           Good(r) == g[r] = [old |-> hash[<<r[1], old>>], new |-> hash[r], ok |-> TRUE, used |-> Len(p[r])]
           T == {k \in Nat : \E r \in Spanning(old) : Size(r) = k /\ Inside(r) /\ ~Good(r)}
<1>1. /\ TreeHash(hash) /\ MTH(old, hashAt) = hash[<<0, old>>] /\ MTH(new, hashAt) = hash[<<0, new>>]
      /\ <<0, new>> \in Spanning(old) /\ <<0, new>> \in Ranges
  BY LeafHashesTree, SpanningAll
<1>2. \A r \in Spanning(old) : p[r] \in Seq(H)
  <2> HIDE DEF full, hash, Inside, Good, T
  <2> QED BY ConsistencyProofSeq
<1> HIDE DEF H
<1>3. \A r \in Spanning(old) : Len(p[r]) \in Nat
  BY <1>2
<1>4. Len(full) \in Nat
  BY <1>1, <1>3
<1>5. VerifiedFrom(g, old, full, hash[<<0, old>>])
  BY <1>1
<1> HIDE DEF full, hash
<1>6. T = {}
  <2> SUFFICES ASSUME T # {} PROVE FALSE
    OBVIOUS
  <2>1. PICK k \in T : \A j \in T : k <= j
    <3>1. T \subseteq Nat
      OBVIOUS
    <3> HIDE DEF T
    <3> QED BY <3>1, LeastNatural
  <2>2. PICK r \in Spanning(old) : Size(r) = k /\ Inside(r) /\ ~Good(r)
    <3> HIDE DEF Inside, Good
    <3> QED BY <2>1
  <2>3. r \in Ranges /\ r[1] \in Nat /\ r = <<r[1], r[2]>>
    BY DEF Spanning, Ranges
  <2>4. CASE r[2] = old
    <3>1. CASE r[1] = 0
      <4>1. p[r] = <<>>
        BY <2>4, <3>1 DEF ConsistencyProofsOf
      <4>2. g[r] = [old |-> hash[<<0, old>>], new |-> hash[<<0, old>>], ok |-> TRUE, used |-> 0]
        BY <2>4, <3>1, <1>5 DEF VerifiedFrom
      <4>3. Len(p[r]) = 0 /\ hash[r] = hash[<<0, old>>] /\ hash[<<r[1], old>>] = hash[<<0, old>>]
        BY <4>1, <2>3, <2>4, <3>1
      <4>4. Good(r)
        BY <4>2, <4>3
      <4> HIDE DEF Good
      <4> QED BY <2>2, <4>4
    <3>2. CASE r[1] # 0
      <4>1. p[r] = <<NodeHashes(nodes)[r]>>
        BY <2>4, <3>2 DEF ConsistencyProofsOf
      <4>2. NodeHashes(nodes)[r] = hash[r]
        <5>1. r[2] <= n /\ Aligned(r[1], r[2])
          BY <2>2
        <5> QED
          BY ONLY <5>1, <2>3, n \in Nat, RowsHold(nodes, hashAt, n), RowsGiveRangeHash DEF hash
      <4>3. Len(p[r]) = 1 /\ p[r][1] = hash[r]
        BY <4>1, <4>2
      <4>4. full[1] = hash[r] /\ Len(full) # 0
        BY <4>3, <2>2, <1>4
      <4>5. g[r] = [old |-> full[1], new |-> full[1], ok |-> TRUE, used |-> 1]
        BY <2>4, <3>2, <1>5, <4>4 DEF VerifiedFrom
      <4>6. Good(r)
        BY <4>3, <4>4, <4>5, <2>3, <2>4
      <4> HIDE DEF Good
      <4> QED BY <2>2, <4>6
    <3> QED BY <3>1, <3>2
  <2>5. CASE r[2] # old
    <3> DEFINE u == partOf(old - 1, r)
               v == sibling(old - 1, r)
    <3>1. /\ Size(r) # 1 /\ u \in Spanning(old) /\ u \in Ranges /\ Size(u) < Size(r) /\ v \in Ranges
          /\ mid(r) \in Nat
          /\ old <= mid(r) => u = <<r[1], mid(r)>> /\ v = <<mid(r), r[2]>>
          /\ ~ (old <= mid(r)) => /\ u = <<mid(r), r[2]>> /\ v = <<r[1], mid(r)>>
                                  /\ <<r[1], old>> \in Ranges /\ Size(<<r[1], old>>) # 1
                                  /\ mid(<<r[1], old>>) = mid(r)
      BY <2>5, SpanningParts
    <3>2. /\ p[r] = Append(p[u], NodeHashes(nodes)[v])
          /\ g[r] = VerifyStep(full, old <= mid(r), g[u])
      BY <2>5, <1>5 DEF ConsistencyProofsOf, VerifiedFrom
    <3>3. mid(r) <= n /\ Aligned(r[1], mid(r)) /\ Aligned(mid(r), r[2]) /\ r[2] <= n
      <4>1. <<mid(r), r[2]>> \in Ranges
        BY <2>3, <3>1, Parts
      <4>2. r[2] <= n /\ Aligned(r[1], r[2])
        BY <2>2
      <4>3. mid(r) <= n
        BY <4>1, <4>2 DEF Ranges
      <4> QED BY <4>2, <4>3, <2>3, <3>1, PartsAligned
    <3> HIDE DEF u, v
    <3>4. u[2] <= n /\ Aligned(u[1], u[2]) /\ v[2] <= n /\ Aligned(v[1], v[2])
      BY <3>1, <3>3
    <3>5. NodeHashes(nodes)[v] = hash[v]
      BY ONLY <3>1, <3>4, n \in Nat, RowsHold(nodes, hashAt, n), RowsGiveRangeHash DEF hash
    <3>6. p[u] \in Seq(H) /\ Len(p[u]) \in Nat
      BY <3>1, <1>2, <1>3
    <3>7. /\ Len(p[r]) = Len(p[u]) + 1 /\ p[r][Len(p[u]) + 1] = hash[v]
          /\ \A j \in 1..Len(p[u]) : p[r][j] = p[u][j]
      BY ONLY <3>2, <3>5, <3>6
    <3>8. Inside(u)
      BY <3>4, <3>6, <3>7, <2>2, <1>4
    <3>9. full[Len(p[u]) + 1] = hash[v] /\ ~ (Len(p[u]) >= Len(full))
      <4>1. Len(p[r]) <= Len(full) /\ \A j \in 1..Len(p[r]) : full[j] = p[r][j]
        BY <2>2
      <4>2. Len(p[u]) + 1 \in 1..Len(p[r])
        BY ONLY <3>6, <3>7
      <4> QED BY ONLY <4>1, <4>2, <3>6, <3>7, <1>4
    <3>10. Good(u)
      <4> HIDE DEF Good, Inside
      <4>1. Size(u) \in Nat /\ Size(u) < k /\ k \in Nat
        BY <2>2, <2>3, <3>1, SizeNat
      <4>2. Size(u) \notin T
        <5> HIDE DEF T
        <5> QED BY <2>1, <4>1
      <4> QED BY <4>1, <4>2, <3>1, <3>8
    <3>11. g[r] = [old  |-> IF old <= mid(r) THEN hash[<<u[1], old>>] ELSE InteriorHash(hash[v], hash[<<u[1], old>>]),
                   new  |-> IF old <= mid(r) THEN InteriorHash(hash[u], hash[v]) ELSE InteriorHash(hash[v], hash[u]),
                   ok   |-> TRUE,
                   used |-> Len(p[u]) + 1]
      <4>1. g[r] = VerifyStep(full, old <= mid(r),
                              [old |-> hash[<<u[1], old>>], new |-> hash[u], ok |-> TRUE, used |-> Len(p[u])])
        BY <3>2, <3>10
      <4> DEFINE e == [old |-> hash[<<u[1], old>>], new |-> hash[u], ok |-> TRUE, used |-> Len(p[u])]
      <4>2. ~ (~e.ok \/ e.used >= Len(full)) /\ full[e.used + 1] = hash[v]
        BY ONLY <3>9
      <4>3. CASE old <= mid(r)
        <5>1. g[r] = [e EXCEPT !.new = InteriorHash(@, hash[v]), !.used = @ + 1]
          <6> HIDE DEF e
          <6> QED BY <4>1, <4>2, <4>3, Zenon DEF VerifyStep, e
        <5>2. g[r] = [old |-> hash[<<u[1], old>>], new |-> InteriorHash(hash[u], hash[v]), ok |-> TRUE,
                      used |-> Len(p[u]) + 1]
          BY <5>1, StepLeft, Zenon
        <5> QED BY <5>2, <4>3, Zenon
      <4>4. CASE ~ (old <= mid(r))
        <5>1. g[r] = [e EXCEPT !.old = InteriorHash(hash[v], @), !.new = InteriorHash(hash[v], @), !.used = @ + 1]
          <6> HIDE DEF e
          <6> QED BY <4>1, <4>2, <4>4, Zenon DEF VerifyStep, e
        <5>2. g[r] = [old |-> InteriorHash(hash[v], hash[<<u[1], old>>]), new |-> InteriorHash(hash[v], hash[u]),
                      ok |-> TRUE, used |-> Len(p[u]) + 1]
          BY <5>1, StepRight, Zenon
        <5> QED BY <5>2, <4>4, Zenon
      <4> QED BY <4>3, <4>4
    <3>12. hash[r] = InteriorHash(hash[<<r[1], mid(r)>>], hash[<<mid(r), r[2]>>])
      BY <1>1, <2>3, <3>1 DEF TreeHash
    <3>13. Good(r)
      <4>1. CASE old <= mid(r)
        <5>1. u = <<r[1], mid(r)>> /\ v = <<mid(r), r[2]>> /\ u[1] = r[1]
          BY <4>1, <3>1
        <5> QED
          BY <4>1, <5>1, <3>7, <3>11, <3>12
      <4>2. CASE ~ (old <= mid(r))
        <5>1. u = <<mid(r), r[2]>> /\ v = <<r[1], mid(r)>> /\ u[1] = mid(r)
          BY <4>2, <3>1
        <5>2. hash[<<r[1], old>>] = InteriorHash(hash[<<r[1], mid(r)>>], hash[<<mid(r), old>>])
          <6> DEFINE w == <<r[1], old>>
          <6>1. w \in Ranges /\ Size(w) # 1 /\ mid(w) = mid(r) /\ w[1] = r[1] /\ w[2] = old
            BY <4>2, <3>1
          <6> HIDE DEF w
          <6>2. hash[w] = InteriorHash(hash[<<w[1], mid(w)>>], hash[<<mid(w), w[2]>>])
            BY <6>1, <1>1 DEF TreeHash
          <6>3. hash[w] = InteriorHash(hash[<<r[1], mid(r)>>], hash[<<mid(r), old>>])
            BY <6>1, <6>2
          <6> QED BY <6>3 DEF w
        <5> QED
          BY <4>2, <5>1, <5>2, <3>7, <3>11, <3>12
      <4> QED BY <4>1, <4>2
    <3> HIDE DEF Good
    <3> QED
      BY <2>2, <3>13
  <2> QED
    BY <2>4, <2>5
<1>7. Inside(<<0, new>>)
  <2>1. Aligned(0, new)
    BY AlignedFromZero
  <2> QED BY <2>1, <1>4 DEF full
<1>8. Good(<<0, new>>)
  <2> HIDE DEF Inside, Good
  <2> QED BY <1>1, <1>6, <1>7, SizeNat
<1>9. p[<<0, new>>] # <<>>
  <2> DEFINE r == <<0, new>>
             u == partOf(old - 1, r)
  <2>1. r \in Spanning(old) /\ r[2] # old
    BY <1>1
  <2> HIDE DEF r
  <2>2. u \in Spanning(old) /\ p[r] = Append(p[u], NodeHashes(nodes)[sibling(old - 1, r)])
    BY <2>1, SpanningParts DEF ConsistencyProofsOf
  <2>3. p[u] \in Seq(H)
    BY <2>2, <1>2
  <2> HIDE DEF u
  <2>4. Len(p[r]) # 0
    BY <2>2, <2>3
  <2> QED
    BY <2>4 DEF r
<1> QED
  BY <1>1, <1>8, <1>9 DEF full

\* ConsistencyProofFromNodes and VerifyConsistency fit together: with the rows of the
\* complete subtrees in place, the proof between any two sizes of the log is accepted
\* with the two tree hashes, the empty old tree and equal sizes included.
THEOREM ConsistencyProofVerifies ==
    ASSUME NEW hashAt, NEW nodes, NEW n \in Nat, RowsHold(nodes, hashAt, n),
           NEW new \in 0..n, NEW old \in 0..new
    PROVE  VerifyConsistency(old, new, ConsistencyProofFromNodes(old, new, nodes),
                             MTH(old, hashAt), MTH(new, hashAt))
<1>1. CASE old = 0 \/ old = new
  <2>1. ConsistencyProofFromNodes(old, new, nodes) = <<>>
    BY <1>1 DEF ConsistencyProofFromNodes
  <2>2. ~ (old > new \/ old < 0)
    OBVIOUS
  <2>3. CASE old = new
    BY <2>1, <2>2, <2>3, Zenon DEF VerifyConsistency
  <2>4. CASE old # new
    BY <1>1, <2>1, <2>2, <2>4, Zenon DEF VerifyConsistency
  <2> QED BY <2>3, <2>4
<1>2. CASE ~ (old = 0 \/ old = new)
  <2>1. old \in Nat \ {0} /\ old < new /\ new \in Nat /\ old # new
    BY <1>2
  <2>2. PICK p : /\ \A m : ConsistencyProofFromNodes(old, m, nodes) = IF old = m THEN <<>> ELSE p[<<0, m>>]
                 /\ ConsistencyProofsOf(p, old, NodeHashes(nodes))
    BY <2>1, ConsistencyProofIs
  <2> DEFINE full == p[<<0, new>>]
  <2>3. ConsistencyProofFromNodes(old, new, nodes) = full
    BY <2>1, <2>2
  <2>4. PICK g : /\ \A newRoot : \A m \in Nat : old < m =>
                        (VerifyConsistency(old, m, full, MTH(old, hashAt), newRoot) <=>
                            /\ full # <<>> /\ g[<<0, m>>].ok /\ g[<<0, m>>].used = Len(full)
                            /\ g[<<0, m>>].old = MTH(old, hashAt) /\ g[<<0, m>>].new = newRoot)
                 /\ VerifiedFrom(g, old, full, MTH(old, hashAt))
    <3> HIDE DEF full
    <3> QED BY <2>1, VerifyConsistencyIs
  <2>5. /\ g[<<0, new>>] = [old |-> MTH(old, hashAt), new |-> MTH(new, hashAt), ok |-> TRUE, used |-> Len(full)]
        /\ full # <<>>
    <3>1. /\ n \in Nat /\ RowsHold(nodes, hashAt, n) /\ old \in Nat \ {0} /\ new \in 0..n /\ old < new
          /\ ConsistencyProofsOf(p, old, NodeHashes(nodes))
          /\ VerifiedFrom(g, old, p[<<0, new>>], MTH(old, hashAt))
      BY <2>1, <2>2, <2>4
    <3> QED BY ONLY <3>1, ConsistencyProofLeads
  <2>6. VerifyConsistency(old, new, full, MTH(old, hashAt), MTH(new, hashAt))
    <3> HIDE DEF full
    <3>1. /\ full # <<>> /\ g[<<0, new>>].ok /\ g[<<0, new>>].used = Len(full)
          /\ g[<<0, new>>].old = MTH(old, hashAt) /\ g[<<0, new>>].new = MTH(new, hashAt)
      BY <2>5
    <3> QED BY <2>1, <2>4, <3>1, Zenon
  <2> QED
    BY <2>3, <2>6
<1> QED
  BY <1>1, <1>2

\* What verifyConsistencyRec returns is a failure or the two hashes.
Fine(x) == x = Failed \/ \E a, b, n : x = [old |-> a, new |-> b, ok |-> TRUE, used |-> n]

LEMMA VerifyStepIs ==
    ASSUME NEW p, NEW o, NEW m, NEW e, Fine(e), NEW f, f = VerifyStep(p, o <= m, e)
    PROVE  /\ Fine(f)
           /\ f.ok => /\ e.ok
                      /\ o <= m => f.new = InteriorHash(e.new, p[e.used + 1]) /\ f.old = e.old
                      /\ ~ (o <= m) => /\ f.new = InteriorHash(p[e.used + 1], e.new)
                                       /\ f.old = InteriorHash(p[e.used + 1], e.old)
<1> DEFINE x == p[e.used + 1]
<1>1. CASE ~e.ok \/ e.used >= Len(p)
  <2>1. f = Failed
    BY <1>1, Zenon DEF VerifyStep, Failed
  <2>2. ~f.ok
    BY <2>1 DEF Failed
  <2>3. Fine(f)
    BY <2>1, Zenon DEF Fine
  <2> QED
    BY <2>2, <2>3, Zenon
<1>2. CASE ~ (~e.ok \/ e.used >= Len(p))
  <2>1. PICK a, b, n : e = [old |-> a, new |-> b, ok |-> TRUE, used |-> n]
    BY <1>2 DEF Fine, Failed
  <2> HIDE DEF x
  <2>2. CASE o <= m
    <3>1. f = [e EXCEPT !.new = InteriorHash(@, x), !.used = @ + 1]
      BY <1>2, <2>2, Zenon DEF VerifyStep, x
    <3>2. f = [old |-> a, new |-> InteriorHash(b, x), ok |-> TRUE, used |-> n + 1]
      BY ONLY <2>1, <3>1, StepLeftOf, Zenon
    <3>3. Fine(f)
      BY <3>2, Zenon DEF Fine
    <3>4. e.ok /\ f.new = InteriorHash(e.new, x) /\ f.old = e.old
      BY <3>2, <2>1
    <3> QED BY <2>2, <3>3, <3>4 DEF x
  <2>3. CASE ~ (o <= m)
    <3>1. f = [e EXCEPT !.old = InteriorHash(x, @), !.new = InteriorHash(x, @), !.used = @ + 1]
      BY <1>2, <2>3, Zenon DEF VerifyStep, x
    <3>2. f = [old |-> InteriorHash(x, a), new |-> InteriorHash(x, b), ok |-> TRUE, used |-> n + 1]
      BY ONLY <2>1, <3>1, StepRightOf, Zenon
    <3>3. Fine(f)
      BY <3>2, Zenon DEF Fine
    <3>4. e.ok /\ f.new = InteriorHash(x, e.new) /\ f.old = InteriorHash(x, e.old)
      BY <3>2, <2>1
    <3> QED BY <2>3, <3>3, <3>4 DEF x
  <2> QED BY <2>2, <2>3
<1> QED
  BY <1>1, <1>2

LEMMA VerifiedShape ==
    ASSUME NEW old \in Nat \ {0}, NEW proof, NEW oldRoot, NEW g, VerifiedFrom(g, old, proof, oldRoot),
           NEW r \in Spanning(old)
    PROVE  Fine(g[r])
<1> DEFINE T == {k \in Nat : \E q \in Spanning(old) : Size(q) = k /\ ~Fine(g[q])}
<1>1. \A q \in Spanning(old) : q \in Ranges
  BY DEF Spanning
<1> SUFFICES ASSUME T # {} PROVE FALSE
  BY <1>1, SizeNat
<1>2. PICK k \in T : \A j \in T : k <= j
  <2>1. T \subseteq Nat
    OBVIOUS
  <2> HIDE DEF T
  <2> QED BY <2>1, LeastNatural
<1>3. PICK q \in Spanning(old) : Size(q) = k /\ ~Fine(g[q])
  BY <1>2
<1>4. CASE q[2] = old
  <2>1. g[q] = IF q[1] = 0 THEN [old |-> oldRoot, new |-> oldRoot, ok |-> TRUE, used |-> 0]
               ELSE IF Len(proof) = 0 THEN Failed
               ELSE [old |-> proof[1], new |-> proof[1], ok |-> TRUE, used |-> 1]
    BY <1>4 DEF VerifiedFrom
  <2>2. Fine(g[q])
    BY <2>1, Zenon DEF Fine
  <2> QED BY <1>3, <2>2
<1>5. CASE q[2] # old
  <2> DEFINE u == partOf(old - 1, q)
  <2>1. u \in Spanning(old) /\ u \in Ranges /\ Size(u) < Size(q)
    BY <1>5, SpanningParts
  <2>2. g[q] = VerifyStep(proof, old <= mid(q), g[u])
    BY <1>5 DEF VerifiedFrom
  <2> HIDE DEF u
  <2>3. Fine(g[u])
    <3>1. Size(u) \in Nat /\ Size(u) < k /\ k \in Nat
      BY <2>1, <1>1, <1>3, SizeNat
    <3>2. Size(u) \notin T
      <4> HIDE DEF T
      <4> QED BY <3>1, <1>2
    <3> QED BY <3>1, <3>2, <2>1
  <2>4. Fine(g[q])
    BY <2>2, <2>3, VerifyStepIs
  <2> QED BY <2>4, <1>3
<1> QED
  BY <1>4, <1>5

\* VerifyConsistency binds: whatever the proof, it accepts an old root with the new
\* tree hash only when the old root is the tree hash of the first old leaves.  This is
\* what makes an accepted proof say that the log only grew (it rests on hashes that
\* are free of collisions).
THEOREM ConsistencyProofBinds ==
    ASSUME NEW hashAt, NEW new \in Nat, NEW old \in 1..new, NEW proof, NEW oldRoot,
           VerifyConsistency(old, new, proof, oldRoot, MTH(new, hashAt))
    PROVE  oldRoot = MTH(old, hashAt)
<1> DEFINE hash == LeafHashes(hashAt)
<1>1. CASE old = new
  <2>1. ~ (old > new \/ old < 0)
    OBVIOUS
  <2> QED BY <1>1, <2>1, Zenon DEF VerifyConsistency
<1>2. CASE old # new
  <2>1. old \in Nat \ {0} /\ old < new /\ new \in Nat \ {0}
    BY <1>2
  <2>2. PICK g : /\ \A newRoot : \A m \in Nat : old < m =>
                        (VerifyConsistency(old, m, proof, oldRoot, newRoot) <=>
                            /\ proof # <<>> /\ g[<<0, m>>].ok /\ g[<<0, m>>].used = Len(proof)
                            /\ g[<<0, m>>].old = oldRoot /\ g[<<0, m>>].new = newRoot)
                 /\ VerifiedFrom(g, old, proof, oldRoot)
    BY <2>1, VerifyConsistencyIs
  <2>3. /\ TreeHash(hash) /\ MTH(old, hashAt) = hash[<<0, old>>] /\ MTH(new, hashAt) = hash[<<0, new>>]
        /\ <<0, new>> \in Spanning(old) /\ <<0, new>> \in Ranges
    BY <2>1, LeafHashesTree, SpanningAll
  <2>4. g[<<0, new>>].ok /\ g[<<0, new>>].old = oldRoot /\ g[<<0, new>>].new = hash[<<0, new>>]
    <3> HIDE DEF hash
    <3> QED BY <2>1, <2>2, <2>3, Zenon
  <2> HIDE DEF hash
  <2> DEFINE Fits(r) == g[r].ok /\ g[r].new = hash[r]
             Good(r) == g[r].old = hash[<<r[1], old>>]
             T == {k \in Nat : \E r \in Spanning(old) : Size(r) = k /\ Fits(r) /\ ~Good(r)}
  <2>5. T = {}
    <3> SUFFICES ASSUME T # {} PROVE FALSE
      OBVIOUS
    <3>1. PICK k \in T : \A j \in T : k <= j
      <4>1. T \subseteq Nat
        OBVIOUS
      <4> HIDE DEF T
      <4> QED BY <4>1, LeastNatural
    <3>2. PICK r \in Spanning(old) : Size(r) = k /\ Fits(r) /\ ~Good(r)
      <4> HIDE DEF Fits, Good
      <4> QED BY <3>1
    <3>3. r \in Ranges /\ r[1] \in Nat /\ r = <<r[1], r[2]>>
      BY DEF Spanning, Ranges
    <3>4. CASE r[2] = old
      <4>1. g[r] = IF r[1] = 0 THEN [old |-> oldRoot, new |-> oldRoot, ok |-> TRUE, used |-> 0]
                   ELSE IF Len(proof) = 0 THEN Failed
                   ELSE [old |-> proof[1], new |-> proof[1], ok |-> TRUE, used |-> 1]
        BY <2>2, <3>4 DEF VerifiedFrom
      <4>2. g[r].old = g[r].new
        BY <4>1 DEF Failed
      <4> QED BY <4>2, <3>2, <3>3, <3>4
    <3>5. CASE r[2] # old
      <4> DEFINE u == partOf(old - 1, r)
                 v == sibling(old - 1, r)
                 next == proof[g[u].used + 1]
      <4>1. /\ Size(r) # 1 /\ u \in Spanning(old) /\ u \in Ranges /\ Size(u) < Size(r) /\ v \in Ranges
            /\ mid(r) \in Nat
            /\ old <= mid(r) => u = <<r[1], mid(r)>> /\ v = <<mid(r), r[2]>>
            /\ ~ (old <= mid(r)) => /\ u = <<mid(r), r[2]>> /\ v = <<r[1], mid(r)>>
                                    /\ <<r[1], old>> \in Ranges /\ Size(<<r[1], old>>) # 1
                                    /\ mid(<<r[1], old>>) = mid(r)
        BY <2>1, <3>5, SpanningParts
      <4>2. g[r] = VerifyStep(proof, old <= mid(r), g[u])
        BY <2>2, <3>5 DEF VerifiedFrom
      <4>3. hash[r] = InteriorHash(hash[<<r[1], mid(r)>>], hash[<<mid(r), r[2]>>])
        BY <2>3, <3>3, <4>1 DEF TreeHash
      <4> HIDE DEF u, v
      <4>4. Fine(g[u])
        <5>1. old \in Nat \ {0} /\ VerifiedFrom(g, old, proof, oldRoot) /\ u \in Spanning(old)
          BY <2>1, <2>2, <4>1
        <5> QED BY ONLY <5>1, VerifiedShape
      <4>5. /\ g[u].ok
            /\ old <= mid(r) => g[r].new = InteriorHash(g[u].new, next) /\ g[r].old = g[u].old
            /\ ~ (old <= mid(r)) => /\ g[r].new = InteriorHash(next, g[u].new)
                                    /\ g[r].old = InteriorHash(next, g[u].old)
        <5>1. g[r].ok
          BY <3>2
        <5> QED BY ONLY <5>1, <4>2, <4>4, VerifyStepIs
      <4> HIDE DEF next
      <4>6. CASE old <= mid(r)
        <5>1. u = <<r[1], mid(r)>> /\ u[1] = r[1]
          BY <4>1, <4>6
        <5>2. InteriorHash(g[u].new, next) = InteriorHash(hash[<<r[1], mid(r)>>], hash[<<mid(r), r[2]>>])
          BY <4>3, <4>5, <4>6, <3>2
        <5>3. g[u].new = hash[u]
          BY <5>1, <5>2 DEF InteriorHash
        <5>4. Good(u)
          <6>1. Fits(u)
            BY <4>5, <5>3
          <6> HIDE DEF Fits, Good
          <6>2. Size(u) \in Nat /\ Size(u) < k /\ k \in Nat
            BY <3>2, <3>3, <4>1, SizeNat
          <6>3. Size(u) \notin T
            <7> HIDE DEF T
            <7> QED BY <3>1, <6>2
          <6> QED BY <6>1, <6>2, <6>3, <4>1
        <5> QED BY <4>5, <4>6, <5>1, <5>4, <3>2
      <4>7. CASE ~ (old <= mid(r))
        <5>1. u = <<mid(r), r[2]>> /\ u[1] = mid(r)
          BY <4>1, <4>7
        <5>2. InteriorHash(next, g[u].new) = InteriorHash(hash[<<r[1], mid(r)>>], hash[<<mid(r), r[2]>>])
          BY <4>3, <4>5, <4>7, <3>2
        <5>3. g[u].new = hash[u] /\ next = hash[<<r[1], mid(r)>>]
          BY <5>1, <5>2 DEF InteriorHash
        <5>4. Good(u)
          <6>1. Fits(u)
            BY <4>5, <5>3
          <6> HIDE DEF Fits, Good
          <6>2. Size(u) \in Nat /\ Size(u) < k /\ k \in Nat
            BY <3>2, <3>3, <4>1, SizeNat
          <6>3. Size(u) \notin T
            <7> HIDE DEF T
            <7> QED BY <3>1, <6>2
          <6> QED BY <6>1, <6>2, <6>3, <4>1
        <5>5. hash[<<r[1], old>>] = InteriorHash(hash[<<r[1], mid(r)>>], hash[<<mid(r), old>>])
          <6> DEFINE w == <<r[1], old>>
          <6>1. w \in Ranges /\ Size(w) # 1 /\ mid(w) = mid(r) /\ w[1] = r[1] /\ w[2] = old
            BY <4>7, <4>1
          <6> HIDE DEF w
          <6>2. hash[w] = InteriorHash(hash[<<w[1], mid(w)>>], hash[<<mid(w), w[2]>>])
            BY <6>1, <2>3 DEF TreeHash
          <6>3. hash[w] = InteriorHash(hash[<<r[1], mid(r)>>], hash[<<mid(r), old>>])
            BY <6>1, <6>2
          <6> QED BY <6>3 DEF w
        <5> QED BY <4>5, <4>7, <5>1, <5>3, <5>4, <5>5, <3>2
      <4> QED BY <4>6, <4>7
    <3> QED BY <3>4, <3>5
  <2>6. Good(<<0, new>>)
    <3>1. Fits(<<0, new>>)
      BY <2>4
    <3> HIDE DEF Fits, Good
    <3> QED BY <3>1, <2>3, <2>5, SizeNat
  <2> QED
    BY <2>3, <2>4, <2>6
<1> QED
  BY <1>1, <1>2
=============================================================================
