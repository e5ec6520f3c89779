-------------------------- MODULE SerialLogProofs ---------------------------
(***************************************************************************)
(* Proofs about the log whose writers take turns, for trees of every size, *)
(* and about what the read API, the conformance suite and the dashboard    *)
(* make of it.                                                             *)
(***************************************************************************)
EXTENDS SerialLog, ProofClients, IssuanceLogProofs, MerkleTreeProofs

-----------------------------------------------------------------------------
(* Rows of a level.                                                        *)

LEMMA DivIs ==
    ASSUME NEW a \in Nat, NEW d \in Nat, d > 0
    PROVE  a \div d \in Nat /\ (a \div d) * d <= a /\ a < (a \div d) * d + d
  OBVIOUS

LEMMA MultOrder ==
    ASSUME NEW a \in Nat, NEW b \in Nat, NEW d \in Nat, a <= b
    PROVE  a * d \in Nat /\ b * d \in Nat /\ a * d <= b * d
  OBVIOUS

LEMMA MultNext ==
    ASSUME NEW a \in Nat, NEW d \in Nat
    PROVE  a * d \in Nat /\ (a + 1) * d = a * d + d /\ (2 * a) * d = a * (2 * d) /\ 0 * d = 0
  OBVIOUS

\* x >> l is the row of level l that is over leaf x.
LEMMA ShiftIs ==
    ASSUME NEW x \in Nat, NEW l \in Nat
    PROVE  /\ Shift(x, l) \in Nat
           /\ \A j \in Nat : (j < Shift(x, l) <=> (j + 1) * 2^l <= x) /\ (j <= Shift(x, l) <=> j * 2^l <= x)
<1> DEFINE d == 2^l
           q == x \div d
<1>1. d \in Nat /\ d > 0
  BY PowNat
<1> HIDE DEF d
<1>2. q \in Nat /\ q * d <= x /\ x < q * d + d
  BY <1>1, DivIs
<1> HIDE DEF q
<1>3. ASSUME NEW j \in Nat PROVE (j < q <=> (j + 1) * d <= x) /\ (j <= q <=> j * d <= x)
  <2>1. j * d \in Nat /\ q * d \in Nat /\ (j + 1) * d = j * d + d
    BY <1>1, <1>2, MultNext
  <2>2. j <= q => j * d <= q * d
    BY <1>1, <1>2, MultOrder
  <2>3. j < q => (j + 1) * d <= q * d
    BY <1>1, <1>2, MultOrder
  <2>4. q < j => (q + 1) * d <= j * d
    BY <1>1, <1>2, MultOrder
  <2>5. (q + 1) * d = q * d + d
    BY <1>1, <1>2, MultNext
  <2> QED
    BY <1>1, <1>2, <2>1, <2>2, <2>3, <2>4, <2>5
<1>4. Shift(x, l) = q
  BY DEF Shift, q, d
<1> QED
  BY <1>2, <1>3, <1>4 DEF d

\* Where the leaves of a row are.
LEMMA RowStarts ==
    ASSUME NEW l \in Nat, NEW j \in Nat
    PROVE  /\ 2^l \in Nat /\ 2^l > 0 /\ j * 2^l \in Nat /\ (j + 1) * 2^l = j * 2^l + 2^l
           /\ j <= j * 2^l
<1>1. 2^l \in Nat /\ 2^l > 0
  BY PowNat
<1>2. j * 2^l \in Nat /\ (j + 1) * 2^l = j * 2^l + 2^l
  BY <1>1, MultNext
<1>3. 1 * j <= 2^l * j
  BY <1>1, MultOrder
<1> QED
  BY <1>1, <1>2, <1>3

\* The row that recomputeInterior makes of a left child and the stored right one, or
\* of the left one alone when there is no right one.
JoinChildren(nodes, l, j, left) ==
    IF <<l - 1, 2 * j + 1>> \in DOMAIN nodes THEN InteriorHash(left, nodes[<<l - 1, 2 * j + 1>>]) ELSE left

\* One node of recomputeInterior: the children of row j give the row.
LEMMA RowOfChildren ==
    ASSUME NEW nodes, NEW hashAt, NEW l \in Nat \ {0}, NEW m \in Nat, m > 1, NEW j \in Nat, j * 2^l < m,
           LevelIs(nodes, l - 1, m, hashAt)
    PROVE  /\ <<l - 1, 2 * j>> \in DOMAIN nodes
           /\ JoinChildren(nodes, l, j, nodes[<<l - 1, 2 * j>>]) = RowHash(l, j, m, hashAt)
<1> DEFINE k == l - 1
           d == 2^k
           s == j * 2^l
           H(a, b) == computeSubtreeHash(a, b, hashAt)
<1>1. k \in Nat /\ d \in Nat /\ d > 0 /\ 2^l = 2 * d
  <2>1. k \in Nat /\ k + 1 = l
    OBVIOUS
  <2> QED BY <2>1, PowNat
<1>2. s \in Nat /\ (2 * j) * d = s /\ (2 * j + 1) * d = s + d /\ (2 * j + 2) * d = s + 2 * d
  <2>1. j * (2 * d) \in Nat /\ (2 * j) * d = j * (2 * d)
    BY <1>1, MultNext
  <2>2. 2 * j \in Nat /\ (2 * j + 1) * d = (2 * j) * d + d
    BY <1>1, MultNext
  <2>3. 2 * j + 1 \in Nat /\ ((2 * j + 1) + 1) * d = (2 * j + 1) * d + d
    BY <1>1, MultNext
  <2>4. (2 * j + 1) + 1 = 2 * j + 2
    OBVIOUS
  <2> QED
    BY <2>1, <2>2, <2>3, <2>4, <1>1
<1>3. (j + 1) * 2^l = s + 2 * d
  BY <1>1, RowStarts
<1>4. s < m
  OBVIOUS
<1>5. 2 * j <= (2 * j) * d /\ 2 * j + 1 <= (2 * j + 1) * d
  BY <1>1, RowStarts
<1> HIDE DEF s, d, k
<1>6. HasRow(k, 2 * j, m) /\ (HasRow(k, 2 * j + 1, m) <=> s + d < m)
  BY <1>1, <1>2, <1>4 DEF HasRow, d
<1>7. RowHash(k, 2 * j, m, hashAt) = H(s, IF s + d < m THEN s + d ELSE m)
  BY <1>2 DEF RowHash, d
<1>8. RowHash(k, 2 * j + 1, m, hashAt) = H(s + d, IF s + 2 * d < m THEN s + 2 * d ELSE m)
  <2>1. (2 * j + 1) + 1 = 2 * j + 2
    OBVIOUS
  <2> QED BY <1>2, <2>1 DEF RowHash, d
<1>9. RowHash(l, j, m, hashAt) = H(s, IF s + 2 * d < m THEN s + 2 * d ELSE m)
  BY <1>3 DEF RowHash, s
<1>10. LevelIs(nodes, k, m, hashAt)
  BY DEF k
<1>11. <<k, 2 * j>> \in DOMAIN nodes /\ nodes[<<k, 2 * j>>] = RowHash(k, 2 * j, m, hashAt)
  <2>1. 2 * j \in 0..(m - 1)
    BY <1>2, <1>4, <1>5
  <2> QED BY <2>1, <1>6, <1>10 DEF LevelIs
<1>12. CASE s + d < m
  <2>1. 2 * j + 1 \in 0..(m - 1)
    <3>1. 2 * j + 1 <= s + d /\ 2 * j + 1 \in Nat
      BY <1>2, <1>5
    <3> QED BY ONLY <3>1, <1>1, <1>2, <1>12, m \in Nat
  <2>2. <<k, 2 * j + 1>> \in DOMAIN nodes /\ nodes[<<k, 2 * j + 1>>] = RowHash(k, 2 * j + 1, m, hashAt)
    BY <2>1, <1>6, <1>10, <1>12 DEF LevelIs
  <2> DEFINE e == IF s + 2 * d < m THEN s + 2 * d ELSE m
  <2>3. e \in Nat /\ s < e /\ e - s # 1 /\ d < e - s /\ e - s <= 2 * d /\ e - s \in Nat /\ e - s > 1
    BY <1>1, <1>2, <1>12
  <2> HIDE DEF e
  <2>4. splitPoint(e - s) = d
    BY <1>1, <2>3, SplitPointUnique DEF d
  <2>5. H(s, e) = InteriorHash(H(s, s + d), H(s + d, e))
    <3>1. H(s, e) = InteriorHash(H(s, s + splitPoint(e - s)), H(s + splitPoint(e - s), e))
      BY ONLY <1>2, <2>3, SubtreeHashIs, ZenonT(30)
    <3> QED BY ONLY <3>1, <2>4
  <2> QED
    BY <1>7, <1>8, <1>9, <1>11, <1>12, <2>2, <2>5 DEF k, e, JoinChildren
<1>13. CASE ~ (s + d < m)
  <2>1. ~ (s + 2 * d < m)
    BY <1>1, <1>2, <1>13
  <2>2. <<k, 2 * j + 1>> \notin DOMAIN nodes
    <3> SUFFICES ASSUME <<k, 2 * j + 1>> \in DOMAIN nodes PROVE FALSE
      OBVIOUS
    <3>1. HasRow(k, 2 * j + 1, m)
      BY <1>10 DEF LevelIs
    <3> QED BY <3>1, <1>6, <1>13
  <2> QED
    BY <1>7, <1>9, <1>11, <1>13, <2>1, <2>2 DEF k, JoinChildren
<1> QED
  BY <1>12, <1>13

\* The hash of a row depends on the leaves below it only.
LEMMA RowHashKept ==
    ASSUME NEW l \in Nat, NEW j \in Nat, NEW m \in Nat, j * 2^l < m,
           NEW f, NEW g, \A i \in 0..(m - 1) : f[i] = g[i]
    PROVE  RowHash(l, j, m, f) = RowHash(l, j, m, g)
<1> DEFINE s == j * 2^l
           n == (j + 1) * 2^l
           e == IF n < m THEN n ELSE m
<1>1. s \in Nat /\ n \in Nat /\ s < n
  BY RowStarts
<1>2. s < m
  OBVIOUS
<1> HIDE DEF s, n
<1>3. e \in Nat /\ s < e /\ \A i \in s..(e - 1) : i \in 0..(m - 1)
  BY <1>1, <1>2
<1>4. \A i \in s..(e - 1) : f[i] = g[i]
  BY <1>3
<1> HIDE DEF e
<1>5. computeSubtreeHash(s, e, f) = computeSubtreeHash(s, e, g)
  BY ONLY <1>1, <1>3, <1>4, HashOfLeaves
<1> QED
  BY <1>5 DEF RowHash, s, n, e

\* Two tables have the same rows of level l.
SameLevel(a, b, l) ==
    /\ \A x \in DOMAIN a : x[1] = l => x \in DOMAIN b /\ b[x] = a[x]
    /\ \A x \in DOMAIN b : x[1] = l => x \in DOMAIN a

LEMMA LevelKept ==
    ASSUME NEW nodes, NEW new, NEW l \in Nat, NEW m \in Nat, NEW f, NEW g,
           LevelIs(nodes, l, m, f), SameLevel(nodes, new, l), \A i \in 0..(m - 1) : f[i] = g[i]
    PROVE  LevelIs(new, l, m, g)
<1>1. ASSUME NEW j \in 0..(m - 1), HasRow(l, j, m)
      PROVE  <<l, j>> \in DOMAIN new /\ new[<<l, j>>] = RowHash(l, j, m, g)
  <2>1. <<l, j>> \in DOMAIN nodes /\ nodes[<<l, j>>] = RowHash(l, j, m, f)
    BY <1>1 DEF LevelIs
  <2>2. <<l, j>> \in DOMAIN new /\ new[<<l, j>>] = nodes[<<l, j>>]
    BY <2>1 DEF SameLevel
  <2>3. j \in Nat /\ j * 2^l < m
    BY <1>1 DEF HasRow
  <2>4. RowHash(l, j, m, f) = RowHash(l, j, m, g)
    BY <2>3, RowHashKept
  <2> QED BY <2>1, <2>2, <2>4
<1>2. \A x \in DOMAIN new : x[1] = l => x[2] \in Nat /\ HasRow(l, x[2], m)
  BY DEF LevelIs, SameLevel
<1> QED
  BY <1>1, <1>2 DEF LevelIs

\* Writing the rows of other levels.
LEMMA OtherLevels ==
    ASSUME NEW nodes, NEW rows, NEW k, NEW l, k # l, \A x \in DOMAIN rows : x[1] = k
    PROVE  SameLevel(nodes, Upsert(nodes, rows), l)
  BY DEF SameLevel, Upsert

\* SetTreeNodes brings a level from the tree of b entries to that of m entries:
\* the rows that it leaves alone are complete in both.
LEMMA LevelWritten ==
    ASSUME NEW nodes, NEW rows, NEW f, NEW l \in Nat, NEW b \in Nat, NEW m \in Nat, b < m,
           l = 0 \/ b >= 1, LevelIs(nodes, l, b, f),
           DOMAIN rows = {l} \X (Shift(b, l)..Shift(m - 1, l)),
           \A j \in Shift(b, l)..Shift(m - 1, l) : rows[<<l, j>>] = RowHash(l, j, m, f)
    PROVE  LevelIs(Upsert(nodes, rows), l, m, f)
<1> DEFINE s == Shift(b, l)
           t == Shift(m - 1, l)
           new == Upsert(nodes, rows)
<1>1. s \in Nat /\ t \in Nat /\ m - 1 \in Nat
  <2>1. m - 1 \in Nat
    OBVIOUS
  <2> QED BY <2>1, ShiftIs
<1>2. ASSUME NEW j \in Nat
      PROVE  /\ j * 2^l \in Nat /\ (j + 1) * 2^l \in Nat /\ j * 2^l < (j + 1) * 2^l /\ j <= j * 2^l
             /\ j < s <=> (j + 1) * 2^l <= b
             /\ j <= t <=> j * 2^l < m
  <2>1. j * 2^l \in Nat /\ (j + 1) * 2^l \in Nat /\ j * 2^l < (j + 1) * 2^l /\ j <= j * 2^l
    BY RowStarts
  <2>2. (j < s <=> (j + 1) * 2^l <= b) /\ (j <= t <=> j * 2^l <= m - 1)
    BY ShiftIs, <1>1
  <2> QED BY <2>1, <2>2
<1>3. l > 0 => m > 1
  OBVIOUS
<1> HIDE DEF s, t
<1>4. DOMAIN rows = {l} \X (s..t) /\ \A j \in s..t : rows[<<l, j>>] = RowHash(l, j, m, f)
  BY DEF s, t
<1>5. ASSUME NEW x \in DOMAIN new, x[1] = l
      PROVE  x[2] \in Nat /\ HasRow(l, x[2], m)
  <2>1. CASE x \in DOMAIN rows
    <3>1. x[2] \in s..t
      BY <1>4, <2>1
    <3>2. x[2] \in Nat /\ x[2] <= t
      BY <1>1, <3>1
    <3> QED BY <1>2, <1>3, <3>2 DEF HasRow
  <2>2. CASE x \in DOMAIN nodes
    <3>1. x[2] \in Nat /\ x[2] * 2^l < b
      BY <1>5, <2>2 DEF LevelIs, HasRow
    <3>2. x[2] * 2^l \in Nat
      BY <1>2, <3>1
    <3> QED BY <1>3, <3>1, <3>2 DEF HasRow
  <2> QED
    BY <2>1, <2>2 DEF Upsert
<1>6. ASSUME NEW j \in 0..(m - 1), HasRow(l, j, m)
      PROVE  <<l, j>> \in DOMAIN new /\ new[<<l, j>>] = RowHash(l, j, m, f)
  <2>1. j \in Nat /\ j <= t
    BY <1>1, <1>2, <1>6 DEF HasRow
  <2>2. CASE j >= s
    <3>1. j \in s..t
      BY <1>1, <2>1, <2>2
    <3> QED BY <1>4, <3>1 DEF Upsert
  <2>3. CASE j < s
    <3>1. (j + 1) * 2^l <= b /\ j * 2^l < b /\ j \in 0..(b - 1)
      <4>1. (j + 1) * 2^l <= b /\ j * 2^l \in Nat /\ (j + 1) * 2^l \in Nat
            /\ j * 2^l < (j + 1) * 2^l /\ j <= j * 2^l
        BY <1>2, <2>1, <2>3
      <4> HIDE DEF new
      <4> QED BY <4>1, <2>1
    <3>2. l > 0 => b > 1
      <4>1. CASE l > 0
        <5>2. 2^l \in Nat /\ 2^l >= 2
          <6>1. 2^0 = 1
            OBVIOUS
          <6>2. 2 * 2^0 <= 2^l
            BY <4>1, PowOrder
          <6> QED BY <6>1, <6>2, PowNat
        <5>3. (j + 1) * 2^l = j * 2^l + 2^l /\ j * 2^l \in Nat
          BY <2>1, RowStarts
        <5> QED BY <3>1, <5>2, <5>3
      <4> QED BY <4>1
    <3>3. HasRow(l, j, b)
      BY <3>1, <3>2 DEF HasRow
    <3>4. <<l, j>> \in DOMAIN nodes /\ nodes[<<l, j>>] = RowHash(l, j, b, f)
      BY <3>1, <3>3 DEF LevelIs
    <3>5. <<l, j>> \notin DOMAIN rows
      BY <1>4, <2>3, <1>1, <2>1
    <3>6. RowHash(l, j, b, f) = RowHash(l, j, m, f)
      <4>1. (j + 1) * 2^l \in Nat
        BY <1>2, <2>1
      <4> QED BY <3>1, <4>1 DEF RowHash
    <3> QED BY <3>4, <3>5, <3>6 DEF Upsert
  <2> QED BY <2>2, <2>3, <1>1, <2>1
<1> QED
  BY <1>5, <1>6 DEF LevelIs

\* The row of a leaf is its hash.
LEMMA LeafRow ==
    ASSUME NEW j \in Nat, NEW m \in Nat, j < m, NEW f
    PROVE  RowHash(0, j, m, f) = f[j]
<1>1. 2^0 = 1
  OBVIOUS
<1>2. j * 2^0 = j /\ (j + 1) * 2^0 = j + 1
  BY <1>1
<1>3. RowHash(0, j, m, f) = computeSubtreeHash(j, j + 1, f)
  BY <1>2 DEF RowHash
<1>4. (j + 1) - j = 1 /\ j + 1 \in Nat /\ j < j + 1
  OBVIOUS
<1> QED
  BY ONLY <1>3, <1>4, SubtreeHashIs, j \in Nat

LEMMA ShiftByZero ==
    ASSUME NEW x \in Nat
    PROVE  Shift(x, 0) = x
<1>1. 2^0 = 1
  OBVIOUS
<1> QED
  BY <1>1 DEF Shift

\* ceil(log2(m)) exists.
LEMMA RootLevelIs ==
    ASSUME NEW m \in Nat
    PROVE  rootLevel(m) \in Nat /\ 2^rootLevel(m) >= m
<1> DEFINE T == {l \in Nat : 2^l >= m}
           Right(l) == 2^l >= m /\ \A k \in 0..(l - 1) : 2^k < m
<1>1. m \in T
  BY PowAbove, PowNat
<1>2. PICK l \in T : \A k \in T : l <= k
  <2>1. T \subseteq Nat /\ T # {}
    BY <1>1
  <2> HIDE DEF T
  <2> QED BY <2>1, LeastNatural
<1>3. l \in 0..m /\ Right(l)
  <2>1. ASSUME NEW k \in 0..(l - 1) PROVE 2^k < m
    <3>1. k \in Nat /\ ~ (l <= k)
      BY <1>2, <2>1
    <3>2. k \notin T
      BY <1>2, <3>1
    <3>3. 2^k \in Nat
      BY <3>1, PowNat
    <3> QED BY <3>1, <3>2, <3>3
  <2> QED BY <1>1, <1>2, <2>1
<1>4. \E k \in 0..m : Right(k)
  BY <1>3
<1>5. rootLevel(m) = CHOOSE k \in 0..m : Right(k)
  BY DEF rootLevel
<1> HIDE DEF Right
<1>6. rootLevel(m) \in 0..m /\ Right(rootLevel(m))
  BY <1>4, <1>5
<1> QED
  BY <1>6 DEF Right

\* The row that computeRootHash reads is the tree hash.
LEMMA RootRow ==
    ASSUME NEW nodes, NEW f, NEW m \in Nat \ {0}, LevelIs(nodes, rootLevel(m), m, f),
           <<rootLevel(m), 0>> \in DOMAIN nodes
    PROVE  nodes[<<rootLevel(m), 0>>] = MTH(m, f)
<1> DEFINE l == rootLevel(m)
<1>1. l \in Nat /\ 2^l >= m
  BY RootLevelIs
<1> HIDE DEF l
<1>2. 2^l \in Nat /\ 0 * 2^l = 0 /\ (0 + 1) * 2^l = 2^l
  BY <1>1, PowNat
<1>3. HasRow(l, 0, m)
  <2>1. <<l, 0>> \in DOMAIN nodes
    BY DEF l
  <2>2. LevelIs(nodes, l, m, f)
    BY DEF l
  <2> QED BY <2>1, <2>2 DEF LevelIs
<1>4. nodes[<<l, 0>>] = RowHash(l, 0, m, f)
  <2>2. LevelIs(nodes, l, m, f)
    BY DEF l
  <2> QED BY <1>3, <2>2 DEF LevelIs
<1>5. RowHash(l, 0, m, f) = computeSubtreeHash(0, m, f)
  BY <1>1, <1>2 DEF RowHash
<1> QED
  BY <1>4, <1>5 DEF MTH, l

\* Levels of trees of at least n entries have the rows of every complete subtree
\* of the first n.
LEMMA LevelsHoldRows ==
    ASSUME NEW nodes, NEW f, NEW top \in Nat, NEW n \in Nat, n < 2^(top + 1),
           \A l \in 0..top : \E m \in Nat : n <= m /\ LevelIs(nodes, l, m, f)
    PROVE  RowsHold(nodes, f, n)
<1> SUFFICES ASSUME NEW l \in Nat, NEW j \in Nat, (j + 1) * 2^l <= n
             PROVE  nodeAt(nodes, l, j) = computeSubtreeHash(j * 2^l, (j + 1) * 2^l, f)
  BY DEF RowsHold
<1>1. 2^l \in Nat /\ 2^l > 0 /\ j * 2^l \in Nat /\ (j + 1) * 2^l = j * 2^l + 2^l /\ j <= j * 2^l
  BY RowStarts
<1> DEFINE s == j * 2^l
           e == (j + 1) * 2^l
<1>2. s \in Nat /\ e \in Nat /\ s < e /\ e <= n /\ j <= s /\ 2^l <= e
  BY <1>1
<1>3. l \in 0..top
  <2>1. CASE top < l
    <3>1. top + 1 = l \/ top + 1 < l
      BY <2>1
    <3>2. top + 1 \in Nat /\ 2^(top + 1) \in Nat
      BY PowNat
    <3>3. top + 1 < l => 2 * 2^(top + 1) <= 2^l
      BY <3>2, PowOrder
    <3>4. 2^(top + 1) <= 2^l
      <4>1. CASE top + 1 = l
        <5>1. 2^(top + 1) = 2^l
          BY <4>1, Zenon
        <5> QED BY <5>1, <1>1
      <4> QED BY <4>1, <3>1, <3>2, <3>3, <1>1
    <3> HIDE DEF s, e
    <3> QED BY ONLY <1>1, <1>2, <3>2, <3>4, n < 2^(top + 1), n \in Nat
  <2> QED BY <2>1
<1> HIDE DEF s, e
<1>4. PICK m \in Nat : n <= m /\ LevelIs(nodes, l, m, f)
  BY <1>3
<1>5. HasRow(l, j, m) /\ j \in 0..(m - 1)
  <2>1. l > 0 => m > 1
    <3>1. CASE l > 0
      <4>1. 2^0 = 1
        OBVIOUS
      <4>2. 2 * 2^0 <= 2^l
        BY <3>1, PowOrder
      <4> QED BY <1>1, <1>2, <1>4, <4>1, <4>2
    <3> QED BY <3>1
  <2>2. s < m /\ j < m
    BY <1>2, <1>4
  <2> QED BY <2>1, <2>2 DEF HasRow, s
<1>6. <<l, j>> \in DOMAIN nodes /\ nodes[<<l, j>>] = RowHash(l, j, m, f)
  BY <1>4, <1>5 DEF LevelIs
<1>7. RowHash(l, j, m, f) = computeSubtreeHash(s, e, f)
  <2>1. e <= m
    BY <1>2, <1>4
  <2>2. (IF e < m THEN e ELSE m) = e
    BY <2>1, <1>2
  <2> QED BY <2>2 DEF RowHash, s, e
<1> QED
  BY <1>6, <1>7 DEF nodeAt, s, e

-----------------------------------------------------------------------------
(* One goroutine writes.                                                   *)

Writing == {"init_leaf", "leaf", "left", "right", "write"}

Alone(p) == \A q \in Procs \ {p} : pc[q] \in Quiet

\* The size of the tree whose rows of level l are stored.
Written(p, l) == IF Behind(p, l) THEN base[p] ELSE TreeSize

\* The root of a checkpoint is that of the entries it covers.
RootRight(c) == c.root_hash = MTH(c.tree_size, Hashes(c.tree_size))

ProofRight(o) ==
    RootFromInclusionProof(base[o], cp[o].tree_size, LeafHash(DirectEntry(o).entry_data), proof[o])
        = cp[o].root_hash

\* CalmInv for the goroutine that is in an operation.
Own(p) ==
    /\ \A l \in 0..MaxLevel : LevelIs(tree_nodes, l, Written(p, l), AllHashes)
    /\ RowsComputed(p) /\ SizesRead(p) /\ NullFirst
    /\ \A i \in 1..Len(checkpoints) : RootRight(checkpoints[i])
    /\ \A i \in 1..Len(checkpoints) : /\ checkpoints[i].tree_size <= TreeSize
                                      /\ pc[p] \in Writing => checkpoints[i].tree_size <= base[p]
    /\ pc[p] = "cp_save" => cp[p].tree_size \in 1..TreeSize /\ RootRight(cp[p])
    /\ TreeSize < 2^(MaxLevel + 1) => /\ IssuedProofVerifies
                                      /\ p \in Orders /\ pc[p] = "store" => ProofRight(p)

LEMMA OwnFromCalm ==
    ASSUME NEW p \in Procs, Alone(p), CalmInv
    PROVE  Own(p)
<1>1. \A q \in Procs \ {p} : \A l \in 0..MaxLevel : ~Behind(q, l)
  BY DEF Alone, Behind, Quiet
<1>2. \A l \in 0..MaxLevel : LevelIs(tree_nodes, l, Written(p, l), AllHashes)
  BY <1>1 DEF CalmInv, LevelsUpToDate, Written
<1>3. p \in Orders /\ pc[p] = "store" /\ TreeSize < 2^(MaxLevel + 1) => ProofRight(p)
  BY DEF CalmInv, ProofsRight, ProofRight
<1>4. \A i \in 1..Len(checkpoints) : RootRight(checkpoints[i])
  BY DEF CalmInv, CheckpointsRight, CheckpointRootIsMTH, RootRight
<1>5. \A i \in 1..Len(checkpoints) : /\ checkpoints[i].tree_size <= TreeSize
                                     /\ pc[p] \in Writing => checkpoints[i].tree_size <= base[p]
  BY DEF CalmInv, CheckpointsRight, Writing
<1>6. pc[p] = "cp_save" => cp[p].tree_size \in 1..TreeSize /\ RootRight(cp[p])
  BY DEF CalmInv, CheckpointsRight, RootRight
<1>7. TreeSize < 2^(MaxLevel + 1) => IssuedProofVerifies
  BY DEF CalmInv, ProofsRight
<1> QED
  BY <1>2, <1>3, <1>4, <1>5, <1>6, <1>7 DEF CalmInv, Own

LEMMA CalmFromOwn ==
    ASSUME NEW p \in Procs, Alone(p)', Own(p)'
    PROVE  CalmInv'
<1>1. \A q \in Procs \ {p} : \A l \in 0..MaxLevel : ~Behind(q, l)'
  BY DEF Alone, Behind, Quiet
<1>2. LevelsUpToDate'
  <2>1. ASSUME NEW l \in 0..MaxLevel
        PROVE  LevelIs(tree_nodes', l, IF Behind(p, l)' THEN base'[p] ELSE TreeSize', AllHashes')
    BY DEF Own, Written
  <2>2. ASSUME NEW l \in 0..MaxLevel, NEW q \in Procs, Behind(q, l)'
        PROVE  LevelIs(tree_nodes', l, base'[q], AllHashes')
    <3>1. q = p
      BY <1>1, <2>2
    <3> QED BY <2>1, <2>2, <3>1
  <2>3. ASSUME NEW l \in 0..MaxLevel, \A q \in Procs : ~Behind(q, l)'
        PROVE  LevelIs(tree_nodes', l, TreeSize', AllHashes')
    BY <2>1, <2>3
  <2> QED BY <2>2, <2>3 DEF LevelsUpToDate
<1>3. ASSUME NEW q \in Procs PROVE RowsComputed(q)' /\ SizesRead(q)'
  <2>1. CASE q = p
    BY <2>1 DEF Own
  <2>2. CASE q # p
    <3>1. pc'[q] \in Quiet
      BY <2>2 DEF Alone
    <3> QED BY <3>1 DEF Quiet, RowsComputed, SizesRead
  <2> QED BY <2>1, <2>2
<1>4. CheckpointsRight'
  <2>1. CheckpointRootIsMTH'
    BY DEF Own, CheckpointRootIsMTH, RootRight
  <2>2. ASSUME NEW q \in Procs, pc'[q] \in Writing \cup {"cp_save", "store"} PROVE q = p
    BY <2>2 DEF Alone, Quiet, Writing
  <2>3. ASSUME NEW i \in 1..Len(checkpoints')
        PROVE  /\ checkpoints'[i].tree_size <= TreeSize'
               /\ \A q \in Procs : pc'[q] \in Writing => checkpoints'[i].tree_size <= base'[q]
    BY <2>2 DEF Own
  <2>4. ASSUME NEW q \in Procs, pc'[q] = "cp_save"
        PROVE  /\ cp'[q].tree_size \in 1..TreeSize'
               /\ cp'[q].root_hash = MTH(cp'[q].tree_size, Hashes(cp[q].tree_size)')
    <3>1. q = p
      BY <2>2, <2>4
    <3> QED BY <2>4, <3>1 DEF Own, RootRight
  <2> QED
    BY <2>1, <2>3, <2>4 DEF CheckpointsRight, Writing
<1>5. TreeSize' < 2^(MaxLevel + 1) => ProofsRight'
  <2> SUFFICES ASSUME TreeSize' < 2^(MaxLevel + 1) PROVE ProofsRight'
    OBVIOUS
  <2>1. IssuedProofVerifies' /\ (p \in Orders /\ pc'[p] = "store" => ProofRight(p)')
    BY DEF Own
  <2>2. ASSUME NEW o \in Orders, pc'[o] = "store" PROVE ProofRight(o)'
    <3>1. o = p
      BY <2>2 DEF Alone, Quiet, Procs
    <3> QED BY <2>1, <2>2, <3>1
  <2> QED BY <2>1, <2>2 DEF ProofsRight, ProofRight
<1> QED
  BY <1>2, <1>3, <1>4, <1>5 DEF CalmInv, Own

\* Of the goroutines only the one that moves is in an operation.
LEMMA StaysAlone ==
    ASSUME TypeOK, OneWriter, Serialized, NEW p \in Procs, NEW to, pc' = [pc EXCEPT ![p] = to],
           pc[p] \notin Quiet \/ to # pc[p]
    PROVE  Alone(p) /\ Alone(p)' /\ pc'[p] = to /\ OneWriter'
<1>1. pc'[p] = to /\ \A q \in Procs \ {p} : pc'[q] = pc[q]
  BY DEF TypeOK
<1>2. Alone(p)
  BY <1>1 DEF OneWriter, Serialized, Alone
<1>3. \A q \in Procs \ {p} : pc'[q] \in Quiet
  BY <1>1, <1>2 DEF Alone
<1>4. Alone(p)'
  BY <1>3 DEF Alone
<1>5. OneWriter'
  BY <1>3 DEF OneWriter
<1> QED
  BY <1>1, <1>2, <1>4, <1>5

\* The entries that a checkpoint covers keep their hashes.
LEMMA HashesKept ==
    ASSUME LogShape, Grows, NEW n \in Nat, n <= TreeSize
    PROVE  Hashes(n)' = Hashes(n)
<1>1. \A i \in 0..(n - 1) : i \in DOMAIN log_entries
  BY DEF LogShape
<1>2. \A i \in 0..(n - 1) : log_entries'[i] = log_entries[i]
  BY <1>1 DEF Grows
<1> QED
  BY <1>2 DEF Hashes

LEMMA RootKept ==
    ASSUME LogShape, Grows, NEW c, c.tree_size \in Nat, c.tree_size <= TreeSize, RootRight(c)
    PROVE  RootRight(c)'
<1>1. Hashes(c.tree_size)' = Hashes(c.tree_size)
  BY HashesKept
<1> QED
  BY <1>1 DEF RootRight

\* The null entry is there once Initialize is over.
LEMMA NotEmpty ==
    ASSUME NEW p \in Procs, Alone(p), Own(p), pc[p] \notin {"init_size", "init_append"}
    PROVE  TreeSize >= 1 /\ pc[Watcher] \notin {"init_size", "init_append"}
<1>1. pc[Watcher] \notin {"init_size", "init_append"}
  BY DEF Alone, Procs, Quiet
<1> QED
  BY <1>1 DEF Own, NullFirst

\* Steps that read, and steps that write neither entries nor rows.
LEMMA OwnStill ==
    ASSUME IInv, NEW p \in Procs, Alone(p), Alone(p)', Own(p), UNCHANGED <<log_entries, tree_nodes, checkpoints, issued>>,
           pc[p] \notin Writing, pc'[p] \notin Writing, SizesRead(p)', NullFirst',
           pc'[p] = "cp_save" => cp'[p].tree_size \in 1..TreeSize /\ RootRight(cp'[p]),
           (TreeSize < 2^(MaxLevel + 1) /\ p \in Orders /\ pc'[p] = "store") => ProofRight(p)'
    PROVE  Own(p)'
<1>1. TreeSize' = TreeSize /\ AllHashes' = AllHashes /\ \A n : Hashes(n)' = Hashes(n)
  BY DEF TreeSize, AllHashes, Hashes
<1>2. \A l : ~Behind(p, l) /\ ~Behind(p, l)'
  BY DEF Behind, Writing
<1>3. \A l \in 0..MaxLevel : LevelIs(tree_nodes, l, Written(p, l), AllHashes)'
  BY <1>1, <1>2 DEF Own, Written
<1>4. RowsComputed(p)'
  BY DEF RowsComputed, Writing
<1>5. \A i \in 1..Len(checkpoints) : RootRight(checkpoints[i])'
  BY <1>1 DEF Own, RootRight
<1>6. \A i \in 1..Len(checkpoints) : checkpoints[i].tree_size <= TreeSize
  BY DEF Own
<1>7. pc'[p] = "cp_save" => cp'[p].tree_size \in 1..TreeSize' /\ RootRight(cp[p])'
  BY <1>1 DEF RootRight
<1>8. TreeSize' < 2^(MaxLevel + 1) => IssuedProofVerifies'
  BY <1>1 DEF Own, IssuedProofVerifies
<1> QED
  BY <1>1, <1>3, <1>4, <1>5, <1>6, <1>7, <1>8 DEF Own

LEMMA NullKept ==
    ASSUME NEW p \in Procs, Alone(p)', TreeSize' >= 1,
           pc'[p] \notin {"init_size", "init_append", "init_leaf"}
    PROVE  NullFirst'
<1>1. pc'[Watcher] \notin {"init_size", "init_append", "init_leaf"}
  BY DEF Alone, Procs, Quiet
<1> QED
  BY <1>1 DEF NullFirst

\* Where a goroutine knows of no size.
Resets == {"poll", "idle", "dead", "start", "size", "cursor", "cp_size", "proof", "done", "failed"}

LEMMA OwnMoves ==
    ASSUME IInv, NEW p \in Procs, Alone(p), Alone(p)', Own(p), UNCHANGED <<log_entries, tree_nodes, checkpoints, issued>>,
           pc[p] \notin Writing, TreeSize >= 1, pc'[p] \in Resets
    PROVE  Own(p)'
<1>1. TreeSize' >= 1
  BY DEF TreeSize
<1>2. NullFirst'
  BY <1>1, NullKept DEF Resets
<1>3. SizesRead(p)' /\ pc'[p] \notin Writing /\ pc'[p] # "cp_save" /\ pc'[p] # "store"
  BY DEF SizesRead, Resets, Writing
<1> QED
  BY <1>2, <1>3, OwnStill

LEMMA InitializeSizeOwn ==
    ASSUME IInv, Alone(Watcher), Alone(Watcher)', Own(Watcher), InitializeSize
    PROVE  Own(Watcher)'
<1>1. /\ Watcher \in Procs /\ pc[Watcher] = "init_size"
      /\ pc'[Watcher] = IF TreeSize > 0 THEN "poll" ELSE "init_append"
      /\ UNCHANGED <<log_entries, tree_nodes, checkpoints, issued>>
      /\ base' = base /\ TreeSize' = TreeSize /\ TreeSize \in Nat
  BY DEF InitializeSize, Goto, tables, IInv, TypeOK, Procs, TreeSize, TableInv, LogShape
<1>2. NullFirst'
  BY <1>1 DEF NullFirst, Own
<1>3. SizesRead(Watcher)' /\ pc[Watcher] \notin Writing /\ pc'[Watcher] \notin Writing
      /\ pc'[Watcher] # "cp_save" /\ pc'[Watcher] # "store"
  BY <1>1 DEF SizesRead, Writing
<1> QED
  BY <1>1, <1>2, <1>3, OwnStill

LEMMA PollOwn ==
    ASSUME IInv, Alone(Watcher), Alone(Watcher)', Own(Watcher), PollCertificates
    PROVE  Own(Watcher)'
<1>1. Watcher \in Procs /\ pc[Watcher] \in {"poll", "idle"} /\ UNCHANGED <<log_entries, tree_nodes, checkpoints, issued>>
  BY DEF PollCertificates, tables, Procs
<1>2. pc'[Watcher] \in {"idle", "size"}
  BY <1>1 DEF PollCertificates, Goto, IInv, TypeOK
<1>3. TreeSize >= 1
  BY <1>1, NotEmpty
<1>4. pc[Watcher] \notin Writing /\ pc'[Watcher] \in Resets
  BY <1>1, <1>2 DEF Writing, Resets
<1> QED
  BY <1>1, <1>3, <1>4, OwnMoves

LEMMA CheckpointTickOwn ==
    ASSUME IInv, Alone(Watcher), Alone(Watcher)', Own(Watcher), CheckpointTick
    PROVE  Own(Watcher)'
<1>1. Watcher \in Procs /\ pc[Watcher] = "idle" /\ UNCHANGED <<log_entries, tree_nodes, checkpoints, issued>>
      /\ pc'[Watcher] = "cp_size"
  BY DEF CheckpointTick, tables, Procs, Goto, IInv, TypeOK
<1>2. TreeSize >= 1
  BY <1>1, NotEmpty
<1>3. pc[Watcher] \notin Writing /\ pc'[Watcher] \in Resets
  BY <1>1 DEF Writing, Resets
<1> QED
  BY <1>1, <1>2, <1>3, OwnMoves

LEMMA UpdateCursorOwn ==
    ASSUME IInv, Alone(Watcher), Alone(Watcher)', Own(Watcher), UpdateWatcherCursor
    PROVE  Own(Watcher)'
<1>1. Watcher \in Procs /\ pc[Watcher] = "cursor" /\ UNCHANGED <<log_entries, tree_nodes, checkpoints, issued>>
      /\ pc'[Watcher] = "idle"
  BY DEF UpdateWatcherCursor, Return, Procs, Goto, IInv, TypeOK
<1>2. TreeSize >= 1
  BY <1>1, NotEmpty
<1>3. pc[Watcher] \notin Writing /\ pc'[Watcher] \in Resets
  BY <1>1 DEF Writing, Resets
<1> QED
  BY <1>1, <1>2, <1>3, OwnMoves

LEMMA StartFinalizeOwn ==
    ASSUME IInv, NEW o \in Orders, Alone(o), Alone(o)', Own(o), StartFinalize(o)
    PROVE  Own(o)'
<1>1. o \in Procs /\ pc[o] = "start" /\ UNCHANGED <<log_entries, tree_nodes, checkpoints, issued>>
      /\ pc'[o] = "size"
  BY DEF StartFinalize, Procs, Goto, IInv, TypeOK, tables
<1>2. TreeSize >= 1
  BY <1>1, NotEmpty
<1>3. pc[o] \notin Writing /\ pc'[o] \in Resets
  BY <1>1 DEF Writing, Resets
<1> QED
  BY <1>1, <1>2, <1>3, OwnMoves

LEMMA ReadSizeOwn ==
    ASSUME IInv, NEW p \in Procs, Alone(p), Alone(p)', Own(p), ReadSize(p)
    PROVE  Own(p)'
<1>1. /\ pc[p] = "size" /\ pc'[p] = "append" /\ base'[p] = TreeSize
      /\ UNCHANGED <<log_entries, tree_nodes, checkpoints, issued>> /\ TreeSize' = TreeSize
  BY DEF ReadSize, Goto, IInv, TypeOK, tables, TreeSize
<1>2. TreeSize >= 1
  BY <1>1, NotEmpty
<1>3. NullFirst'
  BY <1>1, <1>2, NullKept
<1>4. SizesRead(p)' /\ pc[p] \notin Writing /\ pc'[p] \notin Writing
      /\ pc'[p] # "cp_save" /\ pc'[p] # "store"
  BY <1>1, <1>2 DEF SizesRead, Writing
<1> QED
  BY <1>1, <1>3, <1>4, OwnStill

\* An operation that ends with an error.
LEMMA ErrorOwn ==
    ASSUME IInv, NEW p \in Procs, Alone(p), Alone(p)', Own(p), Return(p, OnError(p)),
           pc[p] \in {"append", "cp_size", "cp_root", "cp_leaves"}, UNCHANGED tables
    PROVE  Own(p)'
<1>1. UNCHANGED <<log_entries, tree_nodes, checkpoints, issued>> /\ pc'[p] \in Resets
  BY DEF tables, Return, Goto, OnError, Resets, IInv, TypeOK
<1>2. TreeSize >= 1
  BY NotEmpty
<1> QED
  BY <1>1, <1>2, OwnMoves DEF Writing

LEMMA CheckpointSizeOwn ==
    ASSUME IInv, NEW p \in Procs, Alone(p), Alone(p)', Own(p), CheckpointSize(p)
    PROVE  Own(p)'
<1>1. pc[p] = "cp_size" /\ UNCHANGED tables /\ TreeSize' = TreeSize
  BY DEF CheckpointSize, tables, TreeSize
<1>2. TreeSize >= 1
  BY <1>1, NotEmpty
<1>3. /\ pc'[p] = "cp_root" /\ cp'[p].tree_size = TreeSize
      /\ UNCHANGED <<log_entries, tree_nodes, checkpoints, issued>>
  BY <1>1, <1>2 DEF CheckpointSize, Goto, tables, IInv, TypeOK
<1>4. NullFirst'
  BY <1>1, <1>2, <1>3, NullKept
<1>5. SizesRead(p)' /\ pc[p] \notin Writing /\ pc'[p] \notin Writing
      /\ pc'[p] # "cp_save" /\ pc'[p] # "store"
  BY <1>1, <1>3 DEF SizesRead, Writing
<1> QED
  BY <1>3, <1>4, <1>5, OwnStill

\* A checkpoint gets its root hash.
LEMMA RootHashOwn ==
    ASSUME IInv, NEW p \in Procs, Alone(p), Alone(p)', Own(p), pc[p] \in {"cp_root", "cp_leaves"},
           NEW h, h = MTH(TreeSize, AllHashes), cp' = [cp EXCEPT ![p].root_hash = h], Goto(p, "cp_save"),
           UNCHANGED tables
    PROVE  Own(p)'
<1>1. UNCHANGED <<log_entries, tree_nodes, checkpoints, issued>> /\ TreeSize' = TreeSize
  BY DEF tables, TreeSize
<1>2. pc'[p] = "cp_save"
  BY DEF Goto, IInv, TypeOK
<1>3. cp'[p].tree_size = cp[p].tree_size /\ cp'[p].root_hash = h
  BY DEF IInv, TypeOK
<1>4. cp[p].tree_size = TreeSize
  BY DEF Own, SizesRead
<1>5. TreeSize >= 1 /\ TreeSize \in Nat
  BY NotEmpty DEF IInv, TableInv, LogShape
<1>6. RootRight(cp'[p])
  BY <1>3, <1>4 DEF RootRight, AllHashes
<1>7. cp'[p].tree_size \in 1..TreeSize
  BY <1>3, <1>4, <1>5
<1>8. NullFirst'
  BY <1>1, <1>2, <1>5, NullKept
<1>9. SizesRead(p)' /\ pc[p] \notin Writing /\ pc'[p] \notin Writing /\ pc'[p] # "store"
  BY <1>2 DEF SizesRead, Writing
<1> QED
  BY <1>1, <1>6, <1>7, <1>8, <1>9, OwnStill

LEMMA CheckpointRootOwn ==
    ASSUME IInv, NEW p \in Procs, Alone(p), Alone(p)', Own(p), CheckpointRoot(p), faults' = 0
    PROVE  Own(p)'
<1> DEFINE top == <<rootLevel(cp[p].tree_size), 0>>
<1>1. pc[p] = "cp_root" /\ UNCHANGED tables /\ TreeSize' = TreeSize
  BY DEF CheckpointRoot, tables, TreeSize
<1>2. cp[p].tree_size = TreeSize /\ TreeSize \in Nat /\ TreeSize >= 1
  BY <1>1, NotEmpty DEF Own, SizesRead, IInv, TableInv, LogShape
<1>3. \/ /\ top \in DOMAIN tree_nodes /\ cp' = [cp EXCEPT ![p].root_hash = tree_nodes[top]]
         /\ Goto(p, "cp_save")
      \/ Goto(p, "cp_leaves") /\ UNCHANGED cp
      \/ Return(p, OnError(p))
  BY DEF CheckpointRoot
<1>4. CASE top \in DOMAIN tree_nodes /\ cp' = [cp EXCEPT ![p].root_hash = tree_nodes[top]] /\ Goto(p, "cp_save")
  <2>1. rootLevel(TreeSize) \in 0..MaxLevel
    BY <1>2, <1>4 DEF IInv, TypeOK
  <2>2. \A l : ~Behind(p, l)
    BY <1>1 DEF Behind
  <2>3. LevelIs(tree_nodes, rootLevel(TreeSize), TreeSize, AllHashes)
    BY <2>1, <2>2 DEF Own, Written
  <2>4. tree_nodes[top] = MTH(TreeSize, AllHashes)
    BY <1>2, <1>4, <2>3, RootRow
  <2> QED
    BY <1>1, <1>4, <2>4, RootHashOwn
<1>5. CASE Goto(p, "cp_leaves") /\ UNCHANGED cp
  <2>1. pc'[p] = "cp_leaves" /\ UNCHANGED <<log_entries, tree_nodes, checkpoints, issued>>
    BY <1>1, <1>5 DEF Goto, IInv, TypeOK, tables
  <2>2. NullFirst'
    BY <1>1, <1>2, <2>1, NullKept
  <2>3. SizesRead(p)' /\ pc[p] \notin Writing /\ pc'[p] \notin Writing
        /\ pc'[p] # "cp_save" /\ pc'[p] # "store"
    BY <1>1, <1>2, <1>5, <2>1 DEF SizesRead, Writing
  <2> QED
    BY <2>1, <2>2, <2>3, OwnStill
<1> QED
  BY <1>1, <1>3, <1>4, <1>5, ErrorOwn

LEMMA CheckpointLeavesOwn ==
    ASSUME IInv, NEW p \in Procs, Alone(p), Alone(p)', Own(p), CheckpointLeaves(p)
    PROVE  Own(p)'
<1> DEFINE n == cp[p].tree_size
           leaves == [i \in 0..(n - 1) |-> tree_nodes[<<0, i>>]]
           h == computeSubtreeHash(0, n, leaves)
           Found == \A i \in 0..(n - 1) : <<0, i>> \in DOMAIN tree_nodes
<1>1. pc[p] = "cp_leaves" /\ UNCHANGED tables
  BY DEF CheckpointLeaves, tables
<1>2. n = TreeSize /\ TreeSize \in Nat /\ TreeSize >= 1
  BY <1>1, NotEmpty DEF Own, SizesRead, IInv, TableInv, LogShape
<1>3. \/ Found /\ cp' = [cp EXCEPT ![p].root_hash = h] /\ Goto(p, "cp_save")
      \/ Return(p, OnError(p))
  BY DEF CheckpointLeaves
<1> HIDE DEF n, h
<1>4. CASE Found /\ cp' = [cp EXCEPT ![p].root_hash = h] /\ Goto(p, "cp_save")
  <2>1. \A i \in 0..(n - 1) : tree_nodes[<<0, i>>] = LeafHash(log_entries[i].entry_data)
    <3>1. ASSUME NEW i \in 0..(n - 1) PROVE tree_nodes[<<0, i>>] = LeafHash(log_entries[i].entry_data)
      <4>1. <<0, i>> \in DOMAIN tree_nodes /\ <<0, i>>[1] = 0 /\ <<0, i>>[2] = i
        BY <1>4
      <4> QED BY <4>1 DEF IInv, TableInv, LeavesMatchEntries
    <3> QED BY <3>1
  <2>2. \A i \in 0..(n - 1) : leaves[i] = AllHashes[i]
    BY <1>2, <2>1 DEF AllHashes, Hashes
  <2> HIDE DEF leaves
  <2>3. computeSubtreeHash(0, n, leaves) = computeSubtreeHash(0, n, AllHashes)
    <3>1. n \in Nat /\ 0 < n /\ 0 \in Nat
      BY <1>2
    <3> QED BY ONLY <2>2, <3>1, HashOfLeaves
  <2>4. h = MTH(TreeSize, AllHashes)
    BY <1>2, <2>3 DEF h, MTH
  <2> QED
    BY <1>1, <1>4, <2>4, RootHashOwn
<1> QED
  BY <1>1, <1>3, <1>4, ErrorOwn

LEMMA SaveCheckpointOwn ==
    ASSUME IInv, NEW p \in Procs, Alone(p), Alone(p)', Own(p), SaveCheckpoint(p)
    PROVE  Own(p)'
<1>1. /\ pc[p] = "cp_save" /\ checkpoints' = Append(checkpoints, cp[p])
      /\ UNCHANGED <<log_entries, tree_nodes, issued>>
      /\ TreeSize' = TreeSize /\ AllHashes' = AllHashes /\ \A n : Hashes(n)' = Hashes(n)
  BY DEF SaveCheckpoint, TreeSize, AllHashes, Hashes
<1>2. pc'[p] \in {"idle", "proof"}
  BY DEF SaveCheckpoint, Return, Goto, IInv, TypeOK
<1>3. cp[p].tree_size \in 1..TreeSize /\ RootRight(cp[p]) /\ TreeSize \in Nat
  BY <1>1 DEF Own, IInv, TableInv, LogShape
<1>4. /\ Len(checkpoints) \in Nat /\ Len(checkpoints') = Len(checkpoints) + 1
      /\ \A i \in 1..Len(checkpoints) : checkpoints'[i] = checkpoints[i]
      /\ checkpoints'[Len(checkpoints) + 1] = cp[p]
  BY <1>1, AppendRow DEF IInv, TypeOK
<1>5. ASSUME NEW i \in 1..Len(checkpoints')
      PROVE  checkpoints'[i].tree_size <= TreeSize' /\ RootRight(checkpoints[i])'
  <2>1. CASE i \in 1..Len(checkpoints)
    <3>1. checkpoints[i].tree_size <= TreeSize /\ RootRight(checkpoints[i])
      BY <2>1 DEF Own
    <3> QED BY <1>1, <1>4, <2>1, <3>1 DEF RootRight
  <2>2. CASE i = Len(checkpoints) + 1
    BY <1>1, <1>3, <1>4, <2>2 DEF RootRight
  <2> QED
    BY <1>4, <2>1, <2>2
<1>6. \A l : ~Behind(p, l) /\ ~Behind(p, l)'
  BY <1>1, <1>2 DEF Behind
<1>7. \A l \in 0..MaxLevel : LevelIs(tree_nodes, l, Written(p, l), AllHashes)'
  BY <1>1, <1>6 DEF Own, Written
<1>8. RowsComputed(p)' /\ SizesRead(p)'
  BY <1>2 DEF RowsComputed, SizesRead
<1>9. NullFirst'
  <2>1. TreeSize' >= 1
    BY <1>1, <1>3
  <2> QED BY <1>2, <2>1, NullKept
<1>10. TreeSize' < 2^(MaxLevel + 1) => IssuedProofVerifies'
  BY <1>1 DEF Own, IssuedProofVerifies
<1> QED
  BY <1>2, <1>5, <1>7, <1>8, <1>9, <1>10 DEF Own, Writing

\* Proofs about the first n entries need no row that is being written.
LEMMA StoredRows ==
    ASSUME IInv, NEW p \in Procs, Own(p), TreeSize < 2^(MaxLevel + 1), NEW n \in Nat, n <= TreeSize,
           pc[p] \in Writing => n <= base[p]
    PROVE  RowsHold(tree_nodes, AllHashes, n)
<1>1. TreeSize \in Nat /\ base[p] \in Nat /\ MaxLevel \in Nat /\ 2^(MaxLevel + 1) \in Nat
  <2>1. MaxLevel \in Nat /\ MaxLevel + 1 \in Nat
    BY BoundsAssumption
  <2> QED BY <2>1, PowNat DEF IInv, TableInv, LogShape, TypeOK
<1>2. n < 2^(MaxLevel + 1)
  BY <1>1
<1>3. ASSUME NEW l \in 0..MaxLevel
      PROVE  \E m \in Nat : n <= m /\ LevelIs(tree_nodes, l, m, AllHashes)
  <2>1. Written(p, l) \in Nat /\ n <= Written(p, l)
    BY <1>1 DEF Written, Behind, Writing
  <2> QED BY <2>1 DEF Own
<1> QED
  BY <1>1, <1>2, <1>3, LevelsHoldRows

\* The tree hash of the first n entries, from all hashes or from those of them.
LEMMA PrefixHash ==
    ASSUME NEW n \in Nat, n <= TreeSize, TreeSize \in Nat
    PROVE  MTH(n, AllHashes) = MTH(n, Hashes(n))
<1>1. CASE n = 0
  BY <1>1 DEF MTH
<1>2. CASE n # 0
  <2>1. \A i \in 0..(n - 1) : AllHashes[i] = Hashes(n)[i]
    BY DEF AllHashes, Hashes
  <2>2. n \in Nat /\ 0 \in Nat /\ 0 < n
    BY <1>2
  <2>3. computeSubtreeHash(0, n, AllHashes) = computeSubtreeHash(0, n, Hashes(n))
    BY ONLY <2>1, <2>2, HashOfLeaves
  <2> QED BY <1>2, <2>3 DEF MTH
<1> QED
  BY <1>1, <1>2

\* A proof built from rows leads to the root of the entries.
LEMMA BuiltProofVerifies ==
    ASSUME NEW nodes, NEW n \in Nat, n <= TreeSize, TreeSize \in Nat, RowsHold(nodes, AllHashes, n), NEW size \in 1..n,
           NEW index \in 0..(size - 1)
    PROVE  /\ InclusionProofFromNodes(index, size, nodes) = InclusionProof(index, size, AllHashes)
           /\ RootFromInclusionProof(index, size, LeafHash(log_entries[index].entry_data),
                                     InclusionProofFromNodes(index, size, nodes)) = MTH(size, Hashes(size))
<1>1. InclusionProofFromNodes(index, size, nodes) = InclusionProof(index, size, AllHashes)
  BY ProofFromRows
<1>2. size \in Nat \ {0} /\ size <= TreeSize
  OBVIOUS
<1>3. RootFromInclusionProof(index, size, AllHashes[index], InclusionProof(index, size, AllHashes))
          = MTH(size, AllHashes)
  BY <1>2, InclusionProofVerifies
<1>4. AllHashes[index] = LeafHash(log_entries[index].entry_data)
  BY <1>2 DEF AllHashes, Hashes
<1>5. MTH(size, AllHashes) = MTH(size, Hashes(size))
  BY <1>2, PrefixHash
<1> QED
  BY <1>1, <1>3, <1>4, <1>5

\* A missing or a failed read is what BuildProof counts.
LEMMA NothingUnread ==
    ASSUME NEW lost \in Unread, faults = 0, faults + Cardinality(lost) = 0
    PROVE  lost = {}
<1>1. ASSUME NEW x, lost = {x} PROVE FALSE
  <2>1. Cardinality({x}) = 1
    BY FS_Singleton
  <2> QED BY <1>1, <2>1
<1> QED
  BY <1>1 DEF Unread

LEMMA BuildProofOwn ==
    ASSUME IInv, NEW o \in Orders, Alone(o), Alone(o)', Own(o), BuildProof(o), DOMAIN proof = Procs,
           faults = 0, faults' = 0
    PROVE  Own(o)'
<1>1. /\ o \in Procs /\ o # Watcher /\ pc[o] = "proof" /\ pc'[o] = "store" /\ base' = base /\ cp' = cp
      /\ UNCHANGED <<log_entries, tree_nodes, checkpoints, issued>> /\ TreeSize' = TreeSize
  BY ProcsAssumption DEF BuildProof, Procs, Goto, IInv, TypeOK, tables, TreeSize
<1>2. proof'[o] = InclusionProofFromNodes(base[o], cp[o].tree_size, Without(tree_nodes, {}))
  <2>1. PICK lost \in Unread :
            /\ proof' = [proof EXCEPT ![o] = InclusionProofFromNodes(base[o], cp[o].tree_size, Without(tree_nodes, lost))]
            /\ faults' = faults + Cardinality(lost)
    BY DEF BuildProof
  <2>2. lost = {}
    BY <2>1, NothingUnread
  <2> QED BY <1>1, <2>1, <2>2
<1>3. TreeSize >= 1 /\ TreeSize \in Nat
  BY <1>1, NotEmpty DEF IInv, TableInv, LogShape
<1>4. ASSUME TreeSize < 2^(MaxLevel + 1) PROVE ProofRight(o)'
  <2>1. RowsHold(tree_nodes, AllHashes, TreeSize)
    BY <1>1, <1>3, <1>4, StoredRows DEF Writing
  <2>2. RowsHold(Without(tree_nodes, {}), AllHashes, TreeSize)
    BY <2>1 DEF RowsHold, nodeAt, Without
  <2>3. PICK i \in 1..Len(checkpoints) : checkpoints[i] = cp[o]
    BY <1>1 DEF IInv, LocalInv, CheckpointCovers
  <2>4. /\ cp[o].tree_size \in 1..TreeSize /\ base[o] \in 0..(cp[o].tree_size - 1)
        /\ cp[o].root_hash = MTH(cp[o].tree_size, Hashes(cp[o].tree_size))
    <3>1. cp[o].tree_size \in Nat \ {0} /\ cp[o].tree_size <= TreeSize /\ RootRight(cp[o])
      BY <2>3 DEF Own, IInv, TypeOK
    <3>2. base[o] \in Nat /\ base[o] < cp[o].tree_size
      BY <1>1 DEF IInv, TypeOK, LocalInv, CheckpointCovers
    <3> QED BY <1>3, <3>1, <3>2 DEF RootRight
  <2>5. log_entries[base[o]] = DirectEntry(o)
    <3>1. Appended(o) /\ Appending(o) /\ BatchInLog(o) /\ BatchKind(o)
      BY <1>1 DEF Appended, Appending, IInv, LocalInv
    <3>2. batch[o] = <<DirectEntry(o)>>
      BY <1>1, <3>1 DEF BatchKind
    <3>3. Len(batch[o]) = 1 /\ batch[o][1] = DirectEntry(o)
      BY <3>2
    <3>4. log_entries[base[o] + 1 - 1] = batch[o][1]
      BY <3>1, <3>3 DEF BatchInLog
    <3>5. base[o] + 1 - 1 = base[o]
      BY <1>1 DEF IInv, TypeOK
    <3> QED BY <3>3, <3>4, <3>5
  <2>6. RootFromInclusionProof(base[o], cp[o].tree_size, LeafHash(log_entries[base[o]].entry_data), proof'[o])
            = MTH(cp[o].tree_size, Hashes(cp[o].tree_size))
    BY <1>2, <1>3, <2>2, <2>4, BuiltProofVerifies
  <2> QED
    BY <1>1, <2>4, <2>5, <2>6 DEF ProofRight
<1>5. NullFirst'
  BY <1>1, <1>3, NullKept
<1>6. SizesRead(o)' /\ pc[o] \notin Writing /\ pc'[o] \notin Writing /\ pc'[o] # "cp_save"
  BY <1>1 DEF SizesRead, Writing
<1> QED
  BY <1>1, <1>4, <1>5, <1>6, OwnStill

LEMMA StoreCertOwn ==
    ASSUME IInv, NEW o \in Orders, Alone(o), Alone(o)', Own(o), StoreCert(o)
    PROVE  Own(o)'
<1> DEFINE cert == [leaf_index |-> base[o], checkpoint |-> cp[o], proof |-> proof[o]]
           Right(q, c) == RootFromInclusionProof(c.leaf_index, c.checkpoint.tree_size,
                              LeafHash(DirectEntry(q).entry_data), c.proof) = c.checkpoint.root_hash
<1>1. /\ o \in Procs /\ pc[o] = "store" /\ pc'[o] = "done"
      /\ issued' = Upsert(issued, [x \in {o} |-> cert])
      /\ UNCHANGED <<log_entries, tree_nodes, checkpoints>>
      /\ TreeSize' = TreeSize /\ AllHashes' = AllHashes /\ \A n : Hashes(n)' = Hashes(n)
  BY DEF StoreCert, Return, Goto, Procs, IInv, TypeOK, TreeSize, AllHashes, Hashes
<1>2. TreeSize' < 2^(MaxLevel + 1) => IssuedProofVerifies'
  <2> SUFFICES ASSUME TreeSize < 2^(MaxLevel + 1), NEW q \in DOMAIN issued' PROVE Right(q, issued'[q])
    BY <1>1 DEF IssuedProofVerifies
  <2>1. CASE q = o
    <3>1. issued'[q] = cert
      BY <1>1, <2>1 DEF Upsert
    <3>2. ProofRight(o)
      BY <1>1 DEF Own
    <3>3. cert.leaf_index = base[o] /\ cert.checkpoint = cp[o] /\ cert.proof = proof[o]
      OBVIOUS
    <3> HIDE DEF cert
    <3> QED BY <2>1, <3>1, <3>2, <3>3 DEF ProofRight
  <2>2. CASE q # o
    <3>1. q \in DOMAIN issued /\ issued'[q] = issued[q]
      BY <1>1, <2>2 DEF Upsert
    <3>2. Right(q, issued[q])
      BY <3>1 DEF Own, IssuedProofVerifies
    <3> QED BY <3>1, <3>2
  <2> QED BY <2>1, <2>2
<1>3. TreeSize >= 1
  BY <1>1, NotEmpty
<1>4. NullFirst'
  BY <1>1, <1>3, NullKept
<1>5. \A l : ~Behind(o, l) /\ ~Behind(o, l)'
  BY <1>1 DEF Behind
<1>6. \A l \in 0..MaxLevel : LevelIs(tree_nodes, l, Written(o, l), AllHashes)'
  BY <1>1, <1>5 DEF Own, Written
<1>7. RowsComputed(o)' /\ SizesRead(o)'
  BY <1>1 DEF RowsComputed, SizesRead
<1>8. \A i \in 1..Len(checkpoints) : RootRight(checkpoints[i])' /\ checkpoints[i].tree_size <= TreeSize
  BY <1>1 DEF Own, RootRight
<1> QED
  BY <1>1, <1>2, <1>4, <1>6, <1>7, <1>8 DEF Own, Writing

-----------------------------------------------------------------------------
(* Steps that write entries.                                               *)

\* The log grows by the batch of goroutine p, which is behind from then on.
LEMMA GrownOwn ==
    ASSUME IInv, IInv', NEW p \in Procs, Alone(p), Alone(p)', Own(p), Grows,
           UNCHANGED <<tree_nodes, checkpoints, issued, base>>,
           pc[p] \in {"append", "init_append"}, pc'[p] \in {"leaf", "init_leaf"},
           base[p] = TreeSize, TreeSize' > TreeSize, SizesRead(p)', NullFirst'
    PROVE  Own(p)'
<1>1. TreeSize \in Nat /\ TreeSize' \in Nat /\ LogShape
  BY DEF IInv, TableInv, LogShape
<1>3. \A i \in 0..(TreeSize - 1) : AllHashes[i] = AllHashes'[i]
  <2>1. ASSUME NEW i \in 0..(TreeSize - 1) PROVE AllHashes[i] = AllHashes'[i]
    <3>1. i \in DOMAIN log_entries /\ i \in 0..(TreeSize' - 1)
      BY <1>1 DEF LogShape
    <3>2. log_entries'[i] = log_entries[i]
      BY <3>1 DEF Grows
    <3>3. AllHashes[i] = LeafHash(log_entries[i].entry_data)
      BY DEF AllHashes, Hashes
    <3>4. AllHashes'[i] = LeafHash(log_entries'[i].entry_data)
      BY <3>1 DEF AllHashes, Hashes
    <3> QED BY <3>2, <3>3, <3>4
  <2> QED BY <2>1
<1>4. ASSUME NEW l \in 0..MaxLevel PROVE LevelIs(tree_nodes, l, Written(p, l), AllHashes)'
  <2>1. ~Behind(p, l) /\ Behind(p, l)'
    BY DEF Behind
  <2>2. LevelIs(tree_nodes, l, TreeSize, AllHashes)
    BY <2>1 DEF Own, Written
  <2>3. SameLevel(tree_nodes, tree_nodes, l) /\ l \in Nat
    BY DEF SameLevel
  <2>4. LevelIs(tree_nodes, l, TreeSize, AllHashes')
    BY <1>1, <1>3, <2>2, <2>3, LevelKept
  <2> QED BY <2>1, <2>4 DEF Written
<1>5. ASSUME NEW i \in 1..Len(checkpoints)
      PROVE  /\ RootRight(checkpoints[i])' /\ checkpoints[i].tree_size <= TreeSize'
             /\ checkpoints[i].tree_size <= base[p]
  <2>1. checkpoints[i].tree_size \in Nat /\ checkpoints[i].tree_size <= TreeSize /\ RootRight(checkpoints[i])
    BY DEF Own, IInv, TypeOK
  <2>2. Hashes(checkpoints[i].tree_size)' = Hashes(checkpoints[i].tree_size)
    <3>1. ASSUME NEW n \in Nat, n <= TreeSize PROVE Hashes(n)' = Hashes(n)
      BY <1>1, <3>1, HashesKept
    <3> QED BY <2>1, <3>1
  <2> QED BY <1>1, <2>1, <2>2 DEF RootRight
<1>6. RowsComputed(p)'
  BY DEF RowsComputed
<1>7. TreeSize' < 2^(MaxLevel + 1) => IssuedProofVerifies'
  <2>1. 2^(MaxLevel + 1) \in Nat
    BY BoundsAssumption, PowNat
  <2>2. TreeSize' < 2^(MaxLevel + 1) => TreeSize < 2^(MaxLevel + 1)
    BY <1>1, <2>1
  <2>3. IssuedProofVerifies => IssuedProofVerifies'
    BY DEF IssuedProofVerifies
  <2> QED BY <2>2, <2>3 DEF Own
<1> QED
  BY <1>4, <1>5, <1>6, <1>7 DEF Own, Writing

LEMMA SomeBatch ==
    ASSUME IInv, NEW p \in Procs, Appending(p)
    PROVE  Len(batch[p]) \in Nat /\ Len(batch[p]) > 0
<1>1. BatchKind(p) /\ batch[p] \in Seq(Entry)
  BY DEF IInv, LocalInv, TypeOK
<1>2. CASE p = Watcher
  <2>1. PICK a \in 0..NumCerts, n \in 1..NumCerts : batch[p] = [i \in 1..n |-> CertEntry(a + i)]
    BY <1>1, <1>2 DEF BatchKind
  <2>2. Len(batch[p]) = n /\ n \in Nat /\ n > 0
    BY <1>1, <2>1, BoundsAssumption
  <2> QED BY <2>2
<1>3. CASE p # Watcher
  <2>1. batch[p] = <<DirectEntry(p)>>
    BY <1>1, <1>3 DEF BatchKind
  <2>2. Len(batch[p]) = 1
    BY <2>1
  <2> QED BY <2>2
<1> QED
  BY <1>2, <1>3

\* A log whose rows are 0..a + b - 1 has a + b entries.
LEMMA GrownSize ==
    ASSUME NEW rows, NEW a \in Nat, NEW b \in Nat, DOMAIN rows = 0..(a + b - 1)
    PROVE  sizeOf(rows) = a + b
<1>1. PICK n \in Nat : n = a + b
  OBVIOUS
<1>2. DOMAIN rows = 0..(n - 1)
  BY <1>1
<1>3. sizeOf(rows) = n
  BY ONLY <1>1, <1>2, SizeOfRows
<1> QED
  BY <1>1, <1>3

LEMMA AppendEntriesOwn ==
    ASSUME IInv, IInv', NEW p \in Procs, Alone(p), Alone(p)', Own(p), AppendEntries(p)
    PROVE  Own(p)'
<1>1. /\ pc[p] = "append" /\ pc'[p] = "leaf" /\ batch' = batch /\ base' = base
      /\ UNCHANGED <<tree_nodes, checkpoints, issued, base>>
      /\ batch[p] \in Seq(Entry) /\ base[p] \in Nat
      /\ log_entries' = Upsert(log_entries, RowsAt(base[p], batch[p]))
      /\ DOMAIN RowsAt(base[p], batch[p]) \cap DOMAIN log_entries = {}
  BY DEF AppendEntries, Goto, IInv, TypeOK
<1>2. base[p] = TreeSize /\ base[p] >= 1
  BY <1>1 DEF Own, SizesRead
<1>3. Len(batch[p]) > 0 /\ Len(batch[p]) \in Nat
  BY <1>1, SomeBatch DEF Appending
<1>4. 0..(base[p] - 1) \subseteq DOMAIN log_entries /\ LogShape
  BY <1>1 DEF IInv, LocalInv, SizeRead, TableInv
<1>5. /\ DOMAIN log_entries' = 0..(base[p] + Len(batch[p]) - 1)
      /\ Grows
  BY <1>1, <1>3, <1>4, RowsAppended DEF Grows
<1>6. TreeSize' = base[p] + Len(batch[p])
  <2>1. base[p] \in Nat /\ Len(batch[p]) \in Nat
    BY <1>1, <1>3
  <2>2. DOMAIN log_entries' = 0..(base[p] + Len(batch[p]) - 1)
    BY <1>5, Zenon
  <2>3. sizeOf(log_entries') = base[p] + Len(batch[p])
    BY ONLY <2>1, <2>2, GrownSize, Zenon
  <2> QED BY <2>3, Zenon DEF TreeSize
<1>7. SizesRead(p)'
  BY <1>1, <1>2, <1>6 DEF SizesRead
<1>8. NullFirst'
  <2>1. TreeSize' >= 1
    BY <1>1, <1>2, <1>3, <1>6
  <2> QED BY <1>1, <2>1, NullKept
<1>9. TreeSize' > TreeSize
  BY <1>1, <1>2, <1>3, <1>6
<1> QED
  BY <1>1, <1>2, <1>5, <1>7, <1>8, <1>9, GrownOwn

LEMMA InitializeAppendOwn ==
    ASSUME IInv, IInv', Alone(Watcher), Alone(Watcher)', Own(Watcher), InitializeAppend
    PROVE  Own(Watcher)'
<1>1. /\ Watcher \in Procs /\ pc[Watcher] = "init_append"
      /\ UNCHANGED <<tree_nodes, checkpoints, issued, base>>
      /\ LogShape /\ TreeSize \in Nat
  BY DEF InitializeAppend, Procs, IInv, TableInv, LogShape
<1>2. CASE 0 \in DOMAIN log_entries
  <2>1. pc'[Watcher] = "dead" /\ UNCHANGED log_entries
    BY <1>1, <1>2 DEF InitializeAppend, Goto, OnError, IInv, TypeOK
  <2>2. TreeSize >= 1
    BY <1>1, <1>2 DEF LogShape
  <2> QED
    BY <1>1, <2>1, <2>2, OwnMoves DEF Writing, Resets
<1>3. CASE 0 \notin DOMAIN log_entries
  <2> DEFINE b == <<NullEntry>>
  <2>1. pc'[Watcher] = "init_leaf" /\ log_entries' = Upsert(log_entries, RowsAt(0, b))
    BY <1>1, <1>3 DEF InitializeAppend, Goto, IInv, TypeOK
  <2>2. TreeSize = 0 /\ DOMAIN log_entries = {} /\ base[Watcher] = 0
    BY <1>1, <1>3 DEF LogShape, Own, NullFirst
  <2>3. b \in Seq(Entry) /\ Len(b) = 1
    BY DEF NullEntry, Entry
  <2> HIDE DEF b
  <2>4. DOMAIN log_entries' = 0..0
    BY <2>1, <2>2, <2>3 DEF Upsert, RowsAt
  <2>5. TreeSize' = 1
    <3>1. DOMAIN log_entries' = 0..(1 - 1) /\ 1 \in Nat
      BY <2>4
    <3> QED BY <3>1, SizeOfRows DEF TreeSize
  <2>6. Grows
    BY <1>1, <2>2 DEF Grows
  <2>7. SizesRead(Watcher)' /\ NullFirst'
    BY <1>1, <2>1, <2>2, <2>5 DEF SizesRead, NullFirst
  <2> QED
    BY <1>1, <2>1, <2>2, <2>5, <2>6, <2>7, GrownOwn
<1> QED
  BY <1>2, <1>3

-----------------------------------------------------------------------------
(* Steps that write rows.                                                  *)

\* The leaves of a batch bring level 0 up to date.
LEMMA LeafLevel ==
    ASSUME NEW nodes, LogShape, NEW s \in Nat, NEW b \in Seq(Entry), Len(b) > 0, TreeSize = s + Len(b),
           \A i \in 1..Len(b) : s + i - 1 \in DOMAIN log_entries /\ log_entries[s + i - 1] = b[i],
           LevelIs(nodes, 0, s, AllHashes)
    PROVE  LevelIs(Upsert(nodes, LeavesAt(s, b)), 0, TreeSize, AllHashes)
<1> DEFINE rows == LeavesAt(s, b)
           m == TreeSize
<1>1. Len(b) \in Nat /\ m \in Nat /\ s < m /\ m - 1 \in Nat /\ m - 1 = s + Len(b) - 1
  OBVIOUS
<1>2. Shift(s, 0) = s /\ Shift(m - 1, 0) = m - 1
  BY <1>1, ShiftByZero
<1>3. DOMAIN rows = {0} \X (s..(m - 1))
  BY <1>1 DEF LeavesAt
<1>4. \A x \in DOMAIN rows : rows[x] = LeafHash(log_entries[x[2]].entry_data)
  BY LeavesOfBatch
<1> HIDE DEF rows, m
<1>5. ASSUME NEW j \in s..(m - 1) PROVE rows[<<0, j>>] = RowHash(0, j, m, AllHashes)
  <2>1. <<0, j>> \in DOMAIN rows /\ <<0, j>>[2] = j
    BY <1>3
  <2>2. rows[<<0, j>>] = LeafHash(log_entries[j].entry_data)
    BY <1>4, <2>1
  <2>3. j \in Nat /\ j < m /\ j \in 0..(m - 1)
    BY <1>1
  <2>4. AllHashes[j] = LeafHash(log_entries[j].entry_data)
    BY <2>3 DEF AllHashes, Hashes, m
  <2>5. RowHash(0, j, m, AllHashes) = AllHashes[j]
    BY <1>1, <2>3, LeafRow
  <2> QED BY <2>2, <2>4, <2>5
<1>6. /\ DOMAIN rows = {0} \X (Shift(s, 0)..Shift(m - 1, 0))
      /\ \A j \in Shift(s, 0)..Shift(m - 1, 0) : rows[<<0, j>>] = RowHash(0, j, m, AllHashes)
  BY <1>2, <1>3, <1>5
<1>7. 0 \in Nat /\ LevelIs(nodes, 0, s, AllHashes)
  OBVIOUS
<1>8. LevelIs(Upsert(nodes, rows), 0, m, AllHashes)
  BY ONLY <1>1, <1>6, <1>7, s \in Nat, LevelWritten
<1> QED
  BY <1>8 DEF rows, m

\* What a step that writes rows leaves alone.
LEMMA RowsOwn ==
    ASSUME IInv, NEW p \in Procs, Own(p), pc[p] \in Writing,
           UNCHANGED <<log_entries, checkpoints, issued>>, base'[p] = base[p], pc'[p] \notin {"cp_save", "store"},
           \A l \in 0..MaxLevel : LevelIs(tree_nodes', l, (Written(p, l))', AllHashes),
           RowsComputed(p)', SizesRead(p)', NullFirst'
    PROVE  Own(p)'
<1>1. TreeSize' = TreeSize /\ AllHashes' = AllHashes /\ \A n : Hashes(n)' = Hashes(n)
  BY DEF TreeSize, AllHashes, Hashes
<1>2. \A l \in 0..MaxLevel : LevelIs(tree_nodes, l, Written(p, l), AllHashes)'
  BY <1>1
<1>3. \A i \in 1..Len(checkpoints) : /\ RootRight(checkpoints[i])' /\ checkpoints[i].tree_size <= TreeSize
                                     /\ checkpoints[i].tree_size <= base[p]
  BY <1>1 DEF Own, RootRight
<1>4. TreeSize' < 2^(MaxLevel + 1) => IssuedProofVerifies'
  BY <1>1 DEF Own, IssuedProofVerifies
<1> QED
  BY <1>1, <1>2, <1>3, <1>4 DEF Own

LEMMA InitializeLeafOwn ==
    ASSUME IInv, Alone(Watcher), Alone(Watcher)', Own(Watcher), InitializeLeaf
    PROVE  Own(Watcher)'
<1> DEFINE b == <<NullEntry>>
           rows == LeavesAt(0, b)
<1>1. /\ Watcher \in Procs /\ pc[Watcher] = "init_leaf" /\ pc'[Watcher] = "poll" /\ base' = base
      /\ tree_nodes' = Upsert(tree_nodes, rows) /\ UNCHANGED <<log_entries, checkpoints, issued>>
      /\ TreeSize' = TreeSize
  BY DEF InitializeLeaf, Goto, Procs, IInv, TypeOK, TreeSize
<1>2. TreeSize = 1 /\ base[Watcher] = 0 /\ LogShape
  BY <1>1 DEF Own, NullFirst, IInv, TableInv
<1>3. b \in Seq(Entry) /\ Len(b) = 1 /\ b[1] = NullEntry
  BY DEF NullEntry, Entry
<1>4. 0 \in DOMAIN log_entries /\ log_entries[0] = NullEntry
  BY <1>1 DEF IInv, NullInLog
<1> HIDE DEF b
<1>5. ASSUME NEW l \in 0..MaxLevel PROVE LevelIs(tree_nodes', l, (Written(Watcher, l))', AllHashes)
  <2>1. Behind(Watcher, l) /\ ~Behind(Watcher, l)'
    BY <1>1 DEF Behind
  <2>2. LevelIs(tree_nodes, l, 0, AllHashes)
    BY <1>2, <2>1 DEF Own, Written
  <2>3. (Written(Watcher, l))' = TreeSize
    BY <1>1, <2>1 DEF Written
  <2>4. CASE l = 0
    <3>1. \A i \in 1..Len(b) : 0 + i - 1 \in DOMAIN log_entries /\ log_entries[0 + i - 1] = b[i]
      BY <1>3, <1>4
    <3>2. LevelIs(tree_nodes, 0, 0, AllHashes) /\ 0 \in Nat /\ Len(b) > 0 /\ TreeSize = 0 + Len(b)
      BY <1>2, <1>3, <2>2, <2>4
    <3>3. LevelIs(Upsert(tree_nodes, rows), 0, TreeSize, AllHashes)
      BY <1>2, <1>3, <3>1, <3>2, LeafLevel
    <3> QED BY <1>1, <2>3, <2>4, <3>3
  <2>5. CASE l # 0
    <3>1. l \in Nat /\ l > 0
      BY <2>5
    <3>2. \A j : ~HasRow(l, j, 1) 
      BY <3>1 DEF HasRow
    <3>3. \A x \in DOMAIN tree_nodes : x[1] # l
      <4> SUFFICES ASSUME NEW x \in DOMAIN tree_nodes, x[1] = l PROVE FALSE
        OBVIOUS
      <4>1. HasRow(l, x[2], 0)
        BY <2>2 DEF LevelIs
      <4> QED BY <3>1, <4>1 DEF HasRow
    <3>4. \A x \in DOMAIN rows : x[1] = 0
      BY DEF LeavesAt
    <3> HIDE DEF rows
    <3>5. \A x \in DOMAIN tree_nodes' : x[1] # l
      BY <1>1, <3>1, <3>3, <3>4 DEF Upsert
    <3> QED BY <1>2, <2>3, <3>2, <3>5 DEF LevelIs
  <2> QED BY <2>4, <2>5
<1>6. RowsComputed(Watcher)' /\ SizesRead(Watcher)' /\ pc[Watcher] \in Writing
  BY <1>1 DEF RowsComputed, SizesRead, Writing
<1>7. NullFirst'
  BY <1>1, <1>2, NullKept
<1> QED
  BY <1>1, <1>5, <1>6, <1>7, RowsOwn

LEMMA ShiftOrder ==
    ASSUME NEW x \in Nat, NEW y \in Nat, x <= y, NEW l \in Nat
    PROVE  Shift(x, l) \in Nat /\ Shift(y, l) \in Nat /\ Shift(x, l) <= Shift(y, l)
<1> DEFINE q == Shift(x, l)
<1>1. q \in Nat /\ Shift(y, l) \in Nat
  BY ShiftIs
<1>2. \A j \in Nat : j <= q <=> j * 2^l <= x
  BY ShiftIs
<1> HIDE DEF q
<1>3. q * 2^l <= x /\ q * 2^l \in Nat
  BY <1>1, <1>2, RowStarts
<1>4. q * 2^l <= y
  BY <1>3
<1>5. q <= Shift(y, l)
  BY <1>1, <1>4, ShiftIs
<1> QED
  BY <1>1, <1>5 DEF q

\* At the first row of a level nothing is computed.
LEMMA LevelEntered ==
    ASSUME NEW p \in Procs, NEW l \in Nat, base[p] \in Nat, Len(batch[p]) \in Nat, Len(batch[p]) > 0,
           rec'[p] = AtLevel(p, l), base'[p] = base[p], batch'[p] = batch[p], pc'[p] = "left"
    PROVE  RowsComputed(p)'
<1> DEFINE s == Shift(base[p], l)
           t == Shift(base[p] + Len(batch[p]) - 1, l)
<1>1. s \in Nat /\ t \in Nat /\ s <= t
  <2>1. base[p] + Len(batch[p]) - 1 \in Nat /\ base[p] <= base[p] + Len(batch[p]) - 1
    OBVIOUS
  <2> QED BY <2>1, ShiftOrder
<1>2. rec'[p].level = l /\ rec'[p].idx = s /\ DOMAIN rec'[p].nodes = {}
  BY DEF AtLevel
<1>3. endIdx(p)' = t
  BY <1>2 DEF endIdx
<1>4. (Shift(base[p], rec[p].level))' = s
  BY <1>2
<1> HIDE DEF s, t
<1>5. s \in s..t /\ s..(s - 1) = {} /\ {l} \X (s..(s - 1)) = {}
  BY <1>1
<1> QED
  BY <1>2, <1>3, <1>4, <1>5 DEF RowsComputed

LEMMA SetLeavesOwn ==
    ASSUME IInv, NEW p \in Procs, Alone(p), Alone(p)', Own(p), SetLeaves(p)
    PROVE  Own(p)'
<1> DEFINE rows == LeavesAt(base[p], batch[p])
<1>1. /\ pc[p] = "leaf" /\ pc'[p] = "left" /\ base' = base /\ batch' = batch
      /\ rec'[p] = AtLevel(p, 1) /\ batch[p] \in Seq(Entry) /\ base[p] \in Nat
      /\ tree_nodes' = Upsert(tree_nodes, rows) /\ UNCHANGED <<log_entries, checkpoints, issued>>
      /\ TreeSize' = TreeSize
  BY DEF SetLeaves, Goto, IInv, TypeOK, TreeSize
<1>2. /\ TreeSize = base[p] + Len(batch[p]) /\ base[p] >= 1 /\ LogShape
      /\ Len(batch[p]) \in Nat /\ Len(batch[p]) > 0
  BY <1>1, SomeBatch DEF Own, SizesRead, IInv, TableInv, Appending, Appended
<1>3. \A i \in 1..Len(batch[p]) : base[p] + i - 1 \in DOMAIN log_entries
                                  /\ log_entries[base[p] + i - 1] = batch[p][i]
  BY <1>1 DEF IInv, LocalInv, BatchInLog, Appended
<1>4. rec'[p].level = 1
  BY <1>1 DEF AtLevel
<1>5. ASSUME NEW l \in 0..MaxLevel PROVE LevelIs(tree_nodes', l, (Written(p, l))', AllHashes)
  <2>1. Behind(p, l) /\ (Behind(p, l)' <=> l >= 1)
    BY <1>1, <1>4 DEF Behind
  <2>2. LevelIs(tree_nodes, l, base[p], AllHashes)
    BY <2>1 DEF Own, Written
  <2>3. CASE l = 0
    <3>1. (Written(p, l))' = TreeSize
      BY <1>1, <2>1, <2>3 DEF Written
    <3>2. LevelIs(Upsert(tree_nodes, rows), 0, TreeSize, AllHashes)
      BY <1>1, <1>2, <1>3, <2>2, <2>3, LeafLevel
    <3> QED BY <1>1, <2>3, <3>1, <3>2
  <2>4. CASE l # 0
    <3>1. (Written(p, l))' = base[p]
      BY <1>1, <2>1, <2>4 DEF Written
    <3>2. \A x \in DOMAIN rows : x[1] = 0
      BY DEF LeavesAt
    <3> HIDE DEF rows
    <3>3. SameLevel(tree_nodes, Upsert(tree_nodes, rows), l)
      BY <2>4, <3>2, OtherLevels
    <3>4. l \in Nat /\ base[p] \in Nat /\ \A i \in 0..(base[p] - 1) : AllHashes[i] = AllHashes[i]
      BY <1>1
    <3>5. LevelIs(Upsert(tree_nodes, rows), l, base[p], AllHashes)
      BY ONLY <2>2, <3>3, <3>4, LevelKept
    <3> QED BY <1>1, <3>1, <3>5
  <2> QED BY <2>3, <2>4
<1>6. RowsComputed(p)'
  BY <1>1, <1>2, LevelEntered
<1>7. SizesRead(p)' /\ pc[p] \in Writing
  BY <1>1, <1>2 DEF SizesRead, Writing
<1>8. NullFirst'
  <2>1. TreeSize' >= 1
    BY <1>1, <1>2
  <2> QED BY <1>1, <2>1, NullKept
<1> QED
  BY <1>1, <1>5, <1>6, <1>7, <1>8, RowsOwn

LEMMA SetLevelOwn ==
    ASSUME IInv, NEW p \in Procs, Alone(p), Alone(p)', Own(p), SetLevel(p)
    PROVE  Own(p)'
<1> DEFINE k == rec[p].level
           rows == rec[p].nodes
           s == Shift(base[p], k)
           t == Shift(TreeSize - 1, k)
<1>1. /\ pc[p] = "write" /\ base' = base /\ batch' = batch
      /\ tree_nodes' = Upsert(tree_nodes, rows) /\ UNCHANGED <<log_entries, checkpoints, issued>>
      /\ TreeSize' = TreeSize /\ base[p] \in Nat /\ TreeSize \in Nat /\ k \in 1..MaxLevel
  BY DEF SetLevel, IInv, TypeOK, TreeSize, TableInv, LogShape, LocalInv, RecLevel
<1>2. /\ TreeSize = base[p] + Len(batch[p]) /\ base[p] >= 1
      /\ Len(batch[p]) \in Nat /\ Len(batch[p]) > 0 /\ MaxLevel \in Nat
  BY <1>1, SomeBatch, BoundsAssumption DEF Own, SizesRead, Appending, Appended
<1>3. endIdx(p) = t
  <2>1. base[p] + Len(batch[p]) - 1 = TreeSize - 1
    BY <1>1, <1>2
  <2> QED BY <2>1 DEF endIdx
<1>4. /\ rec[p].idx \in s..t /\ rec[p].idx = t /\ DOMAIN rows = {k} \X (s..t)
      /\ \A j \in s..t : rows[<<k, j>>] = RowHash(k, j, TreeSize, AllHashes)
  BY <1>1, <1>3 DEF Own, RowsComputed
<1>5. DOMAIN rows # {}
  <2>1. <<k, t>> \in {k} \X (s..t)
    BY <1>4
  <2> QED BY <1>4, <2>1
<1>6. IF k = MaxLevel THEN pc'[p] \in {"cursor", "cp_size"}
                      ELSE pc'[p] = "left" /\ rec'[p] = AtLevel(p, k + 1)
  BY <1>1, <1>5 DEF SetLevel, Goto, IInv, TypeOK
<1>7. k # MaxLevel => rec'[p].level = k + 1
  BY <1>6 DEF AtLevel
<1>8. LevelIs(Upsert(tree_nodes, rows), k, TreeSize, AllHashes)
  <2>1. Behind(p, k)
    BY <1>1 DEF Behind
  <2>2. LevelIs(tree_nodes, k, base[p], AllHashes)
    BY <1>1, <2>1 DEF Own, Written
  <2>3. k \in Nat /\ base[p] < TreeSize
    BY <1>1, <1>2
  <2>4. DOMAIN rows = {k} \X (Shift(base[p], k)..Shift(TreeSize - 1, k))
        /\ \A j \in Shift(base[p], k)..Shift(TreeSize - 1, k) : rows[<<k, j>>] = RowHash(k, j, TreeSize, AllHashes)
    BY <1>4
  <2> HIDE DEF k, rows
  <2> QED BY ONLY <1>1, <1>2, <2>2, <2>3, <2>4, LevelWritten
<1> HIDE DEF s, t
<1>9. ASSUME NEW l \in 0..MaxLevel PROVE LevelIs(tree_nodes', l, (Written(p, l))', AllHashes)
  <2>1. Behind(p, l) <=> l >= k
    BY <1>1 DEF Behind
  <2>2. Behind(p, l)' <=> l >= k + 1
    <3>1. CASE k = MaxLevel
      BY <1>1, <1>2, <1>6, <3>1 DEF Behind
    <3>2. CASE k # MaxLevel
      <4>1. pc'[p] = "left" /\ rec'[p].level = k + 1
        BY <1>6, <1>7, <3>2
      <4> HIDE DEF k
      <4> QED BY <4>1 DEF Behind
    <3> QED BY <3>1, <3>2
  <2> HIDE DEF k
  <2>3. CASE l = k
    <3>1. (Written(p, l))' = TreeSize
      BY <1>1, <2>2, <2>3 DEF Written
    <3> QED BY <1>1, <1>8, <2>3, <3>1
  <2>4. CASE l # k
    <3>1. Behind(p, l)' <=> Behind(p, l)
      BY <1>1, <1>2, <2>1, <2>2, <2>4
    <3>2. (Written(p, l))' = Written(p, l) /\ Written(p, l) \in Nat
      BY <1>1, <3>1 DEF Written
    <3>3. LevelIs(tree_nodes, l, Written(p, l), AllHashes)
      BY DEF Own
    <3>4. \A x \in DOMAIN rows : x[1] = k
      BY <1>4
    <3> HIDE DEF rows
    <3>5. SameLevel(tree_nodes, Upsert(tree_nodes, rows), l)
      BY <2>4, <3>4, OtherLevels
    <3>6. LevelIs(Upsert(tree_nodes, rows), l, Written(p, l), AllHashes)
      BY <3>2, <3>3, <3>5, LevelKept
    <3> QED BY <1>1, <3>2, <3>6
  <2> QED BY <2>3, <2>4
<1>10. RowsComputed(p)' /\ SizesRead(p)'
  <2>1. CASE k = MaxLevel
    BY <1>6, <2>1 DEF RowsComputed, SizesRead
  <2>2. CASE k # MaxLevel
    <3>1. k + 1 \in Nat /\ pc'[p] = "left" /\ rec'[p] = AtLevel(p, k + 1)
      BY <1>1, <1>6, <2>2
    <3> HIDE DEF k
    <3>2. RowsComputed(p)'
      BY <1>1, <1>2, <3>1, LevelEntered
    <3>3. SizesRead(p)'
      BY <1>1, <1>2, <3>1 DEF SizesRead
    <3> QED BY <3>2, <3>3
  <2> QED BY <2>1, <2>2
<1>11. NullFirst'
  <2>1. TreeSize' >= 1
    BY <1>1, <1>2
  <2> QED BY <1>6, <2>1, NullKept
<1>12. pc[p] \in Writing /\ pc'[p] \notin {"cp_save", "store"}
  BY <1>1, <1>6 DEF Writing
<1> QED
  BY <1>1, <1>9, <1>10, <1>11, <1>12, RowsOwn

\* Where recomputeInterior is, between two reads.
LEMMA AtRow ==
    ASSUME IInv, NEW p \in Procs, Own(p), pc[p] \in {"left", "right"}
    PROVE  LET k == rec[p].level
               j == rec[p].idx
               s == Shift(base[p], k)
           IN  /\ k \in 1..MaxLevel /\ j \in Nat /\ s \in Nat /\ s <= j /\ j <= endIdx(p) /\ endIdx(p) \in Nat
               /\ j * 2^k < TreeSize /\ TreeSize \in Nat /\ TreeSize > 1
               /\ LevelIs(tree_nodes, k - 1, TreeSize, AllHashes)
               /\ DOMAIN rec[p].nodes = {k} \X (s..(j - 1))
               /\ \A i \in s..(j - 1) : rec[p].nodes[<<k, i>>] = RowHash(k, i, TreeSize, AllHashes)
<1> DEFINE k == rec[p].level
           j == rec[p].idx
           s == Shift(base[p], k)
           t == Shift(TreeSize - 1, k)
<1>1. /\ base[p] \in Nat /\ TreeSize \in Nat /\ k \in 1..MaxLevel /\ MaxLevel \in Nat
  BY BoundsAssumption DEF IInv, TypeOK, TableInv, LogShape, LocalInv, RecLevel
<1>2. /\ TreeSize = base[p] + Len(batch[p]) /\ base[p] >= 1
      /\ Len(batch[p]) \in Nat /\ Len(batch[p]) > 0
  BY <1>1, SomeBatch DEF Own, SizesRead, Appending, Appended
<1>3. base[p] + Len(batch[p]) - 1 = TreeSize - 1 /\ TreeSize - 1 \in Nat /\ TreeSize > 1 /\ k \in Nat /\ k - 1 \in 0..MaxLevel
  <2> HIDE DEF k
  <2>1. k \in Nat /\ k - 1 \in 0..MaxLevel
    BY ONLY <1>1
  <2>2. base[p] \in Nat /\ TreeSize \in Nat
    BY <1>1
  <2>3. base[p] + Len(batch[p]) - 1 = TreeSize - 1 /\ TreeSize - 1 \in Nat /\ TreeSize > 1
    BY ONLY <1>2, <2>2
  <2> QED BY <2>1, <2>3
<1>4. endIdx(p) = t
  BY <1>3 DEF endIdx
<1>5. s \in Nat /\ t \in Nat
  BY <1>1, <1>3, ShiftIs
<1>6. /\ j \in s..t /\ DOMAIN rec[p].nodes = {k} \X (s..(j - 1))
      /\ \A i \in s..(j - 1) : rec[p].nodes[<<k, i>>] = RowHash(k, i, TreeSize, AllHashes)
  BY <1>4 DEF Own, RowsComputed
<1>7. LevelIs(tree_nodes, k - 1, TreeSize, AllHashes)
  <2>1. ~Behind(p, k - 1)
    BY <1>1 DEF Behind
  <2> QED BY <1>3, <2>1 DEF Own, Written
<1> HIDE DEF s, k, j
<1>8. j \in Nat /\ s <= j /\ j <= t
  BY <1>5, <1>6
<1>9. j * 2^k < TreeSize
  <2>1. j * 2^k <= TreeSize - 1
    BY <1>3, <1>8, ShiftIs
  <2>2. j * 2^k \in Nat
    BY <1>3, <1>8, RowStarts
  <2> QED BY <1>1, <2>1, <2>2
<1> QED
  BY <1>1, <1>3, <1>4, <1>5, <1>6, <1>7, <1>8, <1>9 DEF s, k, j

\* A read changes where goroutine p is in the level and nothing else.
LEMMA RowReadOwn ==
    ASSUME IInv, NEW p \in Procs, Alone(p), Alone(p)', Own(p), pc[p] \in {"left", "right"},
           pc'[p] \in {"left", "right", "write"}, UNCHANGED <<tables, batch, base>>,
           rec'[p].level = rec[p].level, RowsComputed(p)'
    PROVE  Own(p)'
<1>1. UNCHANGED <<log_entries, tree_nodes, checkpoints, issued>> /\ TreeSize' = TreeSize
  BY DEF tables, TreeSize
<1>2. \A l : Behind(p, l)' <=> Behind(p, l)
  BY DEF Behind
<1>3. \A l \in 0..MaxLevel : LevelIs(tree_nodes', l, (Written(p, l))', AllHashes)
  BY <1>1, <1>2 DEF Own, Written
<1>4. SizesRead(p)'
  BY <1>1 DEF Own, SizesRead
<1>5. NullFirst'
  <2>1. TreeSize' >= 1
    BY <1>1, NotEmpty
  <2> QED BY <2>1, NullKept
<1>6. pc[p] \in Writing
  BY DEF Writing
<1> QED
  BY <1>1, <1>3, <1>4, <1>5, <1>6, RowsOwn

LEMMA ReadLeftOwn ==
    ASSUME IInv, NEW p \in Procs, Alone(p), Alone(p)', Own(p), ReadLeft(p, FALSE)
    PROVE  Own(p)'
<1> DEFINE k == rec[p].level
           j == rec[p].idx
           child == <<k - 1, 2 * j>>
           r == [rec[p] EXCEPT !.left = tree_nodes[child]]
<1>1. /\ p \in DOMAIN rec /\ DOMAIN rec[p] = {"level", "idx", "left", "nodes"}
      /\ pc[p] = "left" /\ UNCHANGED <<tables, batch, base>>
      /\ tree_nodes' = tree_nodes /\ log_entries' = log_entries
  BY DEF IInv, TypeOK, ReadLeft, tables
<1>2. child \in DOMAIN tree_nodes
  <2>1. /\ k \in 1..MaxLevel /\ j \in Nat /\ j * 2^k < TreeSize /\ TreeSize \in Nat /\ TreeSize > 1
        /\ LevelIs(tree_nodes, k - 1, TreeSize, AllHashes)
    BY <1>1, AtRow
  <2>2. k \in Nat \ {0}
    BY <2>1
  <2> HIDE DEF k, j
  <2> QED BY <2>1, <2>2, RowOfChildren
<1>3. rec' = [rec EXCEPT ![p] = r] /\ pc' = [pc EXCEPT ![p] = "right"]
  BY <1>1, <1>2 DEF ReadLeft, Goto
<1>4. r.level = k /\ r.idx = j /\ r.left = tree_nodes[child] /\ r.nodes = rec[p].nodes
  BY <1>1
<1>5. rec'[p] = r /\ pc'[p] = "right"
  BY <1>1, <1>3 DEF IInv, TypeOK
<1> HIDE DEF r
<1>6. /\ rec'[p].level = k /\ rec'[p].idx = j /\ rec'[p].left = tree_nodes'[child]
      /\ rec'[p].nodes = rec[p].nodes
  BY <1>1, <1>4, <1>5
<1>7. TreeSize' = TreeSize /\ AllHashes' = AllHashes /\ endIdx(p)' = endIdx(p)
  BY <1>1, <1>6 DEF TreeSize, AllHashes, Hashes, endIdx
<1>8. RowsComputed(p)
  BY DEF Own
<1>9. RowsComputed(p)'
  BY <1>1, <1>5, <1>6, <1>7, <1>8 DEF RowsComputed
<1> QED
  BY <1>1, <1>5, <1>6, <1>9, RowReadOwn

\* One row more.
LEMMA NextIdxOwn ==
    ASSUME IInv, NEW p \in Procs, Alone(p), Alone(p)', Own(p), pc[p] \in {"left", "right"},
           NEW row, DOMAIN row = {<<rec[p].level, rec[p].idx>>},
           row[<<rec[p].level, rec[p].idx>>] = RowHash(rec[p].level, rec[p].idx, TreeSize, AllHashes),
           NextIdx(p, Upsert(rec[p].nodes, row)), UNCHANGED <<tables, batch, base>>
    PROVE  Own(p)'
<1> DEFINE k == rec[p].level
           j == rec[p].idx
           s == Shift(base[p], k)
           rows == Upsert(rec[p].nodes, row)
<1>1. /\ k \in 1..MaxLevel /\ j \in Nat /\ s \in Nat /\ s <= j /\ j <= endIdx(p) /\ endIdx(p) \in Nat
      /\ DOMAIN rec[p].nodes = {k} \X (s..(j - 1))
      /\ \A i \in s..(j - 1) : rec[p].nodes[<<k, i>>] = RowHash(k, i, TreeSize, AllHashes)
  BY AtRow
<1>2. DOMAIN rows = {k} \X (s..j)
  <2> HIDE DEF k, j, s
  <2>1. {k} \X (s..j) = ({k} \X (s..(j - 1))) \cup {<<k, j>>}
    BY <1>1
  <2>2. DOMAIN row = {<<k, j>>}
    BY DEF k, j
  <2> QED BY <1>1, <2>1, <2>2 DEF Upsert
<1>3. ASSUME NEW i \in s..j PROVE rows[<<k, i>>] = RowHash(k, i, TreeSize, AllHashes)
  <2>1. <<k, i>> \in DOMAIN rows
    BY <1>2
  <2>2. CASE i = j
    BY <2>2 DEF Upsert
  <2>3. CASE i # j
    <3>1. i \in s..(j - 1)
      BY <1>1, <2>3
    <3>2. <<k, i>> \notin DOMAIN row
      BY <2>3
    <3>3. rows[<<k, i>>] = rec[p].nodes[<<k, i>>]
      BY <1>1, <2>1, <3>1, <3>2 DEF Upsert
    <3> QED BY <1>1, <3>1, <3>3
  <2> QED BY <2>2, <2>3
<1>4. p \in DOMAIN rec /\ DOMAIN rec[p] = {"level", "idx", "left", "nodes"} /\ p \in DOMAIN pc
  BY DEF IInv, TypeOK
<1>5. /\ tree_nodes' = tree_nodes /\ log_entries' = log_entries /\ base' = base /\ batch' = batch
      /\ TreeSize' = TreeSize /\ AllHashes' = AllHashes
  BY DEF tables, TreeSize, AllHashes, Hashes
<1> HIDE DEF rows
<1>6. CASE j < endIdx(p)
  <2> DEFINE r == [rec[p] EXCEPT !.idx = @ + 1, !.left = EmptyHash, !.nodes = rows]
  <2>1. rec' = [rec EXCEPT ![p] = r] /\ pc' = [pc EXCEPT ![p] = "left"]
    BY <1>4, <1>6 DEF NextIdx, Goto, rows
  <2>2. r.level = k /\ r.idx = j + 1 /\ r.nodes = rows
    BY <1>4
  <2> HIDE DEF r
  <2>3. rec'[p].level = k /\ rec'[p].idx = j + 1 /\ rec'[p].nodes = rows /\ pc'[p] = "left"
    BY <1>4, <2>1, <2>2
  <2>4. endIdx(p)' = endIdx(p) /\ (Shift(base[p], rec[p].level))' = s
    BY <1>5, <2>3 DEF endIdx
  <2> HIDE DEF k, j, s
  <2>5. (j + 1) - 1 = j /\ j + 1 \in s..endIdx(p)
    BY <1>1, <1>6
  <2>6. RowsComputed(p)'
    BY <1>2, <1>3, <1>5, <2>3, <2>4, <2>5 DEF RowsComputed
  <2> QED
    BY <2>3, <2>6, RowReadOwn DEF k
<1>7. CASE ~ (j < endIdx(p))
  <2> DEFINE r == [rec[p] EXCEPT !.left = EmptyHash, !.nodes = rows]
  <2>1. rec' = [rec EXCEPT ![p] = r] /\ pc' = [pc EXCEPT ![p] = "write"]
    BY <1>4, <1>7 DEF NextIdx, Goto, rows
  <2>2. r.level = k /\ r.idx = j /\ r.nodes = rows
    BY <1>4
  <2> HIDE DEF r
  <2>3. rec'[p].level = k /\ rec'[p].idx = j /\ rec'[p].nodes = rows /\ pc'[p] = "write"
    BY <1>4, <2>1, <2>2
  <2>4. endIdx(p)' = endIdx(p) /\ (Shift(base[p], rec[p].level))' = s
    BY <1>5, <2>3 DEF endIdx
  <2> HIDE DEF k, j, s
  <2>5. j \in s..endIdx(p) /\ j = endIdx(p)
    BY <1>1, <1>7
  <2>6. RowsComputed(p)'
    BY <1>2, <1>3, <1>5, <2>3, <2>4, <2>5 DEF RowsComputed
  <2> QED
    BY <2>3, <2>6, RowReadOwn DEF k
<1> QED
  BY <1>6, <1>7

LEMMA ReadRightOwn ==
    ASSUME IInv, NEW p \in Procs, Alone(p), Alone(p)', Own(p), ReadRight(p, FALSE)
    PROVE  Own(p)'
<1> DEFINE k == rec[p].level
           j == rec[p].idx
           child == <<k - 1, 2 * j + 1>>
           hash == IF child \in DOMAIN tree_nodes THEN InteriorHash(rec[p].left, tree_nodes[child]) ELSE rec[p].left
           row == [x \in {<<k, j>>} |-> hash]
<1>1. pc[p] = "right" /\ NextIdx(p, Upsert(rec[p].nodes, row)) /\ UNCHANGED <<tables, batch, base>>
  BY DEF ReadRight
<1>2. /\ k \in 1..MaxLevel /\ j \in Nat /\ j * 2^k < TreeSize /\ TreeSize \in Nat /\ TreeSize > 1
      /\ LevelIs(tree_nodes, k - 1, TreeSize, AllHashes) /\ k \in Nat \ {0}
  BY <1>1, AtRow
<1>3. rec[p].left = tree_nodes[<<k - 1, 2 * j>>]
  BY <1>1 DEF Own, RowsComputed
<1>4. hash = RowHash(k, j, TreeSize, AllHashes)
  <2>1. k \in Nat \ {0} /\ TreeSize \in Nat /\ TreeSize > 1 /\ j \in Nat /\ j * 2^k < TreeSize
    BY <1>2
  <2>2. LevelIs(tree_nodes, k - 1, TreeSize, AllHashes)
    BY <1>2
  <2> HIDE DEF k, j
  <2>3. JoinChildren(tree_nodes, k, j, tree_nodes[<<k - 1, 2 * j>>]) = RowHash(k, j, TreeSize, AllHashes)
    BY ONLY <2>1, <2>2, RowOfChildren
  <2> QED BY <1>3, <2>3 DEF JoinChildren
<1>5. DOMAIN row = {<<k, j>>} /\ row[<<k, j>>] = RowHash(k, j, TreeSize, AllHashes)
  <2> HIDE DEF hash
  <2> QED BY <1>4
<1> HIDE DEF row
<1> QED
  BY <1>1, <1>5, NextIdxOwn

-----------------------------------------------------------------------------
(* The invariant.                                                          *)

\* A step of goroutine p.
Moves(p) ==
    /\ \E to : pc' = [pc EXCEPT ![p] = to]
    /\ DOMAIN proof' = DOMAIN proof

LEMMA LogStepMoves ==
    ASSUME NEW p \in Procs, LogStep(p)
    PROVE  Moves(p)
<1>1. CASE ReadSize(p) \/ AppendEntries(p) \/ SetLeaves(p) \/ SetLevel(p)
  BY <1>1 DEF ReadSize, AppendEntries, SetLeaves, SetLevel, Moves, Goto
<1>2. CASE AppendConflict(p)
  BY <1>2 DEF AppendConflict, Moves, Goto, Return, Reset
<1>3. CASE ReadChild(p)
  BY <1>3, Zenon DEF ReadChild, ReadLeft, ReadRight, NextIdx, Moves, Goto
<1>4. CASE CheckpointSize(p) \/ CheckpointLeaves(p) \/ SaveCheckpoint(p)
  BY <1>4 DEF CheckpointSize, CheckpointLeaves, SaveCheckpoint, Moves, Goto, Return, Reset
<1>5. CASE CheckpointRoot(p)
  BY <1>5 DEF CheckpointRoot, Moves, Goto, Return, Reset
<1> QED
  BY <1>1, <1>2, <1>3, <1>4, <1>5 DEF LogStep

LEMMA LostReadMoves ==
    ASSUME NEW p \in Procs, LostRead(p) \/ Fault(p)
    PROVE  Moves(p)
<1>1. CASE LostRead(p)
  BY <1>1, Zenon DEF LostRead, ReadLeft, ReadRight, NextIdx, Moves, Goto
<1>2. CASE Fault(p)
  BY <1>2 DEF Fault, Moves, Goto, Return, Reset
<1> QED
  BY <1>1, <1>2

LEMMA WatcherMoves ==
    ASSUME Initialize \/ UpdateWatcherCursor \/ PollCertificates \/ CheckpointTick
    PROVE  Moves(Watcher)
<1>1. CASE InitializeSize \/ InitializeAppend \/ InitializeLeaf
  BY <1>1 DEF InitializeSize, InitializeAppend, InitializeLeaf, Moves, Goto
<1>2. CASE UpdateWatcherCursor
  BY <1>2 DEF UpdateWatcherCursor, Moves, Goto, Return, Reset
<1>3. CASE PollCertificates
  BY <1>3 DEF PollCertificates, Moves, Goto
<1>4. CASE CheckpointTick
  BY <1>4 DEF CheckpointTick, Moves, Goto
<1> QED
  BY <1>1, <1>2, <1>3, <1>4 DEF Initialize

LEMMA OrderMoves ==
    ASSUME NEW o \in Orders, StartFinalize(o) \/ BuildProof(o) \/ StoreCert(o)
    PROVE  Moves(o)
<1>1. CASE StartFinalize(o)
  BY <1>1 DEF StartFinalize, Moves, Goto
<1>2. CASE BuildProof(o)
  BY <1>2 DEF BuildProof, Moves, Goto
<1>3. CASE StoreCert(o)
  BY <1>3 DEF StoreCert, Moves, Goto, Return, Reset
<1> QED
  BY <1>1, <1>2, <1>3

\* A step in which no goroutine moves.
LEMMA NobodyMoves ==
    ASSUME SerialInv, UNCHANGED <<log_entries, tree_nodes, checkpoints, issued, locals, faults>>
    PROVE  SerialInv'
<1>1. /\ UNCHANGED <<log_entries, tree_nodes, checkpoints, issued>>
      /\ pc' = pc /\ batch' = batch /\ base' = base /\ rec' = rec /\ cp' = cp /\ proof' = proof /\ faults' = faults
      /\ TreeSize' = TreeSize /\ AllHashes' = AllHashes /\ \A n : Hashes(n)' = Hashes(n)
  BY DEF locals, TreeSize, AllHashes, Hashes
<1>2. OneWriter'
  BY <1>1 DEF SerialInv, OneWriter
<1>3. ASSUME CalmInv PROVE CalmInv'
  <2>1. \A q \in Procs, l \in 0..MaxLevel : Behind(q, l)' <=> Behind(q, l)
    BY <1>1 DEF Behind
  <2>2. LevelsUpToDate'
    BY <1>1, <1>3, <2>1 DEF CalmInv, LevelsUpToDate
  <2>3. \A q \in Procs : RowsComputed(q)'
    <3> SUFFICES ASSUME NEW q \in Procs PROVE RowsComputed(q)'
      OBVIOUS
    <3>1. RowsComputed(q) /\ endIdx(q)' = endIdx(q)
      BY <1>1, <1>3 DEF CalmInv, endIdx
    <3> QED BY <1>1, <3>1 DEF RowsComputed
  <2>4. \A q \in Procs : SizesRead(q)'
    BY <1>1, <1>3 DEF CalmInv, SizesRead
  <2>5. NullFirst'
    BY <1>1, <1>3 DEF CalmInv, NullFirst
  <2>6. CheckpointsRight'
    BY <1>1, <1>3 DEF CalmInv, CheckpointsRight, CheckpointRootIsMTH
  <2>7. TreeSize' < 2^(MaxLevel + 1) => ProofsRight'
    BY <1>1, <1>3 DEF CalmInv, ProofsRight, IssuedProofVerifies
  <2> QED
    BY <2>2, <2>3, <2>4, <2>5, <2>6, <2>7 DEF CalmInv
<1> QED
  BY <1>1, <1>2, <1>3 DEF SerialInv

\* A step of goroutine p keeps SerialInv if it keeps what p relies on.
LEMMA SerialMoves ==
    ASSUME IInv, SerialInv, Serialized, NEW p \in Procs, Moves(p), pc[p] \notin Quiet \/ pc' # pc,
           faults' = 0 => faults = 0 /\ (Alone(p) /\ Alone(p)' /\ Own(p) => Own(p)')
    PROVE  SerialInv'
<1>1. PICK to : pc' = [pc EXCEPT ![p] = to]
  BY DEF Moves
<1>2. pc[p] \notin Quiet \/ to # pc[p]
  BY <1>1 DEF IInv, TypeOK
<1>3. Alone(p) /\ Alone(p)' /\ OneWriter'
  BY <1>1, <1>2, StaysAlone DEF IInv, SerialInv
<1>4. DOMAIN proof' = Procs
  BY DEF Moves, SerialInv
<1>5. ASSUME faults' = 0 PROVE CalmInv'
  <2>1. CalmInv
    BY <1>5 DEF SerialInv
  <2>2. Own(p)
    BY <1>3, <2>1, OwnFromCalm
  <2>3. Own(p)'
    BY <1>3, <1>5, <2>2
  <2> QED
    BY <1>3, <2>3, CalmFromOwn
<1> QED
  BY <1>3, <1>4, <1>5 DEF SerialInv

LEMMA LogStepSerial ==
    ASSUME IInv, IInv', SerialInv, Serialized, NEW p \in Procs, LogStep(p)
    PROVE  SerialInv'
<1>1. Moves(p)
  BY LogStepMoves
<1>2. pc[p] \notin Quiet
  BY DEF LogStep, ReadSize, AppendEntries, AppendConflict, SetLeaves, ReadChild, ReadLeft, ReadRight,
         SetLevel, CheckpointSize, CheckpointRoot, CheckpointLeaves, SaveCheckpoint, Quiet
<1>3. faults' = 0 => faults = 0
  <2>1. faults \in Nat
    BY BoundsAssumption DEF IInv, TypeOK
  <2>2. faults' = faults \/ faults' = faults + 1
    BY Zenon DEF LogStep, ReadSize, AppendEntries, AppendConflict, SetLeaves, ReadChild,
         SetLevel, CheckpointSize, CheckpointRoot, CheckpointLeaves, SaveCheckpoint
  <2> QED BY <2>1, <2>2
<1>4. ASSUME faults' = 0, Alone(p), Alone(p)', Own(p) PROVE Own(p)'
  <2>1. CASE AppendConflict(p)
    BY <1>4, <2>1, ErrorOwn DEF AppendConflict
  <2>2. CASE ReadChild(p)
    BY <1>4, <2>2, ReadLeftOwn, ReadRightOwn DEF ReadChild
  <2> QED
    BY <1>4, <2>1, <2>2, ReadSizeOwn, AppendEntriesOwn, SetLeavesOwn, SetLevelOwn, CheckpointSizeOwn,
       CheckpointRootOwn, CheckpointLeavesOwn, SaveCheckpointOwn DEF LogStep
<1> QED
  BY <1>1, <1>2, <1>3, <1>4, SerialMoves

LEMMA WatcherSerial ==
    ASSUME IInv, IInv', SerialInv, Serialized,
           Initialize \/ UpdateWatcherCursor \/ PollCertificates \/ CheckpointTick
    PROVE  SerialInv'
<1>0. Watcher \in Procs
  BY DEF Procs
<1>1. Moves(Watcher)
  BY WatcherMoves
<1>2. faults' = 0 => faults = 0
  <2>1. faults \in Nat
    BY BoundsAssumption DEF IInv, TypeOK
  <2>2. faults' = faults \/ faults' = faults + 1
    BY Zenon DEF Initialize, InitializeSize, InitializeAppend, InitializeLeaf, UpdateWatcherCursor,
         PollCertificates, CheckpointTick
  <2> QED BY <2>1, <2>2
<1>3. ASSUME Alone(Watcher), Alone(Watcher)', Own(Watcher) PROVE Own(Watcher)'
  BY <1>3, InitializeSizeOwn, InitializeAppendOwn, InitializeLeafOwn, UpdateCursorOwn, PollOwn,
     CheckpointTickOwn DEF Initialize
<1>4. CASE pc[Watcher] \notin Quiet \/ pc' # pc
  BY <1>0, <1>1, <1>2, <1>3, <1>4, SerialMoves
<1>5. CASE pc[Watcher] \in Quiet /\ pc' = pc
  <2>1. PollCertificates
    BY <1>0, <1>5 DEF Initialize, InitializeSize, InitializeAppend, InitializeLeaf, UpdateWatcherCursor,
       CheckpointTick, Quiet, Goto, IInv, TypeOK
  <2>2. UNCHANGED <<log_entries, tree_nodes, checkpoints, issued, base, rec, cp, proof>>
    BY <2>1 DEF PollCertificates, tables
  <2>3. batch' = batch
    <3>1. pc[Watcher] # "size" /\ pc' # [pc EXCEPT ![Watcher] = "size"]
      BY <1>0, <1>5 DEF Quiet, IInv, TypeOK
    <3> QED BY <2>1, <3>1 DEF PollCertificates, Goto
  <2>4. CASE faults' = faults
    <3>1. UNCHANGED <<log_entries, tree_nodes, checkpoints, issued, locals, faults>>
      BY <1>5, <2>2, <2>3, <2>4 DEF locals
    <3> QED BY <3>1, NobodyMoves
  <2>5. CASE faults' # faults
    <3>1. faults' # 0
      <4>1. faults \in Nat /\ faults' = faults + 1
        BY <2>1, <2>5, BoundsAssumption DEF PollCertificates, IInv, TypeOK
      <4> QED BY <4>1
    <3>2. OneWriter' /\ DOMAIN proof' = Procs
      BY <1>5, <2>2 DEF SerialInv, OneWriter
    <3> QED BY <3>1, <3>2 DEF SerialInv
  <2> QED BY <2>4, <2>5
<1> QED
  BY <1>4, <1>5

LEMMA OrderSerial ==
    ASSUME IInv, SerialInv, Serialized, NEW o \in Orders, StartFinalize(o) \/ BuildProof(o) \/ StoreCert(o)
    PROVE  SerialInv'
<1>0. o \in Procs
  BY DEF Procs
<1>1. Moves(o)
  BY OrderMoves
<1>2. pc[o] \notin Quiet \/ pc' # pc
  BY <1>0 DEF StartFinalize, BuildProof, StoreCert, Quiet, Goto, IInv, TypeOK
<1>3. faults' = 0 => faults = 0
  <2>1. faults \in Nat
    BY BoundsAssumption DEF IInv, TypeOK
  <2>2. CASE BuildProof(o)
    <3>1. PICK lost \in Unread : faults' = faults + Cardinality(lost)
      BY <2>2 DEF BuildProof
    <3>2. Cardinality(lost) \in Nat
      <4>1. CASE lost = {}
        BY <4>1, FS_EmptySet
      <4>2. ASSUME NEW x, lost = {x} PROVE Cardinality(lost) \in Nat
        <5>1. Cardinality({x}) = 1
          BY FS_Singleton
        <5> QED BY <4>2, <5>1
      <4> QED BY <4>1, <4>2 DEF Unread
    <3> QED BY <2>1, <3>1, <3>2
  <2>3. CASE StartFinalize(o) \/ StoreCert(o)
    BY <2>3 DEF StartFinalize, StoreCert
  <2> QED BY <2>2, <2>3
<1>4. ASSUME faults' = 0, Alone(o), Alone(o)', Own(o) PROVE Own(o)'
  <2>1. DOMAIN proof = Procs /\ faults = 0
    BY <1>3, <1>4 DEF SerialInv
  <2> QED BY <1>4, <2>1, StartFinalizeOwn, BuildProofOwn, StoreCertOwn
<1> QED
  BY <1>0, <1>1, <1>2, <1>3, <1>4, SerialMoves

\* What fails ends the calm; a crash leaves the watcher alone.
LEMMA FailureSerial ==
    ASSUME IInv, SerialInv, Serialized, Crash \/ \E p \in Procs : LostRead(p) \/ Fault(p)
    PROVE  SerialInv'
<1>1. faults' # 0
  <2>1. faults \in Nat
    BY BoundsAssumption DEF IInv, TypeOK
  <2>2. faults' = faults + 1
    BY Zenon DEF Crash, LostRead, Fault
  <2> QED BY <2>1, <2>2
<1>2. CASE Crash
  <2>1. \A p \in Procs : pc'[p] \notin Quiet => p = Watcher
    BY <1>2 DEF Crash, Quiet
  <2>2. OneWriter' /\ DOMAIN proof' = Procs
    BY <1>2, <2>1 DEF OneWriter, Crash
  <2> QED BY <1>1, <2>2 DEF SerialInv
<1>3. ASSUME NEW p \in Procs, LostRead(p) \/ Fault(p) PROVE SerialInv'
  <2>1. Moves(p)
    BY <1>3, LostReadMoves
  <2>2. pc[p] \notin Quiet \/ pc' # pc
    <3>1. CASE LostRead(p)
      BY <3>1 DEF LostRead, ReadLeft, ReadRight, Quiet
    <3>2. CASE Fault(p)
      BY <3>2 DEF Fault, Return, Goto, OnError, Quiet, IInv, TypeOK
    <3> QED BY <1>3, <3>1, <3>2
  <2> QED BY <1>1, <2>1, <2>2, SerialMoves
<1> QED
  BY <1>2, <1>3

LEMMA NextSerial == IInv /\ SerialInv /\ [Next /\ Serialized]_vars => SerialInv'
<1> SUFFICES ASSUME IInv, SerialInv, [Next /\ Serialized]_vars PROVE SerialInv'
  OBVIOUS
<1>0. IInv'
  BY NextIInv
<1>1. CASE UNCHANGED vars
  <2>1. UNCHANGED <<log_entries, tree_nodes, checkpoints, issued, locals, faults>>
    BY <1>1 DEF vars, locals
  <2> QED BY <2>1, NobodyMoves
<1>2. CASE CAIssue
  <2>1. UNCHANGED <<log_entries, tree_nodes, checkpoints, issued, locals, faults>>
    BY <1>2 DEF CAIssue, tables
  <2> QED BY <2>1, NobodyMoves
<1>3. ASSUME Serialized, WatcherStep \/ PollCertificates \/ CheckpointTick PROVE SerialInv'
  BY <1>0, <1>3, WatcherSerial, LogStepSerial DEF WatcherStep, Procs
<1>4. ASSUME Serialized, NEW o \in Orders, StartFinalize(o) \/ OrderStep(o) PROVE SerialInv'
  BY <1>0, <1>4, OrderSerial, LogStepSerial DEF OrderStep, Procs
<1>5. ASSUME Serialized, Crash \/ \E p \in Procs : LostRead(p) \/ Fault(p) PROVE SerialInv'
  BY <1>5, FailureSerial
<1> QED
  BY <1>1, <1>2, <1>3, <1>4, <1>5 DEF Next

-----------------------------------------------------------------------------
(* What is served of the log.                                              *)

\* There is a goroutine that no other one disturbs.
LEMMA SomeoneAlone ==
    ASSUME OneWriter
    PROVE  \E p \in Procs : Alone(p)
<1>1. CASE \E p \in Procs : pc[p] \notin Quiet
  <2>1. PICK p \in Procs : pc[p] \notin Quiet
    BY <1>1
  <2>2. Alone(p)
    BY <2>1 DEF OneWriter, Alone
  <2> QED BY <2>2
<1>2. CASE \A p \in Procs : pc[p] \in Quiet
  BY <1>2 DEF Alone, Procs
<1> QED
  BY <1>1, <1>2

\* A saved checkpoint is of a tree whose rows are stored, and its root is right.
LEMMA SavedRows ==
    ASSUME IInv, SerialInv, faults = 0, TreeSize < 2^(MaxLevel + 1), NEW c \in Saved
    PROVE  /\ c.tree_size \in Nat \ {0} /\ c.tree_size <= TreeSize /\ TreeSize \in Nat
           /\ RowsHold(tree_nodes, AllHashes, c.tree_size)
           /\ c.root_hash = MTH(c.tree_size, AllHashes) /\ RootRight(c)
<1>1. PICK i \in 1..Len(checkpoints) : c = checkpoints[i]
  BY DEF Saved
<1>2. PICK p \in Procs : Alone(p)
  BY SomeoneAlone DEF SerialInv
<1>3. Own(p)
  BY <1>2, OwnFromCalm DEF SerialInv
<1>4. c.tree_size \in Nat \ {0} /\ TreeSize \in Nat
  BY <1>1 DEF IInv, TypeOK, TableInv, LogShape
<1>5. c.tree_size <= TreeSize /\ RootRight(c) /\ (pc[p] \in Writing => c.tree_size <= base[p])
  BY <1>1, <1>3 DEF Own
<1>6. RowsHold(tree_nodes, AllHashes, c.tree_size)
  BY <1>3, <1>4, <1>5, StoredRows
<1>7. MTH(c.tree_size, AllHashes) = MTH(c.tree_size, Hashes(c.tree_size))
  BY <1>4, <1>5, PrefixHash
<1> QED
  BY <1>4, <1>5, <1>6, <1>7 DEF RootRight

\* The rows of the first n entries hash those entries alone.
LEMMA RowsOfPrefix ==
    ASSUME NEW nodes, NEW n \in Nat, n <= TreeSize, TreeSize \in Nat, RowsHold(nodes, AllHashes, n)
    PROVE  RowsHold(nodes, Hashes(n), n)
<1> SUFFICES ASSUME NEW l \in Nat, NEW j \in Nat, (j + 1) * 2^l <= n
             PROVE  nodeAt(nodes, l, j) = computeSubtreeHash(j * 2^l, (j + 1) * 2^l, Hashes(n))
  BY DEF RowsHold
<1> DEFINE s == j * 2^l
           e == (j + 1) * 2^l
<1>1. nodeAt(nodes, l, j) = computeSubtreeHash(s, e, AllHashes)
  BY DEF RowsHold
<1>2. s \in Nat /\ e \in Nat /\ s < e /\ e <= n
  BY RowStarts
<1> HIDE DEF s, e
<1>3. \A i \in s..(e - 1) : AllHashes[i] = Hashes(n)[i]
  BY <1>2 DEF AllHashes, Hashes
<1>4. computeSubtreeHash(s, e, AllHashes) = computeSubtreeHash(s, e, Hashes(n))
  BY ONLY <1>2, <1>3, HashOfLeaves
<1> QED
  BY <1>1, <1>4 DEF s, e

LEMMA InclusionServed ==
    ASSUME IInv, SerialInv, faults = 0, TreeSize < 2^(MaxLevel + 1)
    PROVE  InclusionProofsVerify
<1> SUFFICES ASSUME NEW c \in Saved, NEW i \in 0..(c.tree_size - 1)
             PROVE  LET r == handleInclusionProof(i, c)
                    IN  /\ RootFromInclusionProof(i, c.tree_size, r.leaf_hash, r.proof) = r.root_hash
                        /\ r.proof = InclusionProof(i, c.tree_size, Hashes(c.tree_size))
  BY DEF InclusionProofsVerify
<1> DEFINE n == c.tree_size
           proofOf == InclusionProofFromNodes(i, n, tree_nodes)
           leaf == LeafHash(log_entries[i].entry_data)
<1>1. /\ n \in Nat \ {0} /\ n <= TreeSize /\ TreeSize \in Nat /\ RowsHold(tree_nodes, AllHashes, n) /\ RootRight(c)
  BY SavedRows
<1>2. RowsHold(tree_nodes, Hashes(n), n)
  BY <1>1, RowsOfPrefix
<1>3. n \in 1..n /\ i \in 0..(n - 1) /\ n \in Nat
  BY <1>1
<1>4. c.root_hash = MTH(n, Hashes(n))
  BY <1>1 DEF RootRight
<1> HIDE DEF n
<1>5. proofOf = InclusionProof(i, n, Hashes(n))
  BY ONLY <1>2, <1>3, ProofFromRows
<1>6. RootFromInclusionProof(i, n, leaf, proofOf) = MTH(n, Hashes(n))
  BY <1>1, <1>3, BuiltProofVerifies
<1> QED
  BY <1>4, <1>5, <1>6 DEF handleInclusionProof, n

LEMMA ConsistencyServed ==
    ASSUME IInv, SerialInv, faults = 0, TreeSize < 2^(MaxLevel + 1)
    PROVE  ConsistencyProofsVerify
<1> SUFFICES ASSUME NEW c \in Saved, NEW d \in Saved, c.tree_size <= d.tree_size
             PROVE  LET r == handleConsistencyProof(c.tree_size, d.tree_size)
                    IN  /\ VerifyConsistency(c.tree_size, d.tree_size, r.proof, c.root_hash, d.root_hash)
                        /\ r.old_root = c.root_hash /\ r.new_root = d.root_hash
  BY DEF ConsistencyProofsVerify
<1> DEFINE old == c.tree_size
           new == d.tree_size
<1>1. /\ old \in Nat \ {0} /\ new \in Nat \ {0} /\ RowsHold(tree_nodes, AllHashes, new)
      /\ c.root_hash = MTH(old, AllHashes) /\ d.root_hash = MTH(new, AllHashes)
  BY SavedRows
<1>2. new \in Nat /\ new \in 0..new /\ old \in 0..new
  BY <1>1
<1> HIDE DEF old, new
<1>3. VerifyConsistency(old, new, ConsistencyProofFromNodes(old, new, tree_nodes),
                        MTH(old, AllHashes), MTH(new, AllHashes))
  BY ONLY <1>1, <1>2, ConsistencyProofVerifies
<1>4. RootFromNodes(old, tree_nodes) = MTH(old, AllHashes) /\ RootFromNodes(new, tree_nodes) = MTH(new, AllHashes)
  BY ONLY <1>1, <1>2, RootFromRows
<1> QED
  BY <1>1, <1>3, <1>4 DEF handleConsistencyProof, old, new

-----------------------------------------------------------------------------
(* The theorems.                                                           *)

LEMMA InitSerial == Init => SerialInv
<1> SUFFICES ASSUME Init PROVE SerialInv
  OBVIOUS
<1>1. Watcher \in Procs /\ DOMAIN log_entries = {} /\ DOMAIN tree_nodes = {} /\ DOMAIN issued = {}
      /\ checkpoints = <<>> /\ DOMAIN proof = Procs
  BY DEF Init, Procs
<1>2. TreeSize = 0
  BY <1>1 DEF TreeSize, sizeOf
<1>3. \A p \in Procs : pc[p] = IF p = Watcher THEN "init_size" ELSE "start"
  BY DEF Init
<1>4. OneWriter /\ Alone(Watcher)
  BY <1>3 DEF OneWriter, Alone, Quiet
<1>5. \A p \in Procs, l \in 0..MaxLevel : ~Behind(p, l)
  BY <1>3 DEF Behind
<1>6. LevelsUpToDate
  BY <1>1, <1>2, <1>5 DEF LevelsUpToDate, LevelIs
<1>7. \A p \in Procs : RowsComputed(p) /\ SizesRead(p)
  BY <1>3 DEF RowsComputed, SizesRead
<1>8. NullFirst
  BY <1>1, <1>3 DEF NullFirst, Init
<1>9. CheckpointsRight
  <2>1. Len(checkpoints) = 0
    BY <1>1
  <2> QED BY <1>3, <2>1 DEF CheckpointsRight, CheckpointRootIsMTH
<1>10. ProofsRight
  BY <1>1, <1>3, ProcsAssumption DEF ProofsRight, IssuedProofVerifies, Procs
<1> QED
  BY <1>1, <1>4, <1>6, <1>7, <1>8, <1>9, <1>10 DEF SerialInv, CalmInv

\* While the writers take turns and nothing has failed, the rows that
\* recomputeInterior has written are those of the whole log, and the ones it has
\* not reached yet those of the log before the batch.
THEOREM SerialInductive == SerialSpec => [](IInv /\ SerialInv)
<1>1. Init => IInv /\ SerialInv
  BY InitIInv, InitSerial
<1>2. IInv /\ SerialInv /\ [Next /\ Serialized]_vars => (IInv /\ SerialInv)'
  <2>1. [Next /\ Serialized]_vars => [Next]_vars
    OBVIOUS
  <2> QED BY <2>1, NextIInv, NextSerial
<1> QED
  BY <1>1, <1>2, PTL DEF SerialSpec

\* Every checkpoint that CreateCheckpoint has saved has the Merkle tree hash of
\* its entries for its root, whatever the size of the log, as long as writes are
\* serialized and no read is lost.
THEOREM SerialCheckpointRoots == SerialSpec => [](faults = 0 => CheckpointRootIsMTH)
<1>1. SerialInv => (faults = 0 => CheckpointRootIsMTH)
  BY DEF SerialInv, CalmInv, CheckpointsRight
<1> QED
  BY <1>1, SerialInductive, PTL

\* The proof in a certificate that a finalization stored leads from the entry of
\* its own order to the root of the checkpoint it names.
THEOREM SerialIssuedProofs ==
    SerialSpec => []((faults = 0 /\ TreeSize < 2^(MaxLevel + 1)) => IssuedProofVerifies)
<1>1. SerialInv => ((faults = 0 /\ TreeSize < 2^(MaxLevel + 1)) => IssuedProofVerifies)
  BY DEF SerialInv, CalmInv, ProofsRight
<1> QED
  BY <1>1, SerialInductive, PTL

\* handleInclusionProof serves a proof that leads to the signed root, for every
\* entry of every saved checkpoint and also while recomputeInterior is between two
\* levels, as long as the log fits the levels that tree_nodes has.
THEOREM SerialInclusionProofs ==
    SerialSpec => []((faults = 0 /\ TreeSize < 2^(MaxLevel + 1)) => InclusionProofsVerify)
<1>1. (IInv /\ SerialInv) => ((faults = 0 /\ TreeSize < 2^(MaxLevel + 1)) => InclusionProofsVerify)
  BY InclusionServed
<1> QED
  BY <1>1, SerialInductive, PTL

\* handleConsistencyProof serves, for any two saved checkpoints, their roots and a
\* proof that VerifyConsistency accepts for them.
THEOREM SerialConsistencyProofs ==
    SerialSpec => []((faults = 0 /\ TreeSize < 2^(MaxLevel + 1)) => ConsistencyProofsVerify)
<1>1. (IInv /\ SerialInv) => ((faults = 0 /\ TreeSize < 2^(MaxLevel + 1)) => ConsistencyProofsVerify)
  BY ConsistencyServed
<1> QED
  BY <1>1, SerialInductive, PTL

-----------------------------------------------------------------------------
(* The verifiers of the clients.                                           *)

\* The clients split a tree where the log does.
LEMMA ClientSplit ==
    ASSUME NEW n \in Nat, n > 1
    PROVE  consistencySplitPoint(n) = splitPoint(n)
<1> DEFINE Half(k) == IsPowerOfTwo(k) /\ k < n /\ 2 * k >= n
           s == splitPoint(n)
<1>1. s \in 1..(n - 1) /\ n <= 2 * s /\ IsPowerOfTwo(s)
  <2>1. s \in 1..(n - 1) /\ n <= 2 * s
    BY SplitPointIs
  <2>2. PICK i \in Nat : s = 2^i
    BY SplitPointIs
  <2>3. IsPowerOfTwo(s)
    BY <2>2, Log2Is
  <2> QED BY <2>1, <2>3
<1>2. s \in 1..n /\ Half(s)
  <2> HIDE DEF s
  <2> QED BY <1>1
<1>3. ASSUME NEW k \in 1..n, Half(k) PROVE k = s
  <2>1. PICK i \in Nat : k = 2^i
    BY <1>3 DEF IsPowerOfTwo
  <2>2. 2^i < n /\ n <= 2 * 2^i
    BY <1>3, <2>1
  <2> QED BY <2>1, <2>2, SplitPointUnique
<1>4. consistencySplitPoint(n) = CHOOSE k \in 1..n : Half(k)
  BY DEF consistencySplitPoint
<1> HIDE DEF Half, s
<1>5. consistencySplitPoint(n) = s
  BY <1>2, <1>3, <1>4, Zenon
<1> QED BY <1>5 DEF s

\* That of a range is its middle.
LEMMA ClientMid ==
    ASSUME NEW r \in Ranges, Size(r) # 1
    PROVE  r[1] + consistencySplitPoint(r[2] - r[1]) = mid(r)
<1>1. r[2] - r[1] \in Nat /\ r[2] - r[1] > 1
  BY Parts DEF Size
<1> QED BY <1>1, ClientSplit DEF mid

\* The walk by parity is VerifyInclusion's.
LEMMA WalkByParityIs ==
    ASSUME NEW leafHash, NEW index, NEW path, NEW size, NEW root
    PROVE  VerifyInclusion(leafHash, index, size, path, root)
               => walkByParity(leafHash, index, path) = root
  BY Zenon DEF VerifyInclusion, walkByParity

\* The sides of the drawing are those of the walk by parity.
LEMMA FollowSidesIs ==
    ASSUME NEW leafHash, NEW index, NEW view, Len(view.proofPath) \in Nat,
           \A i \in 1..Len(view.proofPath) :
               view.proofSides[i] = IF Shift(index, i - 1) % 2 = 0 THEN "right" ELSE "left"
    PROVE  \E w : /\ WalksUp(w, index, leafHash, view.proofPath)
                  /\ followSides(leafHash, view) = w[Len(view.proofPath)]
<1> DEFINE path == view.proofPath
           Up(f, i) == IF view.proofSides[i] = "right" THEN InteriorHash(f[i - 1], path[i])
                                                       ELSE InteriorHash(path[i], f[i - 1])
           h == CHOOSE h : h = [i \in 0..Len(path) |-> IF i = 0 THEN leafHash ELSE Up(h, i)]
           op == [i \in 1..Len(path) |->
                     [how |-> IF view.proofSides[i] = "right" THEN "left" ELSE "right", arg |-> path[i]]]
<1>1. PICK f : ChainOf(f, Len(path), leafHash, op)
  <2> HIDE DEF op
  <2> QED BY ChainExists
<1>2. ASSUME NEW i \in 0..Len(path), i # 0
      PROVE  ChainStep(op[i], f[i - 1]) = Up(f, i)
  BY <1>2 DEF ChainStep
<1> HIDE DEF op
<1>3. f = [i \in 0..Len(path) |-> IF i = 0 THEN leafHash ELSE Up(f, i)]
  <2> HIDE DEF Up
  <2> QED BY <1>1, <1>2 DEF ChainOf
<1>4. h = [i \in 0..Len(path) |-> IF i = 0 THEN leafHash ELSE Up(h, i)]
  <2> HIDE DEF Up
  <2> QED BY <1>3, Zenon
<1>5. followSides(leafHash, view) = h[Len(path)]
  BY Zenon DEF followSides
<1> HIDE DEF h
<1>6. h[0] = leafHash
  <2> HIDE DEF Up
  <2> QED BY <1>4
<1>7. ASSUME NEW i \in 1..Len(path) PROVE h[i] = Up(h, i)
  <2> HIDE DEF Up
  <2> QED BY <1>4
<1>8. ASSUME NEW i \in 1..Len(path)
      PROVE  h[i] = IF Shift(index, i - 1) % 2 = 0 THEN InteriorHash(h[i - 1], path[i])
                                                   ELSE InteriorHash(path[i], h[i - 1])
  <2>1. view.proofSides[i] = "right" <=> Shift(index, i - 1) % 2 = 0
    OBVIOUS
  <2> QED BY <1>7, <2>1, Zenon
<1>9. WalksUp(h, index, leafHash, view.proofPath)
  BY <1>6, <1>8, Zenon DEF WalksUp
<1> QED
  BY <1>5, <1>9

\* The suite's verifier of consistency proofs.
LEMMA ClientVerifyIs ==
    ASSUME NEW old \in Nat \ {0}, NEW path, NEW oldRoot
    PROVE  \E g : /\ \A new : verifyConsistencyRec(old, new, oldRoot, path) = g[<<0, new>>]
                  /\ VerifiedFrom(g, old, path, oldRoot)
<1> DEFINE Base(r) == IF r[1] = 0 THEN [old |-> oldRoot, new |-> oldRoot, ok |-> TRUE, used |-> 0]
                      ELSE IF Len(path) = 0 THEN Failed
                      ELSE [old |-> path[1], new |-> path[1], ok |-> TRUE, used |-> 1]
           at == [r \in Ranges |-> Base(r)]
           op == [r \in Ranges |-> [how |-> "verify", left |-> old - 1 < mid(r), arg |-> path]]
           k(r) == r[1] + consistencySplitPoint(r[2] - r[1])
           Part(f, r) == IF old <= k(r) THEN f[<<r[1], k(r)>>] ELSE f[<<k(r), r[2]>>]
           Body(f, r) == IF r[2] = old THEN Base(r) ELSE VerifyStep(path, old <= k(r), Part(f, r))
           h == CHOOSE h : h = [r \in Spanning(old) |-> Body(h, r)]
<1>1. \A r \in Ranges : op[r].left = (old - 1 < mid(r))
  OBVIOUS
<1>2. PICK f : SpanningRecursive(f, old, at, op)
  <2> HIDE DEF at, op
  <2> QED BY <1>1, SpanningRecursion
<1>3. ASSUME NEW r \in Spanning(old), r[2] # old
      PROVE  /\ k(r) = mid(r) /\ (old - 1 < mid(r) <=> old <= mid(r))
             /\ \A g : Part(g, r) = g[partOf(old - 1, r)]
  <2>1. r \in Ranges /\ Size(r) # 1 /\ mid(r) \in Nat
    BY <1>3, SpanningParts
  <2>2. k(r) = mid(r)
    BY <2>1, ClientMid
  <2>3. old - 1 < mid(r) <=> old <= mid(r)
    BY <2>1
  <2> HIDE DEF k
  <2> QED BY <2>2, <2>3 DEF partOf
<1>4. ASSUME NEW r \in Spanning(old) PROVE f[r] = Body(f, r)
  <2>1. r \in Ranges
    BY DEF Spanning
  <2>2. CASE r[2] = old
    <3> HIDE DEF Base
    <3> QED BY <1>2, <2>1, <2>2 DEF SpanningRecursive
  <2>3. CASE r[2] # old
    <3>1. PICK other : f[r] = Combine(op[r], IF op[r].left THEN f[partOf(old - 1, r)] ELSE other,
                                             IF op[r].left THEN other ELSE f[partOf(old - 1, r)])
      BY <1>2, <2>3 DEF SpanningRecursive
    <3>2. f[r] = VerifyStep(path, old - 1 < mid(r), f[partOf(old - 1, r)])
      <4> HIDE DEF Body, Base
      <4> QED BY <3>1, <2>1 DEF Combine
    <3> HIDE DEF Base, k, Part
    <3>3. f[r] = VerifyStep(path, old <= k(r), Part(f, r))
      BY <1>3, <2>3, <3>2, Zenon DEF VerifyStep
    <3> QED
      BY <2>3, <3>3
  <2> QED BY <2>2, <2>3
<1>5. f = [r \in Spanning(old) |-> Body(f, r)]
  <2> HIDE DEF Body
  <2> QED BY <1>2, <1>4 DEF SpanningRecursive
<1>6. h = [r \in Spanning(old) |-> Body(h, r)]
  <2> HIDE DEF Body, at, op
  <2> QED BY <1>5, Zenon
<1>7. \A new : verifyConsistencyRec(old, new, oldRoot, path) = h[<<0, new>>]
  BY Zenon DEF verifyConsistencyRec, VerifyStep, Failed
<1> HIDE DEF h
<1>8. \A r \in Spanning(old) : h[r] = Body(h, r)
  <2> HIDE DEF Body
  <2> QED BY <1>6
<1>9. ASSUME NEW r \in Spanning(old), r[2] # old
      PROVE  h[r] = VerifyStep(path, old <= mid(r), h[partOf(old - 1, r)])
  <2>1. h[r] = VerifyStep(path, old <= k(r), Part(h, r))
    BY <1>8, <1>9, Zenon
  <2> HIDE DEF k, Part
  <2> QED BY <1>3, <1>9, <2>1, Zenon
<1>10. ASSUME NEW r \in Spanning(old), r[2] = old PROVE h[r] = Base(r)
  <2> HIDE DEF Base, Part
  <2> QED BY <1>8, <1>10, Zenon
<1>11. VerifiedFrom(h, old, path, oldRoot)
  BY <1>9, <1>10, Zenon DEF VerifiedFrom
<1> QED
  BY <1>7, <1>11, Zenon

\* The suite's verifier accepts the proof that is served with the tree hashes, and
\* with no other new root.
LEMMA ClientConsistency ==
    ASSUME NEW hashAt, NEW nodes, NEW n \in Nat, RowsHold(nodes, hashAt, n),
           NEW new \in 0..n, NEW old \in 0..new, old # 0, NEW newRoot
    PROVE  verifyConsistencyProof(old, new, ConsistencyProofFromNodes(old, new, nodes),
                                  MTH(old, hashAt), newRoot) <=> newRoot = MTH(new, hashAt)
<1>1. CASE old = new
  <2>1. ConsistencyProofFromNodes(old, new, nodes) = <<>>
    BY <1>1 DEF ConsistencyProofFromNodes
  <2> QED BY <1>1, <2>1, Zenon DEF verifyConsistencyProof
<1>2. CASE old # new
  <2>1. old \in Nat \ {0} /\ old < new /\ new \in 0..n /\ old # 0 /\ n \in Nat
    BY <1>2
  <2>2. PICK p : /\ \A m : ConsistencyProofFromNodes(old, m, nodes) = IF old = m THEN <<>> ELSE p[<<0, m>>]
                 /\ ConsistencyProofsOf(p, old, NodeHashes(nodes))
    BY <2>1, ConsistencyProofIs
  <2> DEFINE full == p[<<0, new>>]
             oldRoot == MTH(old, hashAt)
             top == verifyConsistencyRec(old, new, oldRoot, full)
  <2>3. ConsistencyProofFromNodes(old, new, nodes) = full
    BY <1>2, <2>2
  <2>4. PICK g : /\ \A m : verifyConsistencyRec(old, m, oldRoot, full) = g[<<0, m>>]
                 /\ VerifiedFrom(g, old, full, oldRoot)
    <3> HIDE DEF full, oldRoot
    <3> QED BY <2>1, ClientVerifyIs
  <2>5. /\ g[<<0, new>>] = [old |-> MTH(old, hashAt), new |-> MTH(new, hashAt), ok |-> TRUE, used |-> Len(full)]
        /\ full # <<>>
    <3>1. /\ n \in Nat /\ RowsHold(nodes, hashAt, n) /\ old \in Nat \ {0} /\ new \in 0..n /\ old < new
          /\ ConsistencyProofsOf(p, old, NodeHashes(nodes))
          /\ VerifiedFrom(g, old, p[<<0, new>>], MTH(old, hashAt))
      BY <2>1, <2>2, <2>4
    <3> QED BY ONLY <3>1, ConsistencyProofLeads
  <2> HIDE DEF full, oldRoot
  <2>6. verifyConsistencyProof(old, new, full, oldRoot, newRoot) <=>
            /\ full # <<>> /\ top.ok /\ top.used = Len(full) /\ top.old = oldRoot /\ top.new = newRoot
    BY <1>2, <2>1, Zenon DEF verifyConsistencyProof
  <2>7. top = [old |-> oldRoot, new |-> MTH(new, hashAt), ok |-> TRUE, used |-> Len(full)]
    BY <2>4, <2>5 DEF oldRoot
  <2> HIDE DEF top
  <2>8. top.ok /\ top.used = Len(full) /\ top.old = oldRoot /\ top.new = MTH(new, hashAt)
    BY <2>7
  <2>9. verifyConsistencyProof(old, new, full, oldRoot, newRoot) <=> newRoot = MTH(new, hashAt)
    BY <2>5, <2>6, <2>8, Zenon
  <2> QED
    BY <2>3, <2>9 DEF oldRoot
<1> QED
  BY <1>1, <1>2

\* walkProofRecursive.
WalksDown(g, index, leafHash, path) ==
    \A r \in Ranges :
        /\ Size(r) = 1 => g[r] = <<leafHash, 0>>
        /\ Size(r) # 1 =>
              LET below == g[partOf(index, r)]
                  h     == path[below[2] + 1]
              IN  g[r] = <<IF index < mid(r) THEN InteriorHash(below[1], h) ELSE InteriorHash(h, below[1]),
                           below[2] + 1>>

\* It is one, by recursion over ranges.
LEMMA WalkRecursiveIs ==
    ASSUME NEW index, NEW leafHash, NEW path
    PROVE  \E g : /\ \A size : walkProofRecursive(index, size, leafHash, path) = g[<<0, size>>]
                  /\ WalksDown(g, index, leafHash, path)
<1> DEFINE k(r) == r[1] + consistencySplitPoint(r[2] - r[1])
           Part(f, r) == IF index < k(r) THEN f[<<r[1], k(r)>>] ELSE f[<<k(r), r[2]>>]
           Up(b, left) == <<IF left THEN InteriorHash(b[1], path[b[2] + 1]) ELSE InteriorHash(path[b[2] + 1], b[1]),
                            b[2] + 1>>
           Body(f, r) == IF r[2] - r[1] = 1 THEN <<leafHash, 0>> ELSE Up(Part(f, r), index < k(r))
           h == CHOOSE h : h = [r \in Ranges |-> Body(h, r)]
           len(r) == pathLen(index, r)
           at == [r \in Ranges |-> leafHash]
           op == [r \in Ranges |-> [how |-> "hash", left |-> index < mid(r), arg |-> path[len(partOf(index, r)) + 1]]]
<1>1. \A q \in Ranges : Size(q) = 1 => q \in Single
  BY DEF Single
<1>2. PICK f : Recursive(f, Single, at, op)
  <2> HIDE DEF at, op
  <2> QED BY <1>1, RecursionExists
<1>3. ASSUME NEW r \in Ranges, Size(r) # 1
      PROVE  /\ k(r) = mid(r) /\ partOf(index, r) \in Ranges
             /\ \A e : Part(e, r) = e[partOf(index, r)]
  <2>1. k(r) = mid(r)
    BY <1>3, ClientMid
  <2> HIDE DEF k
  <2> QED BY <1>3, <2>1, PartsOf DEF partOf
<1> DEFINE e == [r \in Ranges |-> <<f[r], len(r)>>]
<1>4. ASSUME NEW r \in Ranges PROVE e[r] = Body(e, r)
  <2>1. CASE Size(r) = 1
    <3>1. f[r] = leafHash /\ len(r) = 0
      BY <1>2, <2>1, PathLenIs DEF Recursive, Single
    <3> QED BY <3>1, <2>1 DEF Size
  <2>2. CASE Size(r) # 1
    <3> DEFINE u == partOf(index, r)
    <3>1. len(r) = 1 + len(u) /\ len(u) \in Nat
      <4>1. u \in Ranges
        BY <1>3, <2>2
      <4> HIDE DEF u
      <4>2. len(u) \in Nat
        BY <4>1, PathNat
      <4> QED BY <2>2, <4>2, PathLenIs DEF u
    <3>2. f[r] = IF index < mid(r) THEN InteriorHash(f[u], path[len(u) + 1])
                                   ELSE InteriorHash(path[len(u) + 1], f[u])
      <4> HIDE DEF len
      <4> QED BY <1>2, <2>2 DEF Recursive, Combine, Single, partOf
    <3>3. u \in Ranges
      BY <1>3, <2>2
    <3> HIDE DEF len, u
    <3>4. e[u] = <<f[u], len(u)>> /\ e[r] = <<f[r], len(u) + 1>>
      BY <3>1, <3>3
    <3> HIDE DEF e
    <3>5. e[r] = Up(e[u], index < mid(r))
      BY <3>2, <3>4
    <3> HIDE DEF Up, k, Part
    <3>6. Part(e, r) = e[u] /\ k(r) = mid(r) /\ ~ (r[2] - r[1] = 1)
      BY <1>3, <2>2 DEF u, Size
    <3> QED BY <3>5, <3>6, Zenon
  <2> QED BY <2>1, <2>2
<1>5. e = [r \in Ranges |-> e[r]]
  OBVIOUS
<1> HIDE DEF e
<1>6. e = [r \in Ranges |-> Body(e, r)]
  <2> HIDE DEF Body
  <2> QED BY <1>4, <1>5
<1>7. h = [r \in Ranges |-> Body(h, r)]
  <2> HIDE DEF Body
  <2> QED BY <1>6, Zenon
<1>8. \A size : walkProofRecursive(index, size, leafHash, path) = h[<<0, size>>]
  BY Zenon DEF walkProofRecursive
<1> HIDE DEF h
<1>9. \A r \in Ranges : h[r] = Body(h, r)
  <2> HIDE DEF Body
  <2> QED BY <1>7
<1>10. ASSUME NEW r \in Ranges, Size(r) # 1 PROVE h[r] = Up(h[partOf(index, r)], index < mid(r))
  <2>1. ~ (r[2] - r[1] = 1)
    BY <1>10 DEF Size
  <2> HIDE DEF Up, k, Part
  <2> QED BY <1>3, <1>9, <1>10, <2>1, Zenon
<1>11. ASSUME NEW r \in Ranges, Size(r) = 1 PROVE h[r] = <<leafHash, 0>>
  <2>1. r[2] - r[1] = 1
    BY <1>11 DEF Size
  <2> HIDE DEF Up, Part
  <2> QED BY <1>9, <2>1, Zenon
<1>12. WalksDown(h, index, leafHash, path)
  BY <1>10, <1>11, Zenon DEF WalksDown
<1> QED
  BY <1>8, <1>12, Zenon

\* walkProofRecursive takes all of the proof and reaches the root.
LEMMA WalkRecursiveLeads ==
    ASSUME NEW hashAt, NEW size \in Nat \ {0}, NEW index \in 0..(size - 1)
    PROVE  walkProofRecursive(index, size, hashAt[index], InclusionProof(index, size, hashAt))
               = <<MTH(size, hashAt), Len(InclusionProof(index, size, hashAt))>>
<1> DEFINE hash == LeafHashes(hashAt)
<1>1. TreeHash(hash) /\ hash[<<index, index + 1>>] = hashAt[index] /\ MTH(size, hashAt) = hash[<<0, size>>]
  BY LeafHashesTree
<1>2. PICK p : /\ \A n : InclusionProof(index, n, hashAt) = p[<<0, n>>]
               /\ ProofsOf(p, index, hash)
  BY InclusionProofIs
<1> DEFINE full == p[<<0, size>>]
           leafHash == hashAt[index]
<1>3. PICK g : /\ \A n : walkProofRecursive(index, n, leafHash, full) = g[<<0, n>>]
               /\ WalksDown(g, index, leafHash, full)
  <2> HIDE DEF full, leafHash
  <2> QED BY WalkRecursiveIs
<1> HIDE DEF hash, leafHash
<1> DEFINE Inside(r) == /\ index \in r[1]..(r[2] - 1) /\ Len(p[r]) <= Len(full)
                        /\ \A j \in 1..Len(p[r]) : full[j] = p[r][j]
           Good(r) == g[r] = <<hash[r], Len(p[r])>>
           H == {hash[q] : q \in Ranges}
           T == {k \in Nat : \E r \in Ranges : Size(r) = k /\ Inside(r) /\ ~Good(r)}
<1>4. \A r \in Ranges : p[r] \in Seq(H)
  BY <1>2, ProofLength
<1>5. <<0, size>> \in Ranges
  BY DEF Ranges
<1> HIDE DEF H
<1>6. Len(full) \in Nat
  BY <1>4, <1>5
<1>7. T = {}
  <2> SUFFICES ASSUME T # {} PROVE FALSE
    OBVIOUS
  <2>1. PICK k \in T : \A j \in T : k <= j
    <3>1. T \subseteq Nat
      OBVIOUS
    <3> HIDE DEF T
    <3> QED BY <3>1, LeastNatural
  <2>2. PICK r \in Ranges : Size(r) = k /\ Inside(r) /\ ~Good(r)
    <3> HIDE DEF Inside, Good
    <3> QED BY <2>1
  <2>3. CASE Size(r) = 1
    <3>1. r[1] \in Nat /\ r[2] \in Nat /\ r = <<r[1], r[2]>>
      BY DEF Ranges
    <3>2. r[1] = index /\ r[2] = index + 1
      BY <2>2, <2>3, <3>1, SMTT(30) DEF Size
    <3>3. g[r] = <<leafHash, 0>>
      BY <1>3, <2>3, Zenon DEF WalksDown
    <3>4. Len(p[r]) = 0
      BY <1>2, <2>3 DEF ProofsOf
    <3>5. hash[r] = leafHash
      BY <1>1, <3>1, <3>2 DEF leafHash
    <3> QED
      BY <2>2, <3>3, <3>4, <3>5
  <2>4. CASE Size(r) # 1
    <3> DEFINE u == partOf(index, r)
               v == sibling(index, r)
               n == Len(p[u])
    <3>1. u \in Ranges /\ Size(u) < Size(r) /\ v \in Ranges /\ index \in u[1]..(u[2] - 1)
      BY <2>2, <2>4, PartsOf
    <3>2. p[r] = Append(p[u], hash[v]) /\ hash[v] \in H
      BY <1>2, <2>4, <3>1 DEF ProofsOf, H
    <3>3. n \in Nat /\ p[u] \in Seq(H)
      <4> HIDE DEF u
      <4> QED BY <1>4, <3>1
    <3>4. /\ Len(p[r]) = n + 1 /\ p[r][n + 1] = hash[v]
          /\ \A j \in 1..n : p[r][j] = p[u][j]
      <4> HIDE DEF u, v, full
      <4> QED BY <3>2, <3>3, SMTT(30)
    <3>5. Inside(u)
      <4> HIDE DEF u, v, full
      <4> QED BY <3>1, <3>3, <3>4, <1>6, <2>2
    <3>6. Good(u)
      <4> HIDE DEF u, Inside, Good
      <4>1. Size(u) \in Nat /\ Size(u) < k /\ k \in Nat
        BY <2>2, <3>1, SizeNat
      <4>2. Size(u) \notin T
        <5> HIDE DEF T
        <5> QED BY <2>1, <4>1
      <4> QED BY <4>1, <4>2, <3>1, <3>5
    <3>7. full[n + 1] = hash[v]
      <4> HIDE DEF u, v, n, full
      <4> QED BY <2>2, <3>3, <3>4, <1>6
    <3> DEFINE below == g[u]
               next  == full[below[2] + 1]
    <3>8. g[r] = <<IF index < mid(r) THEN InteriorHash(below[1], next) ELSE InteriorHash(next, below[1]), below[2] + 1>>
      <4> HIDE DEF full
      <4> QED BY <1>3, <2>4, Zenon DEF WalksDown
    <3>9. below[1] = hash[u] /\ below[2] = n /\ next = hash[v]
      <4> HIDE DEF u, v, full
      <4> QED BY <3>6, <3>7
    <3> HIDE DEF below, next
    <3>10. hash[r] = InteriorHash(hash[<<r[1], mid(r)>>], hash[<<mid(r), r[2]>>])
      BY <1>1, <2>4 DEF TreeHash
    <3>11. hash[r] = IF index < mid(r) THEN InteriorHash(hash[u], hash[v]) ELSE InteriorHash(hash[v], hash[u])
      BY <3>10 DEF partOf, sibling
    <3>12. g[r] = <<hash[r], n + 1>>
      <4> HIDE DEF u, v, n
      <4> QED BY <3>8, <3>9, <3>11
    <3> QED
      BY <2>2, <3>4, <3>12
  <2> QED
    BY <2>3, <2>4
<1>8. Inside(<<0, size>>)
  BY <1>5, <1>6
<1>9. Good(<<0, size>>)
  <2> HIDE DEF Inside, Good
  <2> QED BY <1>5, <1>7, <1>8, SizeNat
<1> QED
  BY <1>1, <1>2, <1>3, <1>9 DEF leafHash

-----------------------------------------------------------------------------
(* The null entry, and the tiles.                                          *)

\* Only Initialize and AppendEntries insert entries.
LEMMA LogWrites ==
    ASSUME [Next]_vars, log_entries' # log_entries
    PROVE  InitializeAppend \/ \E p \in Procs : AppendEntries(p)
<1>1. ASSUME NEW p \in Procs, LogStep(p), ~AppendEntries(p) PROVE FALSE
  BY <1>1, Zenon DEF LogStep, ReadSize, AppendConflict, SetLeaves, ReadChild, ReadLeft,
     ReadRight, SetLevel, CheckpointSize, CheckpointRoot, CheckpointLeaves, SaveCheckpoint, tables
<1>2. CASE WatcherStep
  <2>1. CASE Initialize \/ UpdateWatcherCursor
    BY <2>1, Zenon DEF Initialize, InitializeSize, InitializeLeaf, UpdateWatcherCursor, tables
  <2>2. CASE LogStep(Watcher)
    BY <1>1, <2>2 DEF Procs
  <2> QED
    BY <1>2, <2>1, <2>2 DEF WatcherStep
<1>3. ASSUME NEW o \in Orders, StartFinalize(o) \/ OrderStep(o)
      PROVE  \E p \in Procs : AppendEntries(p)
  <2>1. CASE LogStep(o)
    BY <1>1, <2>1 DEF Procs
  <2>2. CASE StartFinalize(o) \/ BuildProof(o) \/ StoreCert(o)
    BY <2>2, Zenon DEF StartFinalize, BuildProof, StoreCert, tables
  <2> QED
    BY <1>3, <2>1, <2>2 DEF OrderStep
<1>4. ASSUME NEW p \in Procs, LostRead(p) \/ Fault(p) PROVE FALSE
  BY <1>4, Zenon DEF LostRead, ReadLeft, ReadRight, Fault, tables
<1>5. CASE CAIssue \/ PollCertificates \/ CheckpointTick \/ Crash \/ UNCHANGED vars
  BY <1>5, Zenon DEF CAIssue, PollCertificates, CheckpointTick, Crash, vars, tables
<1> QED
  BY <1>2, <1>3, <1>4, <1>5 DEF Next

\* Failures are counted, never forgotten.
LEMMA FaultsGrow ==
    ASSUME IInv, [Next]_vars
    PROVE  faults' = 0 => faults = 0
<1>1. faults \in Nat
  BY BoundsAssumption DEF IInv, TypeOK
<1>2. ASSUME NEW p \in Procs, LogStep(p) PROVE faults' = faults \/ faults' = faults + 1
  BY <1>2, Zenon DEF LogStep, ReadSize, AppendEntries, AppendConflict, SetLeaves, ReadChild,
     SetLevel, CheckpointSize, CheckpointRoot, CheckpointLeaves, SaveCheckpoint
<1>3. CASE WatcherStep
  <2>1. CASE Initialize \/ UpdateWatcherCursor
    BY <2>1, Zenon DEF Initialize, InitializeSize, InitializeAppend, InitializeLeaf, UpdateWatcherCursor
  <2>2. CASE LogStep(Watcher)
    BY <1>1, <1>2, <2>2 DEF Procs
  <2> QED
    BY <1>3, <2>1, <2>2 DEF WatcherStep
<1>4. ASSUME NEW o \in Orders, BuildProof(o) PROVE faults' = 0 => faults = 0
  <2>1. PICK lost \in Unread : faults' = faults + Cardinality(lost)
    BY <1>4 DEF BuildProof
  <2>2. CASE lost = {}
    BY <1>1, <2>1, <2>2, FS_EmptySet
  <2>3. ASSUME NEW x, lost = {x} PROVE faults' = 0 => faults = 0
    <3>1. Cardinality({x}) = 1
      BY FS_Singleton
    <3> QED BY <1>1, <2>1, <2>3, <3>1
  <2> QED BY <2>2, <2>3 DEF Unread
<1>5. ASSUME NEW o \in Orders, StartFinalize(o) \/ OrderStep(o) PROVE faults' = 0 => faults = 0
  <2>1. CASE LogStep(o)
    BY <1>1, <1>2, <2>1 DEF Procs
  <2>2. CASE StartFinalize(o) \/ StoreCert(o)
    BY <2>2, Zenon DEF StartFinalize, StoreCert
  <2> QED
    BY <1>4, <1>5, <2>1, <2>2 DEF OrderStep
<1>6. CASE Crash \/ \E p \in Procs : LostRead(p) \/ Fault(p)
  <2>1. faults' = faults + 1
    BY <1>6, Zenon DEF Crash, LostRead, Fault
  <2> QED BY <1>1, <2>1
<1>7. CASE CAIssue \/ PollCertificates \/ CheckpointTick \/ UNCHANGED vars
  <2>1. faults' = faults \/ faults' = faults + 1
    BY <1>7, Zenon DEF CAIssue, PollCertificates, CheckpointTick, vars
  <2> QED BY <1>1, <2>1
<1> QED
  BY <1>3, <1>5, <1>6, <1>7 DEF Next

\* The first entry is the null entry that Initialize appends.
NullAtZero == (faults = 0 /\ TreeSize >= 1) => log_entries[0] = NullEntry

\* No step gives the log another first entry.
LEMMA NextNull ==
    ASSUME IInv, SerialInv, NullAtZero, [Next /\ Serialized]_vars
    PROVE  NullAtZero'
<1> SUFFICES ASSUME faults' = 0, TreeSize' >= 1 PROVE log_entries'[0] = NullEntry
  BY DEF NullAtZero
<1>1. [Next]_vars
  OBVIOUS
<1>2. IInv'
  BY <1>1, NextIInv
<1>3. /\ TreeSize \in Nat /\ TreeSize' \in Nat
      /\ \A i \in 0..(TreeSize - 1) : log_entries'[i] = log_entries[i]
  BY <1>1, LogStays
<1>4. faults = 0
  BY <1>1, FaultsGrow DEF IInv, TypeOK
<1>5. CASE TreeSize >= 1
  BY <1>3, <1>4, <1>5 DEF NullAtZero
<1>6. CASE TreeSize = 0
  <2>1. log_entries' # log_entries
    BY <1>6 DEF TreeSize
  <2>2. CASE InitializeAppend
    <3>1. pc'[Watcher] = "init_leaf"
      BY <2>1, <2>2 DEF InitializeAppend, Goto, IInv, TypeOK, Procs
    <3> QED BY <1>2, <3>1 DEF IInv, NullInLog
  <2>3. ASSUME NEW p \in Procs, AppendEntries(p) PROVE FALSE
    <3>1. pc[p] = "append" /\ SizesRead(p)
      BY <1>4, <2>3 DEF AppendEntries, SerialInv, CalmInv
    <3> QED BY <1>6, <3>1 DEF SizesRead
  <2> QED BY <1>1, <2>1, <2>2, <2>3, LogWrites
<1> QED BY <1>3, <1>5, <1>6

\* So it is first at any time.
LEMMA NullAlways == SerialSpec => [](IInv /\ SerialInv /\ NullAtZero)
<1>1. Init => NullAtZero
  BY DEF Init, NullAtZero, TreeSize, sizeOf
<1>2. (IInv /\ SerialInv) /\ NullAtZero /\ [Next /\ Serialized]_vars => NullAtZero'
  BY NextNull
<1> QED
  BY <1>1, <1>2, SerialInductive, PTL DEF SerialSpec

\* t starts with the first k of count rows of a level, and is complete if they all are there.
StartsWith(t, level, nodeStart, count, k) ==
    /\ Len(t) \in k..count /\ (k = count => Len(t) = count)
    /\ \A i \in 1..k : t[i] = nodeAt(tree_nodes, level, nodeStart + i - 1)

\* The tiles start with the rows that are there without a gap.
LEMMA TilePrefix ==
    ASSUME NEW level, NEW nodeStart \in Nat, NEW count \in Nat, NEW k \in 0..count,
           \A i \in 1..k : <<level, nodeStart + i - 1>> \in DOMAIN tree_nodes
    PROVE  StartsWith(GetTileHashes(level, nodeStart, count), level, nodeStart, count, k)
<1> DEFINE found == {i \in 1..count : <<level, nodeStart + i - 1>> \in DOMAIN tree_nodes}
           t == [i \in 1..Cardinality(found) |-> nodeAt(tree_nodes, level, nodeStart + i - 1)]
<1>1. IsFiniteSet(1..count) /\ Cardinality(1..count) = count /\ Cardinality(1..k) = k
  BY FS_Interval
<1>0. \A i \in 1..k : i \in 1..count
  OBVIOUS
<1>2. found \in SUBSET (1..count) /\ 1..k \in SUBSET found
  BY <1>0, Zenon
<1>3. GetTileHashes(level, nodeStart, count) = t
  BY Zenon DEF GetTileHashes
<1> HIDE DEF found
<1>4. IsFiniteSet(found) /\ Cardinality(found) <= count
  BY <1>1, <1>2, FS_Subset
<1>5. k <= Cardinality(found)
  BY <1>1, <1>2, <1>4, FS_Subset
<1>6. Cardinality(found) \in Nat
  BY <1>4, FS_CardinalityType
<1>7. Len(t) = Cardinality(found) /\ \A i \in 1..k : t[i] = nodeAt(tree_nodes, level, nodeStart + i - 1)
  BY <1>5, <1>6
<1> HIDE DEF t
<1> QED BY <1>3, <1>4, <1>5, <1>6, <1>7 DEF StartsWith

\* A row that holds a hash is there.
LEMMA RowThere ==
    ASSUME NEW nodes, NEW n \in Nat, n <= TreeSize, TreeSize \in Nat, RowsHold(nodes, AllHashes, n),
           NEW l \in Nat, NEW j \in Nat, (j + 1) * 2^l <= n
    PROVE  <<l, j>> \in DOMAIN nodes
<1> DEFINE s == j * 2^l
           e == (j + 1) * 2^l
           hash == computeSubtreeHash(s, e, AllHashes)
<1>1. s \in Nat /\ e \in Nat /\ s < e /\ e <= n
  BY RowStarts
<1>2. nodeAt(nodes, l, j) = hash
  BY DEF RowsHold
<1> HIDE DEF s, e
<1>3. CASE e - s = 1
  <2>1. hash = AllHashes[s] /\ s \in 0..(TreeSize - 1)
    BY <1>1, <1>3, SubtreeHashIs
  <2>2. hash = LeafHash(log_entries[s].entry_data)
    BY <2>1 DEF AllHashes, Hashes
  <2>3. hash[1] = "leaf"
    BY <2>2 DEF LeafHash
  <2> QED BY <1>2, <2>3 DEF nodeAt, EmptyHash
<1>4. CASE e - s # 1
  <2>1. \E a, b : hash = InteriorHash(a, b)
    BY <1>1, <1>4, SubtreeHashIs
  <2>2. hash[1] = "node"
    BY <2>1 DEF InteriorHash
  <2> QED BY <1>2, <2>2 DEF nodeAt, EmptyHash
<1> QED BY <1>3, <1>4

-----------------------------------------------------------------------------
(* The conformance suite.                                                  *)

\* The hash tile of the leaves holds those under a checkpoint.
LEMMA FirstLeafTile ==
    ASSUME NEW n \in Nat \ {0}, n <= TreeSize, TreeSize \in Nat, RowsHold(tree_nodes, AllHashes, n)
    PROVE  LET t == handleHashTile(0, 0).body
           IN  /\ t[1] = LeafHash(log_entries[0].entry_data)
               /\ (TreeSize = n \/ n >= TileWidth) => Len(t) = IF n > TileWidth THEN TileWidth ELSE n
<1> DEFINE count == IF TileWidth > TreeSize THEN TreeSize ELSE TileWidth
           k     == IF n > count THEN count ELSE n
           t     == GetTileHashes(0, 0, count)
<1>1. TileWidth \in Nat /\ TileWidth > 0
  BY TileAssumption
<1>2. 2^0 = 1 /\ Shift(TreeSize + 2^0 - 1, 0) = TreeSize /\ 0 * TileWidth = 0
  <2>1. 2^0 = 1
    BY PowNat
  <2>2. TreeSize + 1 - 1 = TreeSize /\ 0 * TileWidth = 0
    BY <1>1
  <2> QED BY <2>1, <2>2, ShiftByZero
<1>3. /\ 0 + TileWidth = TileWidth /\ TreeSize - 0 = TreeSize /\ ~ (0 >= TreeSize)
  BY <1>1
<1>4. handleHashTile(0, 0).body = t
  BY <1>2, <1>3 DEF handleHashTile
<1>5. count \in Nat /\ k \in 0..count /\ k >= 1 /\ k <= n
  BY <1>1
<1> HIDE DEF count, t
<1>6. \A i \in 1..k : <<0, 0 + i - 1>> \in DOMAIN tree_nodes
  <2> TAKE i \in 1..k
  <2>1. i - 1 \in Nat /\ (i - 1 + 1) * 2^0 <= n /\ 0 + i - 1 = i - 1
    BY <1>2, <1>5
  <2>2. <<0, i - 1>> \in DOMAIN tree_nodes
    BY <2>1, RowThere
  <2> QED BY <2>1, <2>2
<1>7. /\ Len(t) \in k..count /\ (k = count => Len(t) = count)
      /\ \A i \in 1..k : t[i] = nodeAt(tree_nodes, 0, 0 + i - 1)
  <2> HIDE DEF k
  <2>1. StartsWith(t, 0, 0, count, k)
    BY <1>5, <1>6, TilePrefix DEF t
  <2> QED BY <2>1, Zenon DEF StartsWith
<1>8. t[1] = LeafHash(log_entries[0].entry_data)
  <2>1. t[1] = nodeAt(tree_nodes, 0, 0)
    BY <1>5, <1>7
  <2>2. nodeAt(tree_nodes, 0, 0) = computeSubtreeHash(0, 1, AllHashes)
    <3>1. (0 + 1) * 2^0 <= n /\ 0 * 2^0 = 0 /\ (0 + 1) * 2^0 = 1
      BY <1>2
    <3> QED BY <3>1 DEF RowsHold
  <2>3. computeSubtreeHash(0, 1, AllHashes) = AllHashes[0]
    BY SubtreeHashIs
  <2>4. AllHashes[0] = LeafHash(log_entries[0].entry_data)
    BY DEF AllHashes, Hashes
  <2> QED BY <2>1, <2>2, <2>3, <2>4
<1>9. (TreeSize = n \/ n >= TileWidth) => Len(t) = IF n > TileWidth THEN TileWidth ELSE n
  BY <1>1, <1>7 DEF count
<1> QED BY <1>4, <1>8, <1>9

\* The entry tile starts with the first entry.
LEMMA FirstEntryTile ==
    ASSUME TreeSize \in Nat \ {0}
    PROVE  handleEntryTile(0).body[1] = log_entries[0].entry_data
<1> DEFINE end == IF TileWidth > TreeSize THEN TreeSize ELSE TileWidth
           body == [i \in 1..(end - 0) |-> log_entries[0 + i - 1].entry_data]
<1>1. TileWidth \in Nat /\ TileWidth > 0 /\ 0 * TileWidth = 0 /\ 0 + TileWidth = TileWidth
  BY TileAssumption
<1>2. handleEntryTile(0).body = body
  BY <1>1 DEF handleEntryTile
<1>3. end \in Nat /\ 1 \in 1..(end - 0)
  BY <1>1
<1> HIDE DEF end
<1>4. body[1] = log_entries[0 + 1 - 1].entry_data
  BY <1>3, Zenon
<1>5. 0 + 1 - 1 = 0
  OBVIOUS
<1> HIDE DEF body
<1> QED BY <1>2, <1>4, <1>5

\* The second leaf has a sibling in a tree of two leaves or more.
LEMMA SecondLeafProof ==
    ASSUME NEW hashAt, NEW size \in Nat, size >= 2
    PROVE  InclusionProof(1, size, hashAt) # <<>>
<1>1. PICK p : /\ \A n : InclusionProof(1, n, hashAt) = p[<<0, n>>]
               /\ ProofsOf(p, 1, LeafHashes(hashAt))
  BY InclusionProofIs
<1>2. <<0, size>> \in Ranges /\ Size(<<0, size>>) # 1
  BY DEF Ranges, Size
<1>3. Len(p[<<0, size>>]) = pathLen(1, <<0, size>>)
  BY <1>1, <1>2, ProofLength
<1>4. partOf(1, <<0, size>>) \in Ranges
  BY <1>2, PartsOf
<1>5. pathLen(1, partOf(1, <<0, size>>)) \in Nat
  BY <1>4, PathNat
<1>6. pathLen(1, <<0, size>>) # 0
  BY <1>2, <1>5, PathLenIs
<1> QED BY <1>1, <1>3, <1>6

\* The suite's walk to the root for the second entry.
LEMMA SecondLeafServed ==
    ASSUME NEW n \in Nat, n >= 2, n <= TreeSize, TreeSize \in Nat, RowsHold(tree_nodes, AllHashes, n)
    PROVE  /\ InclusionProofFromNodes(1, n, tree_nodes) # <<>>
           /\ walkByParity(LeafHash(log_entries[1].entry_data), 1, InclusionProofFromNodes(1, n, tree_nodes))
                  = MTH(n, AllHashes)
<1> DEFINE F == {<<1, 2>>} \cup {<<0, e>> : e \in {m \in Nat : m > 1}}
<1>1. n \in Nat \ {0} /\ n \in 1..n /\ 1 \in 0..(n - 1)
  OBVIOUS
<1>2. InclusionProofFromNodes(1, n, tree_nodes) = InclusionProof(1, n, AllHashes)
  BY <1>1, ProofFromRows
<1>3. BitsLead(F, 1) /\ <<0, n>> \in F
  BY SecondLeafBits
<1> HIDE DEF F
<1>4. VerifyInclusion(AllHashes[1], 1, n, InclusionProof(1, n, AllHashes), MTH(n, AllHashes))
  BY <1>1, <1>3, VerifyInclusionByBits
<1>5. AllHashes[1] = LeafHash(log_entries[1].entry_data)
  BY DEF AllHashes, Hashes
<1>6. walkByParity(AllHashes[1], 1, InclusionProof(1, n, AllHashes)) = MTH(n, AllHashes)
  BY <1>4, WalkByParityIs
<1> QED BY <1>2, <1>5, <1>6, SecondLeafProof

\* What holds of a saved checkpoint is enough for the suite to pass.
LEMMA SuiteHolds ==
    ASSUME IInv, SerialInv, NullAtZero, faults = 0, TreeSize < 2^(MaxLevel + 1)
    PROVE  SuitePasses
<1> SUFFICES ASSUME NEW c \in Saved
             PROVE  /\ testInclusionProof
                    /\ c.tree_size >= 2 => testProofAPIInclusion(c) /\ testAssertionVerifyProof(c)
                    /\ c.tree_size >= 3 => testConsistencyProofVerify(c)
                    /\ (TreeSize = c.tree_size \/ c.tree_size >= TileWidth) => testTileHashSize(c)
                    /\ \A d \in Saved : c.tree_size <= d.tree_size =>
                          LET r == handleConsistencyProof(c.tree_size, d.tree_size)
                          IN  \A e \in Saved :
                              verifyConsistencyProof(c.tree_size, d.tree_size, r.proof, c.root_hash, e.root_hash)
                                  <=> e.root_hash = d.root_hash
  BY Zenon DEF SuitePasses
<1> DEFINE n == c.tree_size
<1>1. /\ n \in Nat \ {0} /\ n <= TreeSize /\ TreeSize \in Nat
      /\ RowsHold(tree_nodes, AllHashes, n) /\ c.root_hash = MTH(n, AllHashes)
  BY SavedRows
<1>2. testInclusionProof
  <2>1. handleEntryTile(0).body[1] = log_entries[0].entry_data
    BY <1>1, FirstEntryTile
  <2>2. handleHashTile(0, 0).body[1] = LeafHash(log_entries[0].entry_data)
    BY <1>1, FirstLeafTile
  <2> QED BY <2>1, <2>2 DEF testInclusionProof
<1>3. ASSUME n >= 2 PROVE testProofAPIInclusion(c) /\ testAssertionVerifyProof(c)
  <2>1. /\ InclusionProofFromNodes(1, n, tree_nodes) # <<>>
        /\ walkByParity(LeafHash(log_entries[1].entry_data), 1, InclusionProofFromNodes(1, n, tree_nodes))
               = MTH(n, AllHashes)
    BY <1>1, <1>3, SecondLeafServed
  <2>2. log_entries[0] = NullEntry
    BY <1>1 DEF NullAtZero
  <2> QED BY <1>1, <2>1, <2>2 DEF testProofAPIInclusion, testAssertionVerifyProof, handleInclusionProof
<1>4. ASSUME n >= 3 PROVE testConsistencyProofVerify(c)
  <2>1. n \in 0..n /\ 1 \in 0..n /\ 1 # 0
    BY <1>1, <1>4
  <2>2. RootFromNodes(1, tree_nodes) = MTH(1, AllHashes) /\ RootFromNodes(n, tree_nodes) = MTH(n, AllHashes)
    BY <1>1, <2>1, RootFromRows
  <2>3. verifyConsistencyProof(1, n, ConsistencyProofFromNodes(1, n, tree_nodes), MTH(1, AllHashes), MTH(n, AllHashes))
    BY <1>1, <2>1, ClientConsistency
  <2> QED BY <1>1, <2>2, <2>3 DEF testConsistencyProofVerify, handleConsistencyProof
<1>5. (TreeSize = n \/ n >= TileWidth) => testTileHashSize(c)
  BY <1>1, FirstLeafTile DEF testTileHashSize
<1>6. ASSUME NEW d \in Saved, n <= d.tree_size, NEW e \in Saved
      PROVE  verifyConsistencyProof(n, d.tree_size, handleConsistencyProof(n, d.tree_size).proof, c.root_hash, e.root_hash)
                 <=> e.root_hash = d.root_hash
  <2> DEFINE m == d.tree_size
  <2>1. /\ m \in Nat \ {0} /\ RowsHold(tree_nodes, AllHashes, m) /\ d.root_hash = MTH(m, AllHashes)
    BY SavedRows
  <2>2. m \in 0..m /\ n \in 0..m /\ n # 0
    BY <1>1, <1>6, <2>1
  <2>3. verifyConsistencyProof(n, m, ConsistencyProofFromNodes(n, m, tree_nodes), MTH(n, AllHashes), e.root_hash)
            <=> e.root_hash = MTH(m, AllHashes)
    BY <2>1, <2>2, ClientConsistency
  <2> QED BY <1>1, <2>1, <2>3 DEF handleConsistencyProof
<1> HIDE DEF n
<1> QED BY <1>2, <1>3, <1>4, <1>5, <1>6, Zenon DEF n

\* The tests of cmd/mtc-conformance pass at any time against a bridge whose writers
\* take turns and that met no failure: with the checkpoint it read first, however old,
\* its walk by parity reaches the signed root, its own verifier accepts the proofs that
\* handleConsistencyProof serves for the signed roots and for no others, and the tiles
\* have the size and the hashes it expects.
THEOREM SerialSuitePasses ==
    SerialSpec => []((faults = 0 /\ TreeSize < 2^(MaxLevel + 1)) => SuitePasses)
<1>1. (IInv /\ SerialInv /\ NullAtZero) => ((faults = 0 /\ TreeSize < 2^(MaxLevel + 1)) => SuitePasses)
  BY SuiteHolds
<1> QED
  BY <1>1, NullAlways, PTL

-----------------------------------------------------------------------------
(* The dashboard.                                                          *)

\* A stored node over two complete subtrees is the hash of theirs.
LEMMA NodeOfChildren ==
    ASSUME NEW nodes, NEW hashAt, NEW n \in Nat, RowsHold(nodes, hashAt, n),
           NEW l \in Nat, NEW j \in Nat, (j + 1) * 2^(l + 1) <= n
    PROVE  nodeAt(nodes, l + 1, j) = InteriorHash(nodeAt(nodes, l, 2 * j), nodeAt(nodes, l, 2 * j + 1))
<1> DEFINE w == 2^l
           s == j * 2^(l + 1)
           e == (j + 1) * 2^(l + 1)
<1>1. w \in Nat /\ w > 0 /\ 2^(l + 1) = 2 * w /\ l + 1 \in Nat
  BY PowNat
<1>2. s \in Nat /\ e = s + 2 * w
  BY <1>1, RowStarts
<1>3. s = (2 * j) * w /\ s + w = (2 * j + 1) * w /\ e = (2 * j + 1 + 1) * w /\ s + w \in Nat
  <2>1. (2 * j) * w = j * (2 * w) /\ 2 * j \in Nat
    BY <1>1, MultNext
  <2>2. (2 * j + 1) * w = (2 * j) * w + w
    BY <1>1, <2>1, MultNext
  <2>3. (2 * j + 1 + 1) * w = (2 * j + 1) * w + w
    BY <1>1, <2>1, MultNext
  <2>4. s = j * (2 * w)
    BY <1>1
  <2> HIDE DEF w, s, e
  <2> QED BY <1>1, <1>2, <2>1, <2>2, <2>3, <2>4
<1> HIDE DEF w, s, e
<1>4. computeSubtreeHash(s, e, hashAt) =
          InteriorHash(computeSubtreeHash(s, s + w, hashAt), computeSubtreeHash(s + w, e, hashAt))
  <2>1. e \in Nat /\ s < e /\ e - s # 1 /\ e - s = 2 * w /\ e - s \in Nat /\ e - s > 1
    BY <1>1, <1>2
  <2>2. splitPoint(e - s) = w
    <3>1. 2^l < e - s /\ e - s <= 2 * 2^l
      BY <1>1, <2>1 DEF w
    <3>2. splitPoint(e - s) = 2^l
      BY <2>1, <3>1, SplitPointUnique
    <3> QED BY <3>2 DEF w
  <2>3. LET k == splitPoint(e - s)
        IN  computeSubtreeHash(s, e, hashAt) =
                InteriorHash(computeSubtreeHash(s, s + k, hashAt), computeSubtreeHash(s + k, e, hashAt))
    BY ONLY <1>2, <2>1, SubtreeHashIs, Zenon
  <2> QED BY <2>2, <2>3, Zenon
<1>5. nodeAt(nodes, l + 1, j) = computeSubtreeHash(s, e, hashAt)
  BY <1>1 DEF RowsHold, s, e
<1>6. nodeAt(nodes, l, 2 * j) = computeSubtreeHash(s, s + w, hashAt)
  <2>1. 2 * j \in Nat /\ (2 * j + 1) * w <= n
    BY <1>1, <1>2, <1>3 DEF e
  <2>2. nodeAt(nodes, l, 2 * j) = computeSubtreeHash((2 * j) * w, (2 * j + 1) * w, hashAt)
    BY <2>1 DEF RowsHold, w
  <2> QED BY <1>3, <2>2
<1>7. nodeAt(nodes, l, 2 * j + 1) = computeSubtreeHash(s + w, e, hashAt)
  <2>1. 2 * j + 1 \in Nat /\ (2 * j + 1 + 1) * w <= n
    BY <1>3 DEF e
  <2>2. nodeAt(nodes, l, 2 * j + 1) = computeSubtreeHash((2 * j + 1) * w, (2 * j + 1 + 1) * w, hashAt)
    BY <2>1 DEF RowsHold, w
  <2> QED BY <1>3, <2>2
<1> QED BY <1>4, <1>5, <1>6, <1>7

\* A row that is under a checkpoint is in its place in the tile.
LEMMA TileRow ==
    ASSUME NEW n \in Nat, n <= TreeSize, TreeSize \in Nat, RowsHold(tree_nodes, AllHashes, n),
           NEW l \in Nat, NEW q \in Nat, NEW count \in Nat, NEW k \in 1..count, (q + k) * 2^l <= n
    PROVE  GetTileHashes(l, q, count)[k] = nodeAt(tree_nodes, l, q + k - 1)
<1>1. \A i \in 1..k : <<l, q + i - 1>> \in DOMAIN tree_nodes
  <2> TAKE i \in 1..k
  <2>1. q + i - 1 \in Nat /\ q + i \in Nat /\ q + k \in Nat /\ q + i <= q + k /\ (q + i - 1) + 1 = q + i
    OBVIOUS
  <2>2. 2^l \in Nat
    BY PowNat
  <2>3. (q + i) * 2^l \in Nat /\ (q + k) * 2^l \in Nat /\ (q + i) * 2^l <= (q + k) * 2^l
    BY <2>1, <2>2, MultOrder
  <2>4. ((q + i - 1) + 1) * 2^l <= n
    BY <2>1, <2>3
  <2> QED BY <2>1, <2>4, RowThere
<1>2. k \in 0..count /\ k \in 1..k
  OBVIOUS
<1> DEFINE t == GetTileHashes(l, q, count)
<1>3. \A i \in 1..k : t[i] = nodeAt(tree_nodes, l, q + i - 1)
  <2>1. StartsWith(t, l, q, count, k)
    BY <1>1, <1>2, TilePrefix
  <2> QED BY <2>1, Zenon DEF StartsWith
<1> QED BY <1>2, <1>3, Zenon

\* Shifting x by one more halves it, and loses nothing.
Halved(x, l) ==
    /\ Shift(x, l + 1) \in Nat /\ Shift(x, l) = 2 * Shift(x, l + 1)
    /\ Shift(x, l + 1) * 2^(l + 1) = x

\* That is so for a multiple of 2^h, up to level h.
LEMMA ShiftHalves ==
    ASSUME NEW h \in Nat, NEW d \in Nat, NEW l \in Nat, l + 1 <= h
    PROVE  Halved(d * 2^h, l)
<1>1. l + 1 \in Nat
  OBVIOUS
<1>2. PICK a \in Nat : d * 2^h = a * 2^(l + 1) /\ (a + 1) * 2^(l + 1) = d * 2^h + 2^(l + 1)
  BY <1>1, AlignedBelow, Zenon
<1> DEFINE x == d * 2^h
           w == 2^l
           v == 2^(l + 1)
<1>3. w \in Nat /\ w > 0 /\ v = 2 * w /\ v \in Nat /\ 2^h \in Nat /\ x \in Nat
  <2>1. w \in Nat /\ w > 0 /\ v = 2 * w /\ 2^h \in Nat
    BY PowNat
  <2>2. x \in Nat
    BY <2>1, MultNext
  <2> HIDE DEF w, v, x
  <2> QED BY <2>1, <2>2
<1>4. a * v \in Nat /\ (2 * a) * w = a * v /\ x = a * v /\ 2 * a \in Nat
  BY <1>2, <1>3, MultNext
<1> HIDE DEF x, w, v
<1>5. Shift(x, l + 1) = a
  <2>1. a * v <= x /\ x < a * v + v
    BY <1>3, <1>4
  <2>2. a * 2^(l + 1) <= x /\ x < a * 2^(l + 1) + 2^(l + 1)
    BY <2>1 DEF v
  <2> QED BY <1>1, <1>3, <2>2, ShiftValue
<1>6. Shift(x, l) = 2 * a
  <2>1. (2 * a) * w <= x /\ x < (2 * a) * w + w
    BY <1>3, <1>4
  <2>2. (2 * a) * 2^l <= x /\ x < (2 * a) * 2^l + 2^l
    BY <2>1 DEF w
  <2> QED BY <1>3, <1>4, <2>2, ShiftValue
<1>7. Shift(x, l + 1) \in Nat /\ Shift(x, l) = 2 * Shift(x, l + 1) /\ Shift(x, l + 1) * v = x
  BY <1>4, <1>5, <1>6
<1> QED BY <1>7, Zenon DEF Halved, x, v

\* Entry i of level l + 1 of a view is the hash of the two below it.
OverChildren(l, start, width, i) ==
    GetTileHashes(l + 1, Shift(start, l + 1), Shift(width, l + 1))[i] =
        InteriorHash(GetTileHashes(l, Shift(start, l), Shift(width, l))[2 * i - 1],
                     GetTileHashes(l, Shift(start, l), Shift(width, l))[2 * i])

\* In the view of an aligned subtree of 2^h leaves a node that is under the checkpoint
\* is over its children.
LEMMA SubtreeView ==
    ASSUME NEW n \in Nat, n <= TreeSize, TreeSize \in Nat, RowsHold(tree_nodes, AllHashes, n),
           NEW h \in Nat, NEW d \in Nat, NEW l \in Nat, l + 1 <= h,
           NEW start, start = d * 2^h, NEW width, width = 2^h,
           NEW i \in Nat \ {0}, i <= Shift(width, l + 1), start + i * 2^(l + 1) <= n
    PROVE  OverChildren(l, start, width, i)
<1> DEFINE q == Shift(start, l + 1)
           count == Shift(width, l + 1)
           w == 2^l
           v == 2^(l + 1)
<1>1. w \in Nat /\ w > 0 /\ v = 2 * w /\ l + 1 \in Nat /\ v \in Nat
  BY PowNat
<1>2. q \in Nat /\ Shift(start, l) = 2 * q /\ q * v = start
  <2>1. Halved(start, l)
    BY ShiftHalves
  <2> QED BY <2>1, Zenon DEF Halved
<1>3. count \in Nat /\ Shift(width, l) = 2 * count
  <2>1. width = 1 * 2^h
    BY PowNat
  <2>2. Halved(1 * 2^h, l)
    BY ShiftHalves
  <2> QED BY <2>1, <2>2, Zenon DEF Halved
<1>4. i \in 1..count /\ 2 * i - 1 \in 1..(2 * count) /\ 2 * i \in 1..(2 * count) /\ 2 * count \in Nat
  BY <1>3
<1>5. (q + i) * v = start + i * v /\ (q + i) * v <= n
  <2> HIDE DEF q, v
  <2>1. i * v \in Nat /\ (q + i) * v = q * v + i * v
    BY <1>1, <1>2
  <2>2. start + i * v <= n
    BY DEF v
  <2> QED BY <1>2, <2>1, <2>2
<1>6. /\ (2 * q + 2 * i) * w = (q + i) * v /\ (2 * q + (2 * i - 1)) * w <= (q + i) * v
      /\ (2 * q + (2 * i - 1)) * w \in Nat /\ (q + i) * v \in Nat
  <2>1. (2 * (q + i)) * w = (q + i) * (2 * w) /\ q + i \in Nat /\ (q + i) * (2 * w) \in Nat
    BY <1>1, <1>2, MultNext
  <2>2. 2 * q + 2 * i = 2 * (q + i) /\ 2 * q + 2 * i \in Nat /\ 2 * q + (2 * i - 1) \in Nat
        /\ 2 * q + (2 * i - 1) <= 2 * q + 2 * i
    BY <1>2
  <2>3. /\ (2 * q + (2 * i - 1)) * w \in Nat
        /\ (2 * q + (2 * i - 1)) * w <= (2 * q + 2 * i) * w
    BY <1>1, <2>2, MultOrder
  <2> HIDE DEF q, w, v
  <2> QED BY <1>1, <2>1, <2>2, <2>3
<1> HIDE DEF q, count
<1>7. GetTileHashes(l + 1, q, count)[i] = nodeAt(tree_nodes, l + 1, q + i - 1)
  BY <1>1, <1>2, <1>3, <1>4, <1>5, TileRow
<1>8. GetTileHashes(l, 2 * q, 2 * count)[2 * i] = nodeAt(tree_nodes, l, 2 * q + 2 * i - 1)
  <2>1. 2 * q \in Nat /\ (2 * q + 2 * i) * 2^l <= n
    BY <1>2, <1>5, <1>6
  <2> QED BY <1>4, <2>1, TileRow
<1>9. GetTileHashes(l, 2 * q, 2 * count)[2 * i - 1] = nodeAt(tree_nodes, l, 2 * q + (2 * i - 1) - 1)
  <2>0. (2 * q + (2 * i - 1)) * w <= n
    <3> HIDE DEF w, v
    <3> QED BY <1>5, <1>6
  <2>1. 2 * q \in Nat /\ (2 * q + (2 * i - 1)) * 2^l <= n
    BY <1>2, <2>0
  <2> QED BY <1>4, <2>1, TileRow
<1> DEFINE j == q + i - 1
<1>10. /\ j \in Nat /\ j + 1 = q + i
       /\ 2 * q + 2 * i - 1 = 2 * j + 1 /\ 2 * q + (2 * i - 1) - 1 = 2 * j
  BY <1>2
<1>11. nodeAt(tree_nodes, l + 1, j) = InteriorHash(nodeAt(tree_nodes, l, 2 * j), nodeAt(tree_nodes, l, 2 * j + 1))
  <2>1. (j + 1) * 2^(l + 1) <= n
    BY <1>5, <1>10
  <2> HIDE DEF j
  <2> QED BY <1>10, <2>1, NodeOfChildren
<1> HIDE DEF w, v
<1>12. nodeAt(tree_nodes, l + 1, q + i - 1) =
           InteriorHash(nodeAt(tree_nodes, l, 2 * q + (2 * i - 1) - 1), nodeAt(tree_nodes, l, 2 * q + 2 * i - 1))
  BY <1>10, <1>11, Zenon
<1> QED BY <1>2, <1>3, <1>7, <1>8, <1>9, <1>12, Zenon DEF OverChildren, q, count

\* The same, of what handleVizSubtree answers.
ShownOver(view, level, i) ==
    view.levels[level][i] = InteriorHash(view.levels[level - 1][2 * i - 1], view.levels[level - 1][2 * i])

\* What is shown of a subtree.
LEMMA SubtreeShown ==
    ASSUME NEW c, c.tree_size \in Nat \ {0}, c.tree_size <= TreeSize, TreeSize \in Nat,
           RowsHold(tree_nodes, AllHashes, c.tree_size),
           NEW from \in 0..c.tree_size, NEW param, NEW size \in {4, 8, 16}, size = subtreeSizeOf(param),
           NEW level \in 1..Log2(size), NEW i \in 1..size,
           i <= Shift(size, level), handleVizSubtree(from, param, c).start + i * 2^level <= c.tree_size
    PROVE  ShownOver(handleVizSubtree(from, param, c), level, i)
<1> DEFINE view    == handleVizSubtree(from, param, c)
           al(n)   == (n \div size) * size
           st      == IF al(from) >= c.tree_size THEN al(c.tree_size - 1) ELSE al(from)
           h       == Log2(size)
           tile(k) == GetTileHashes(k, Shift(st, k), Shift(size, k))
<1>1. PICK g \in {2, 3, 4} : size = 2^g
  <2>1. 2^2 = 4 /\ 2^3 = 8 /\ 2^4 = 16
    OBVIOUS
  <2> QED BY <2>1
<1>2. h = g
  BY <1>1, Log2Is
<1>3. view.start = st /\ view.levels = [k \in 0..h |-> tile(k)]
  BY Zenon DEF handleVizSubtree
<1>4. \E d \in Nat : st = d * 2^g
  <2>1. from \div size \in Nat /\ (c.tree_size - 1) \div size \in Nat
    OBVIOUS
  <2>2. st = (from \div size) * size \/ st = ((c.tree_size - 1) \div size) * size
    BY Zenon
  <2> QED BY <1>1, <2>1, <2>2, Zenon
<1> HIDE DEF st, h, view
<1>5. PICK d \in Nat : st = d * 2^g
  BY <1>4
<1>6. /\ level - 1 \in Nat /\ (level - 1) + 1 = level /\ (level - 1) + 1 <= g /\ g \in Nat
      /\ level \in 0..h /\ level - 1 \in 0..h /\ i \in Nat \ {0}
  BY <1>1, <1>2 DEF h
<1> DEFINE l == level - 1
<1>7. view.levels[level] = tile(level) /\ view.levels[level - 1] = tile(level - 1)
  BY <1>3, <1>6, Zenon
<1>8. st + i * 2^level <= c.tree_size
  BY <1>3 DEF view
<1>9. ASSUME NEW k \in Nat, k + 1 = level
      PROVE  tile(level)[i] = InteriorHash(tile(k)[2 * i - 1], tile(k)[2 * i])
  <2>1. k + 1 <= g /\ i <= Shift(size, k + 1) /\ st + i * 2^(k + 1) <= c.tree_size
    BY <1>6, <1>8, <1>9
  <2>2. c.tree_size \in Nat /\ g \in Nat
    BY <1>6
  <2>3. OverChildren(k, st, size, i)
    BY <1>1, <1>5, <1>6, <2>1, <2>2, SubtreeView
  <2> QED BY <1>9, <2>3, Zenon DEF OverChildren
<1>10. tile(level)[i] = InteriorHash(tile(level - 1)[2 * i - 1], tile(level - 1)[2 * i])
  BY <1>6, <1>9, Zenon
<1> QED BY <1>7, <1>10, Zenon DEF view, ShownOver

\* The fields of what is shown of a consistency proof.
LEMMA VizFields ==
    ASSUME NEW a, NEW b, NEW v, NEW r, r = [oldRoot |-> a, newRoot |-> b, verified |-> v]
    PROVE  r.oldRoot = a /\ r.newRoot = b /\ r.verified = v
  OBVIOUS

\* The dashboard shows the roots of any two sizes under a checkpoint as consistent.
LEMMA ConsistencyShown ==
    ASSUME NEW n \in Nat, n <= TreeSize, TreeSize \in Nat, RowsHold(tree_nodes, AllHashes, n),
           NEW new \in 0..n, NEW old \in 0..new
    PROVE  LET r == handleVizConsistency(old, new)
           IN  r.verified /\ r.oldRoot = MTH(old, Hashes(old)) /\ r.newRoot = MTH(new, Hashes(new))
<1> DEFINE r == handleVizConsistency(old, new)
           path == ConsistencyProofFromNodes(old, new, tree_nodes)
           a == RootFromNodes(old, tree_nodes)
           b == RootFromNodes(new, tree_nodes)
<1>1. old \in 0..n /\ old \in Nat /\ old <= TreeSize /\ new \in Nat /\ new <= TreeSize
  OBVIOUS
<1>2. a = MTH(old, AllHashes) /\ b = MTH(new, AllHashes)
  BY <1>1, RootFromRows
<1>3. MTH(old, AllHashes) = MTH(old, Hashes(old)) /\ MTH(new, AllHashes) = MTH(new, Hashes(new))
  BY <1>1, PrefixHash
<1>4. VerifyConsistency(old, new, path, MTH(old, AllHashes), MTH(new, AllHashes))
  BY ConsistencyProofVerifies
<1>5. handleConsistencyProof(old, new) = [proof |-> path, old_root |-> a, new_root |-> b]
  BY Zenon DEF handleConsistencyProof
<1> HIDE DEF path, a, b
<1>6. /\ handleConsistencyProof(old, new).proof = path
      /\ handleConsistencyProof(old, new).old_root = a /\ handleConsistencyProof(old, new).new_root = b
  BY <1>5
<1>7. r = [oldRoot |-> a, newRoot |-> b, verified |-> VerifyConsistency(old, new, path, a, b)]
  BY <1>6, Zenon DEF handleVizConsistency
<1> HIDE DEF r
<1>8. r.oldRoot = a /\ r.newRoot = b /\ r.verified = VerifyConsistency(old, new, path, a, b)
  BY ONLY <1>7, VizFields, Zenon
<1>9. VerifyConsistency(old, new, path, a, b)
  BY <1>2, <1>4, Zenon
<1>10. r.verified
  BY ONLY <1>8, <1>9, Zenon
<1>11. r.oldRoot = MTH(old, Hashes(old)) /\ r.newRoot = MTH(new, Hashes(new))
  BY ONLY <1>2, <1>3, <1>8, Zenon
<1> QED BY ONLY <1>10, <1>11, Zenon DEF r

\* The proof that the dashboard shows, from the top down and by its sides.
LEMMA ProofShown ==
    ASSUME NEW c, c.tree_size \in Nat \ {0}, c.tree_size <= TreeSize, TreeSize \in Nat,
           RowsHold(tree_nodes, AllHashes, c.tree_size), c.root_hash = MTH(c.tree_size, AllHashes),
           NEW idx \in 0..(c.tree_size - 1)
    PROVE  LET v    == handleVizProof(idx, c)
               leaf == LeafHash(log_entries[idx].entry_data)
           IN  /\ walkProofRecursive(idx, c.tree_size, leaf, v.proofPath) = <<v.rootHash, Len(v.proofPath)>>
               /\ IsPowerOfTwo(c.tree_size) => followSides(leaf, v) = v.rootHash
<1> DEFINE n     == c.tree_size
           v     == handleVizProof(idx, c)
           path  == InclusionProof(idx, n, AllHashes)
           leaf  == LeafHash(log_entries[idx].entry_data)
           sides == [i \in 1..Len(path) |-> IF Shift(idx, i - 1) % 2 = 0 THEN "right" ELSE "left"]
<1>1. n \in 1..n /\ idx \in 0..(TreeSize - 1)
  OBVIOUS
<1>2. InclusionProofFromNodes(idx, n, tree_nodes) = path
  BY <1>1, ProofFromRows
<1>3. AllHashes[idx] = leaf
  BY <1>1 DEF AllHashes, Hashes
<1>4. v = [proofPath |-> path, proofSides |-> sides, rootHash |-> c.root_hash]
  BY <1>2, Zenon DEF handleVizProof
<1>5. Len(path) \in Nat
  <2>1. 2^n \in Nat /\ n <= 2^n
    BY PowNat, PowAbove
  <2>2. Len(path) \in 0..n
    BY <2>1, InclusionProofShort
  <2> QED BY <2>2
<1>6. walkProofRecursive(idx, n, AllHashes[idx], path) = <<MTH(n, AllHashes), Len(path)>>
  BY WalkRecursiveLeads
<1> HIDE DEF n, v, path, leaf, sides
<1>7. v.proofPath = path /\ v.proofSides = sides /\ v.rootHash = c.root_hash
  BY <1>4
<1>8. ASSUME IsPowerOfTwo(n) PROVE followSides(leaf, v) = MTH(n, AllHashes)
  <2>1. PICK h \in 0..n : n = 2^h
    BY <1>8 DEF IsPowerOfTwo
  <2>2. h \in Nat /\ idx \in 0..(2^h - 1)
    BY <2>1 DEF n
  <2>3. PICK F : BitsLead(F, idx) /\ <<0, 2^h>> \in F
    BY <2>2, BlocksLead
  <2>4. \A i \in 1..Len(v.proofPath) :
            v.proofSides[i] = IF Shift(idx, i - 1) % 2 = 0 THEN "right" ELSE "left"
    BY <1>7, Zenon DEF sides
  <2>5. PICK w : WalksUp(w, idx, leaf, v.proofPath) /\ followSides(leaf, v) = w[Len(v.proofPath)]
    BY <1>5, <1>7, <2>4, FollowSidesIs
  <2>6. WalksUp(w, idx, AllHashes[idx], path)
    BY <1>3, <1>7, <2>5
  <2>7. w[Len(path)] = MTH(n, AllHashes)
    <3>1. n \in Nat \ {0} /\ idx \in 0..(n - 1) /\ <<0, n>> \in F
      BY <2>1, <2>3 DEF n
    <3> QED BY <2>3, <2>6, <3>1, SidesLead DEF path
  <2> QED BY <1>7, <2>5, <2>7
<1>9. c.root_hash = MTH(n, AllHashes)
  BY DEF n
<1> QED BY <1>3, <1>6, <1>7, <1>8, <1>9, Zenon DEF n, v, leaf

\* What holds of a saved checkpoint is enough for the dashboard.
LEMMA DashboardHolds ==
    ASSUME IInv, SerialInv, faults = 0, TreeSize < 2^(MaxLevel + 1)
    PROVE  DashboardShowsTree
<1>1. ASSUME NEW n \in 1..TreeSize, NEW c \in Saved, n <= c.tree_size, NEW m \in 1..n
      PROVE  LET r == handleVizConsistency(m, n)
             IN  r.verified /\ r.oldRoot = MTH(m, Hashes(m)) /\ r.newRoot = MTH(n, Hashes(n))
  <2>1. /\ c.tree_size \in Nat /\ c.tree_size <= TreeSize /\ TreeSize \in Nat
        /\ RowsHold(tree_nodes, AllHashes, c.tree_size)
    BY SavedRows
  <2>2. n \in 0..c.tree_size /\ m \in 0..n
    BY <1>1, <2>1
  <2> QED BY <2>1, <2>2, ConsistencyShown, Zenon
<1>2. ASSUME NEW c \in Saved, NEW from \in 0..c.tree_size, NEW param \in {0, 4, 8, 16},
             NEW level \in 1..Log2(subtreeSizeOf(param)), NEW i \in 1..subtreeSizeOf(param),
             i <= Shift(subtreeSizeOf(param), level),
             handleVizSubtree(from, param, c).start + i * 2^level <= c.tree_size
      PROVE  ShownOver(handleVizSubtree(from, param, c), level, i)
  <2>1. /\ c.tree_size \in Nat \ {0} /\ c.tree_size <= TreeSize /\ TreeSize \in Nat
        /\ RowsHold(tree_nodes, AllHashes, c.tree_size)
    BY SavedRows
  <2>2. subtreeSizeOf(param) \in {4, 8, 16}
    BY DEF subtreeSizeOf
  <2> QED BY <1>2, <2>1, <2>2, SubtreeShown
<1>3. ASSUME NEW c \in Saved, NEW idx \in 0..(c.tree_size - 1)
      PROVE  LET v    == handleVizProof(idx, c)
                 leaf == LeafHash(log_entries[idx].entry_data)
             IN  /\ walkProofRecursive(idx, c.tree_size, leaf, v.proofPath) = <<v.rootHash, Len(v.proofPath)>>
                 /\ IsPowerOfTwo(c.tree_size) => followSides(leaf, v) = v.rootHash
  <2>1. /\ c.tree_size \in Nat \ {0} /\ c.tree_size <= TreeSize /\ TreeSize \in Nat
        /\ RowsHold(tree_nodes, AllHashes, c.tree_size) /\ c.root_hash = MTH(c.tree_size, AllHashes)
    BY SavedRows
  <2> QED BY <2>1, ProofShown, Zenon
<1> DEFINE covered == {n \in 1..TreeSize : \E c \in Saved : n <= c.tree_size}
<1>4. \A n \in covered : \A m \in 1..n :
          LET r == handleVizConsistency(m, n)
          IN  r.verified /\ r.oldRoot = MTH(m, Hashes(m)) /\ r.newRoot = MTH(n, Hashes(n))
  BY <1>1, Zenon
<1>5. ASSUME NEW c \in Saved
      PROVE  \A from \in 0..c.tree_size, param \in {0, 4, 8, 16} :
                LET view == handleVizSubtree(from, param, c)
                    size == subtreeSizeOf(param)
                IN  \A level \in 1..Log2(size), i \in 1..size :
                       (i <= Shift(size, level) /\ view.start + i * 2^level <= c.tree_size) =>
                           view.levels[level][i] =
                               InteriorHash(view.levels[level - 1][2 * i - 1], view.levels[level - 1][2 * i])
  BY <1>2, Zenon DEF ShownOver
<1> QED BY ONLY <1>3, <1>4, <1>5, Zenon DEF DashboardShowsTree

\* What the handlers of internal/admin draw of such a log is its tree: handleVizConsistency
\* the roots of any two sizes under a checkpoint, verified; handleVizSubtree each node over
\* its children; handleVizProof a path to the signed root, whose sides are right in a
\* complete tree.
THEOREM SerialDashboard ==
    SerialSpec => []((faults = 0 /\ TreeSize < 2^(MaxLevel + 1)) => DashboardShowsTree)
<1>1. (IInv /\ SerialInv) => ((faults = 0 /\ TreeSize < 2^(MaxLevel + 1)) => DashboardShowsTree)
  BY DashboardHolds
<1> QED
  BY <1>1, SerialInductive, PTL

=============================================================================
