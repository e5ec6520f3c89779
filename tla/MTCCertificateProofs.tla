------------------------ MODULE MTCCertificateProofs ------------------------
(***************************************************************************)
(* Proofs about MTCFormat and MTCCertificate: the wire format of a proof   *)
(* is read back as it was written; the invariant CertIInv of the orders    *)
(* and the landmarks, on top of the log's; and from both what the          *)
(* verifiers of a certificate find.                                        *)
(***************************************************************************)
EXTENDS MTCCertificate, SerialLogProofs, SequenceTheorems

-----------------------------------------------------------------------------
(* Sequences that are made of pieces.                                      *)

\* Where the elements of two sequences are in the one after the other.
Joined(z, x, y, S) ==
    /\ z \in Seq(S) /\ Len(z) = Len(x) + Len(y)
    /\ \A m \in 1..Len(x) : z[m] = x[m]
    /\ \A m \in 1..Len(y) : z[Len(x) + m] = y[m]

\* The concatenation of two sequences.
LEMMA ConcatIs ==
    ASSUME NEW S, NEW x \in Seq(S), NEW y \in Seq(S)
    PROVE  Joined(x \o y, x, y, S) /\ <<>> \o x = x
<1>1. /\ x \o y \in Seq(S) /\ Len(x \o y) = Len(x) + Len(y)
      /\ \A i \in 1..(Len(x) + Len(y)) : (x \o y)[i] = IF i <= Len(x) THEN x[i] ELSE y[i - Len(x)]
  BY ConcatProperties
<1>2. <<>> \o x = x
  BY ConcatEmptySeq
<1>3. Len(x) \in Nat /\ Len(y) \in Nat
  OBVIOUS
<1>4. ASSUME NEW m \in 1..Len(y) PROVE (x \o y)[Len(x) + m] = y[m]
  <2>1. Len(x) + m \in 1..(Len(x) + Len(y)) /\ ~ (Len(x) + m <= Len(x)) /\ (Len(x) + m) - Len(x) = m
    BY <1>3
  <2> QED BY <1>1, <2>1
<1>5. ASSUME NEW m \in 1..Len(x) PROVE (x \o y)[m] = x[m]
  BY <1>1, <1>3
<1> QED
  BY <1>1, <1>2, <1>4, <1>5 DEF Joined

\* A part of a sequence that has the elements of another one.
LEMMA SubSeqReads ==
    ASSUME NEW S, NEW data \in Seq(S), NEW y \in Seq(S), NEW b \in Nat, NEW e \in Int,
           b >= 1, e = b + Len(y) - 1, e <= Len(data),
           \A k \in 1..Len(y) : data[b + k - 1] = y[k]
    PROVE  SubSeq(data, b, e) = y
<1> DEFINE x == SubSeq(data, b, e)
<1>1. Len(y) \in Nat /\ Len(data) \in Nat
  OBVIOUS
<1>2. \A i \in b..e : data[i] \in S
  BY <1>1
<1>3. /\ x \in Seq(S)
      /\ Len(x) = IF b <= e THEN e - b + 1 ELSE 0
      /\ \A i \in 1..(e - b + 1) : x[i] = data[b + i - 1]
  BY <1>2, SubSeqProperties
<1> HIDE DEF x
<1>4. Len(x) = Len(y)
  BY <1>1, <1>3
<1>5. \A i \in 1..Len(x) : x[i] = y[i]
  <2>1. e - b + 1 = Len(y)
    BY <1>1
  <2> QED BY <1>3, <1>4, <2>1
<1>6. x = y
  BY <1>3, <1>4, <1>5, SeqEqual
<1> QED
  BY <1>6 DEF x

\* f has the pieces of s put together, the first j of them in f[j].
Pieces(f, s, S) ==
    /\ f[0] = <<>> /\ FlattenSeq(s) = f[Len(s)]
    /\ \A j \in 0..Len(s) : f[j] \in Seq(S)
    /\ \A j \in 1..Len(s) : f[j] = f[j - 1] \o s[j]

LEMMA FlattenPieces ==
    ASSUME NEW S, NEW s \in Seq(Seq(S))
    PROVE  \E f : Pieces(f, s, S)
<1> DEFINE n == Len(s)
           h == CHOOSE h : h = [i \in 1..n |-> IF i = 1 THEN s[i] ELSE h[i - 1] \o s[i]]
           op == [i \in 1..n |-> [how |-> "concat", arg |-> s[i]]]
           g == [i \in 0..n |-> IF i = 0 THEN <<>> ELSE h[i]]
<1>0. n \in Nat /\ \A i \in 1..n : s[i] \in Seq(S)
  OBVIOUS
<1>1. PICK f : ChainOf(f, n, <<>>, op)
  <2> HIDE DEF op, n
  <2> QED BY <1>0, ChainExists
<1>2. f[0] = <<>> /\ \A i \in 1..n : f[i] = f[i - 1] \o s[i]
  <2>1. f[0] = <<>>
    BY <1>0, <1>1 DEF ChainOf
  <2>2. ASSUME NEW i \in 1..n PROVE f[i] = f[i - 1] \o s[i]
    <3>1. i \in 0..n /\ i # 0
      BY <1>0
    <3>2. f[i] = ChainStep(op[i], f[i - 1])
      BY <1>1, <3>1 DEF ChainOf
    <3>3. ChainStep(op[i], f[i - 1]) = f[i - 1] \o s[i]
      BY DEF ChainStep
    <3> QED BY <3>2, <3>3
  <2> QED BY <2>1, <2>2
<1> HIDE DEF op
<1> DEFINE e == [i \in 1..n |-> f[i]]
<1>3. ASSUME NEW i \in 1..n
      PROVE  e[i] = IF i = 1 THEN s[i] ELSE e[i - 1] \o s[i]
  <2>1. CASE i = 1
    <3>0. i - 1 = 0
      BY <2>1
    <3>1. f[i] = f[i - 1] \o s[i]
      BY <1>2, Zenon
    <3>2. <<>> \o s[i] = s[i]
      BY <1>0, ConcatIs
    <3>3. f[i] = s[i]
      BY <1>2, <3>0, <3>1, <3>2, Zenon
    <3> QED BY <2>1, <3>3
  <2>2. CASE i # 1
    <3>1. i - 1 \in 1..n
      BY <1>0, <2>2
    <3> QED BY <1>2, <2>2, <3>1
  <2> QED BY <2>1, <2>2
<1>4. e = [i \in 1..n |-> IF i = 1 THEN s[i] ELSE e[i - 1] \o s[i]]
  <2>1. e = [i \in 1..n |-> e[i]]
    OBVIOUS
  <2> HIDE DEF e
  <2> QED BY <1>3, <2>1
<1>5. h = [i \in 1..n |-> IF i = 1 THEN s[i] ELSE h[i - 1] \o s[i]]
  <2> HIDE DEF e
  <2> QED BY <1>4, Zenon
<1>6. FlattenSeq(s) = IF n = 0 THEN s ELSE h[n]
  BY Zenon DEF FlattenSeq
<1> HIDE DEF h
<1>7. g[0] = <<>> /\ \A j \in 1..n : g[j] = g[j - 1] \o s[j]
  <2>1. ASSUME NEW j \in 1..n PROVE g[j] = g[j - 1] \o s[j]
    <3>1. CASE j = 1
      <4>1. g[j] = s[j] /\ g[j - 1] = <<>>
        BY <1>0, <1>5, <3>1
      <4>2. s[j] = <<>> \o s[j]
        BY <1>0, ConcatIs
      <4> QED BY <4>1, <4>2
    <3>2. CASE j # 1
      <4>1. j - 1 \in 1..n /\ j \in 0..n /\ j # 0 /\ j - 1 \in 0..n /\ j - 1 # 0
        BY <1>0, <3>2
      <4>2. h[j] = h[j - 1] \o s[j]
        BY <1>5, <3>2
      <4> QED BY <4>1, <4>2
    <3> QED BY <3>1, <3>2
  <2>2. g[0] = <<>>
    BY <1>0
  <2> HIDE DEF g
  <2> QED BY <2>1, <2>2
<1>8. FlattenSeq(s) = g[n]
  <2>1. CASE n = 0
    <3>1. s = <<>>
      BY <2>1
    <3> QED BY <1>6, <2>1, <3>1
  <2>2. CASE n # 0
    BY <1>0, <1>6, <2>2
  <2> QED BY <2>1, <2>2
<1> HIDE DEF g
<1>9. \A j \in 0..n : g[j] \in Seq(S)
  <2> DEFINE T == {j \in 0..n : g[j] \notin Seq(S)}
  <2> SUFFICES ASSUME T # {} PROVE FALSE
    OBVIOUS
  <2>1. PICK j \in T : \A k \in T : j <= k
    <3>1. T \subseteq Nat
      OBVIOUS
    <3> HIDE DEF T
    <3> QED BY <3>1, LeastNatural
  <2>2. j \in 0..n /\ g[j] \notin Seq(S)
    BY <2>1
  <2>3. CASE j = 0
    <3>1. <<>> \in Seq(S)
      OBVIOUS
    <3> QED BY <1>7, <2>2, <2>3, <3>1, Zenon
  <2>4. CASE j # 0
    <3>1. j \in 1..n /\ j - 1 \in 0..n /\ j - 1 \notin T
      <4> HIDE DEF T
      <4> QED BY <1>0, <2>1, <2>2, <2>4
    <3>2. g[j - 1] \in Seq(S) /\ g[j] = g[j - 1] \o s[j] /\ s[j] \in Seq(S)
      BY <1>0, <1>7, <3>1
    <3> QED BY <2>2, <3>2, ConcatIs DEF Joined
  <2> QED BY <2>3, <2>4
<1>10. Pieces(g, s, S)
  BY <1>7, <1>8, <1>9, Zenon DEF Pieces
<1> QED
  BY <1>10

\* The whole begins with the first j pieces, and the last of them is after the others.
InWhole(f, s, S, j) ==
    /\ f[j] \in Seq(S) /\ Len(f[j]) <= Len(FlattenSeq(s))
    /\ \A m \in 1..Len(f[j]) : FlattenSeq(s)[m] = f[j][m]
    /\ j # 0 => /\ Len(f[j]) = Len(f[j - 1]) + Len(s[j])
                /\ \A m \in 1..Len(s[j]) : FlattenSeq(s)[Len(f[j - 1]) + m] = s[j][m]

LEMMA PiecesInWhole ==
    ASSUME NEW S, NEW s \in Seq(Seq(S)), NEW f, Pieces(f, s, S)
    PROVE  \A j \in 0..Len(s) : InWhole(f, s, S, j)
<1> SUFFICES ASSUME NEW j \in 0..Len(s) PROVE InWhole(f, s, S, j)
  OBVIOUS
<1> DEFINE n == Len(s)
           Good(i) == /\ Len(f[i]) <= Len(f[n])
                      /\ \A m \in 1..Len(f[i]) : f[n][m] = f[i][m]
           T == {n - i : i \in {k \in 0..n : ~Good(k)}}
<1>0. n \in Nat /\ \A i \in 1..n : s[i] \in Seq(S)
  OBVIOUS
<1>1. \A i \in 0..n : f[i] \in Seq(S)
  BY DEF Pieces
<1>2. ASSUME NEW k \in 0..n, NEW i \in 1..n, k = i - 1
      PROVE  /\ Len(f[i]) = Len(f[k]) + Len(s[i])
             /\ \A m \in 1..Len(f[k]) : f[i][m] = f[k][m]
             /\ \A m \in 1..Len(s[i]) : f[i][Len(f[k]) + m] = s[i][m]
  <2>1. f[k] \in Seq(S) /\ s[i] \in Seq(S) /\ f[i] = f[k] \o s[i]
    BY <1>0, <1>1, <1>2, Zenon DEF Pieces
  <2>2. ASSUME NEW x \in Seq(S), NEW y \in Seq(S), NEW z, z = x \o y
        PROVE  /\ Len(z) = Len(x) + Len(y)
               /\ \A m \in 1..Len(x) : z[m] = x[m]
               /\ \A m \in 1..Len(y) : z[Len(x) + m] = y[m]
    BY <2>2, ConcatIs DEF Joined
  <2> DEFINE x == f[k]
             y == s[i]
             z == f[i]
  <2>3. x \in Seq(S) /\ y \in Seq(S) /\ z = x \o y
    BY <2>1
  <2> HIDE DEF x, y, z
  <2>4. /\ Len(z) = Len(x) + Len(y)
        /\ \A m \in 1..Len(x) : z[m] = x[m]
        /\ \A m \in 1..Len(y) : z[Len(x) + m] = y[m]
    BY <2>2, <2>3
  <2> QED BY <2>4 DEF x, y, z
<1>3. T = {}
  <2> SUFFICES ASSUME T # {} PROVE FALSE
    OBVIOUS
  <2>1. PICK t \in T : \A u \in T : t <= u
    <3>1. T \subseteq Nat
      BY <1>0
    <3> HIDE DEF T
    <3> QED BY <3>1, LeastNatural
  <2>2. PICK i \in 0..n : ~Good(i) /\ t = n - i
    OBVIOUS
  <2>3. i # n
    BY <1>0, <1>1, <2>2
  <2>4. i + 1 \in 1..n /\ i + 1 \in 0..n /\ n - (i + 1) < t /\ (i + 1) - 1 = i /\ n - (i + 1) \in Nat
    BY <1>0, <2>2, <2>3
  <2>5. Good(i + 1)
    <3> SUFFICES ASSUME ~Good(i + 1) PROVE FALSE
      OBVIOUS
    <3> HIDE DEF Good
    <3>1. n - (i + 1) \in T
      BY <2>4
    <3> HIDE DEF T
    <3> QED BY <1>0, <2>1, <2>2, <2>4, <3>1
  <2>6. /\ Len(f[i + 1]) = Len(f[i]) + Len(s[i + 1])
        /\ \A m \in 1..Len(f[i]) : f[i + 1][m] = f[i][m]
    BY <1>2, <2>4, Zenon
  <2>7. Len(f[i]) \in Nat /\ Len(s[i + 1]) \in Nat /\ Len(f[n]) \in Nat
    <3>1. n \in 0..n /\ i \in 0..n
      BY <1>0, <2>2
    <3>2. f[i] \in Seq(S) /\ s[i + 1] \in Seq(S) /\ f[n] \in Seq(S)
      BY <1>0, <1>1, <2>4, <3>1, Zenon
    <3>3. ASSUME NEW x \in Seq(S) PROVE Len(x) \in Nat
      OBVIOUS
    <3> QED BY ONLY <3>2, <3>3, Zenon
  <2> DEFINE a == f[i]
             b == f[i + 1]
             c == f[n]
             d == s[i + 1]
  <2>8. /\ Len(b) <= Len(c) /\ (\A m \in 1..Len(b) : c[m] = b[m])
        /\ Len(b) = Len(a) + Len(d) /\ (\A m \in 1..Len(a) : b[m] = a[m])
        /\ Len(a) \in Nat /\ Len(d) \in Nat /\ Len(c) \in Nat
    BY ONLY <2>5, <2>6, <2>7, Zenon
  <2>9. Len(a) <= Len(c) /\ \A m \in 1..Len(a) : c[m] = a[m]
    <3> HIDE DEF a, b, c, d, n, T
    <3> QED BY ONLY <2>8
  <2>10. Good(i)
    <3> HIDE DEF n
    <3> QED BY ONLY <2>9, Zenon
  <2> QED BY <2>2, <2>10
<1>4. Good(j)
  <2> HIDE DEF Good
  <2> QED BY <1>3
<1>5. FlattenSeq(s) = f[n]
  BY DEF Pieces
<1>6. ASSUME j # 0
      PROVE  /\ Len(f[j]) = Len(f[j - 1]) + Len(s[j])
             /\ \A m \in 1..Len(s[j]) : f[n][Len(f[j - 1]) + m] = s[j][m]
  <2>1. j \in 1..n /\ j - 1 \in 0..n
    BY <1>0, <1>6
  <2>2. /\ Len(f[j]) = Len(f[j - 1]) + Len(s[j])
        /\ \A m \in 1..Len(s[j]) : f[j][Len(f[j - 1]) + m] = s[j][m]
    BY <1>2, <2>1, Zenon
  <2>3. Len(f[j - 1]) \in Nat /\ Len(s[j]) \in Nat
    BY <1>0, <1>1, <2>1
  <2> DEFINE a == f[j - 1]
             b == f[j]
             c == f[n]
             d == s[j]
  <2>4. /\ (\A m \in 1..Len(b) : c[m] = b[m])
        /\ Len(b) = Len(a) + Len(d) /\ (\A m \in 1..Len(d) : b[Len(a) + m] = d[m])
        /\ Len(a) \in Nat /\ Len(d) \in Nat
    BY ONLY <1>4, <2>2, <2>3, Zenon
  <2>5. Len(b) = Len(a) + Len(d) /\ \A m \in 1..Len(d) : c[Len(a) + m] = d[m]
    <3> HIDE DEF a, b, c, d, n, T
    <3>1. ASSUME NEW m \in 1..Len(d) PROVE c[Len(a) + m] = d[m]
      <4>1. Len(a) + m \in 1..Len(b)
        BY ONLY <2>4, m \in 1..Len(d)
      <4> QED BY ONLY <2>4, <4>1, m \in 1..Len(d), Zenon
    <3> QED BY ONLY <2>4, <3>1, Zenon
  <2> QED BY ONLY <2>5, Zenon
<1> QED
  BY <1>1, <1>4, <1>5, <1>6, Zenon DEF InWhole

\* Pieces that are all as long as each other.
LEMMA FlattenUniform ==
    ASSUME NEW S, NEW s \in Seq(Seq(S)), NEW K \in Nat, \A i \in 1..Len(s) : Len(s[i]) = K
    PROVE  /\ FlattenSeq(s) \in Seq(S) /\ Len(FlattenSeq(s)) = Len(s) * K
           /\ \A i \in 1..Len(s), k \in 1..K : FlattenSeq(s)[(i - 1) * K + k] = s[i][k]
<1> DEFINE n == Len(s)
           F == FlattenSeq(s)
<1>0. n \in Nat
  OBVIOUS
<1>1. PICK f : Pieces(f, s, S)
  BY FlattenPieces
<1>2. ASSUME NEW j \in 0..n
      PROVE  /\ f[j] \in Seq(S)
             /\ j # 0 => /\ Len(f[j]) = Len(f[j - 1]) + Len(s[j])
                         /\ \A m \in 1..Len(s[j]) : F[Len(f[j - 1]) + m] = s[j][m]
  <2>1. InWhole(f, s, S, j)
    BY <1>1, PiecesInWhole
  <2> QED BY <2>1, Zenon DEF InWhole
<1>3. f[0] = <<>> /\ F = f[n]
  BY <1>1 DEF Pieces
<1> HIDE DEF F
<1> DEFINE l == [j \in 0..n |-> Len(f[j])]
           T == {j \in 0..n : l[j] # j * K}
<1>4. l[0] = 0 /\ (\A j \in 1..n : l[j] = l[j - 1] + K) /\ \A j \in 0..n : l[j] \in Nat
  <2>1. l[0] = 0
    BY <1>0, <1>3
  <2>2. ASSUME NEW j \in 1..n PROVE l[j] = l[j - 1] + K
    <3>1. j \in 0..n /\ j - 1 \in 0..n /\ j # 0
      BY <1>0
    <3>2. Len(f[j]) = Len(f[j - 1]) + Len(s[j])
      BY <1>2, <3>1, Zenon
    <3> QED BY <3>1, <3>2
  <2>3. ASSUME NEW j \in 0..n PROVE l[j] \in Nat
    <3>1. f[j] \in Seq(S)
      BY <1>2
    <3>2. Len(f[j]) \in Nat
      BY <3>1, LenProperties
    <3> QED BY <3>2
  <2> HIDE DEF l
  <2> QED BY <2>1, <2>2, <2>3
<1> HIDE DEF l
<1>5. T = {}
  <2> SUFFICES ASSUME T # {} PROVE FALSE
    OBVIOUS
  <2>1. PICK j \in T : \A i \in T : j <= i
    <3>1. T \subseteq Nat
      BY <1>0
    <3> HIDE DEF T
    <3> QED BY <3>1, LeastNatural
  <2>2. j \in 0..n /\ l[j] # j * K
    BY <2>1
  <2>3. j # 0
    BY <1>4, <2>2
  <2>4. j \in 1..n /\ j - 1 \in 0..n /\ j - 1 < j
    BY <1>0, <2>2, <2>3
  <2>5. l[j - 1] = (j - 1) * K
    BY <1>0, <2>1, <2>4
  <2>6. l[j] = (j - 1) * K + K
    BY <1>4, <2>4, <2>5
  <2>7. (j - 1) * K + K = j * K
    BY <2>4
  <2> QED BY <2>2, <2>6, <2>7
<1>6. Len(F) = n * K
  <2>1. l[n] = Len(F)
    BY <1>0, <1>3 DEF l
  <2> QED BY <1>0, <1>5, <2>1
<1>7. ASSUME NEW i \in 1..n, NEW k \in 1..K PROVE F[(i - 1) * K + k] = s[i][k]
  <2>1. i \in 0..n /\ i - 1 \in 0..n /\ i # 0
    BY <1>0
  <2>2. Len(s[i]) = K
    OBVIOUS
  <2>3. F[Len(f[i - 1]) + k] = s[i][k]
    BY <1>2, <2>1, <2>2, Zenon
  <2>4. Len(f[i - 1]) = (i - 1) * K
    <3>1. l[i - 1] = (i - 1) * K
      BY <1>5, <2>1
    <3>2. l[i - 1] = Len(f[i - 1])
      BY <2>1 DEF l
    <3> QED BY <3>1, <3>2, Zenon
  <2> QED BY <2>3, <2>4, Zenon
<1>8. F \in Seq(S)
  <2>1. n \in 0..n
    BY <1>0
  <2>2. f[n] \in Seq(S)
    BY <1>2, <2>1, Zenon
  <2> QED BY <1>3, <2>2, Zenon
<1> QED
  BY <1>6, <1>7, <1>8 DEF F

-----------------------------------------------------------------------------
(* The wire format of a proof.                                             *)

\* Where the signature at off has its second length, and where the next one is.
sigAt(data, off) == off + 1 + data[off]
next(data, off)  == sigAt(data, off) + 1 + data[sigAt(data, off)]

\* What unmarshalSignatures reads at off: rest has what it reads further on.
ReadAt(data, rest, off) ==
    IF off = Len(data) + 1 THEN <<>>
    ELSE IF /\ sigAt(data, off) \in (off + 2)..Len(data)
            /\ next(data, off) \in (sigAt(data, off) + 1)..(Len(data) + 1)
    THEN <<[CosignerID |-> SubSeq(data, off + 1, sigAt(data, off) - 1),
            Signature  |-> SubSeq(data, sigAt(data, off) + 1, next(data, off) - 1)]>>
         \o rest[next(data, off)]
    ELSE <<Truncated>>

\* unmarshalSignatures ends for all data: every signature is read from fewer
\* bytes than the one before it.
LEMMA UnmarshalSignaturesIs ==
    ASSUME NEW data, Len(data) \in Nat
    PROVE  \E from : /\ from = [off \in 1..(Len(data) + 1) |-> ReadAt(data, from, off)]
                     /\ unmarshalSignatures(data) = from[1]
<1> DEFINE N == Len(data) + 1
           Reads(f, k) == f = [off \in (N - k)..N |-> ReadAt(data, f, off)]
           T == {k \in 0..Len(data) : ~ \E f : Reads(f, k)}
<1>0. N \in Nat /\ N >= 1 /\ Len(data) = N - 1
  OBVIOUS
<1>1. \E f : Reads(f, N - 1)
  <2> SUFFICES ASSUME ~ \E f : Reads(f, N - 1) PROVE FALSE
    OBVIOUS
  <2>1. N - 1 \in T
    OBVIOUS
  <2>2. PICK k \in T : \A j \in T : k <= j
    <3>1. T \subseteq Nat /\ T # {}
      BY <2>1
    <3> HIDE DEF T
    <3> QED BY <3>1, LeastNatural
  <2>3. k \in 0..Len(data) /\ ~ \E f : Reads(f, k)
    BY <2>2
  <2>4. k # 0
    <3> SUFFICES ASSUME k = 0 PROVE FALSE
      OBVIOUS
    <3> DEFINE g == [off \in N..N |-> <<>>]
    <3>2. ASSUME NEW off \in (N - k)..N PROVE ReadAt(data, g, off) = <<>>
      <4>1. off = Len(data) + 1
        BY <1>0
      <4> QED BY <4>1, Zenon DEF ReadAt
    <3>3. N - k = N
      BY <1>0
    <3>4. g = [off \in (N - k)..N |-> ReadAt(data, g, off)]
      <4>1. g = [off \in (N - k)..N |-> <<>>]
        BY <3>3
      <4> HIDE DEF g, N
      <4> QED BY <3>2, <4>1
    <3> QED BY <2>3, <3>4
  <2>5. k - 1 \in 0..Len(data) /\ k - 1 \notin T
    <3> HIDE DEF T
    <3> QED BY <1>0, <2>2, <2>3, <2>4
  <2>6. PICK f : Reads(f, k - 1)
    BY <2>5
  <2> DEFINE g == [off \in (N - k)..N |-> IF off = N - k THEN ReadAt(data, f, off) ELSE f[off]]
  <2>7. ASSUME NEW off \in (N - k)..N PROVE g[off] = ReadAt(data, g, off)
    <3>1. ReadAt(data, g, off) = ReadAt(data, f, off)
      <4>1. CASE /\ sigAt(data, off) \in (off + 2)..Len(data)
                 /\ next(data, off) \in (sigAt(data, off) + 1)..(Len(data) + 1)
        <5> DEFINE x == next(data, off)
                   y == sigAt(data, off)
        <5>1. x \in (N - k)..N /\ x # N - k
          <6>1. y \in Int /\ x \in Int /\ y >= off + 2 /\ x >= y + 1 /\ x <= N
            BY <4>1, <1>0
          <6> HIDE DEF x, y
          <6> QED BY <1>0, <2>3, <6>1
        <5>2. g[x] = f[x]
          <6> HIDE DEF x
          <6> QED BY <5>1
        <5>3. g[next(data, off)] = f[next(data, off)]
          BY <5>2
        <5> HIDE DEF g, N
        <5> QED BY <4>1, <5>3, Zenon DEF ReadAt
      <4>2. CASE ~ (/\ sigAt(data, off) \in (off + 2)..Len(data)
                    /\ next(data, off) \in (sigAt(data, off) + 1)..(Len(data) + 1))
        BY <4>2, Zenon DEF ReadAt
      <4> QED BY <4>1, <4>2
    <3>2. CASE off = N - k
      BY <3>1, <3>2
    <3>3. CASE off # N - k
      <4>1. off \in (N - (k - 1))..N
        BY <1>0, <2>3, <3>3
      <4>2. f[off] = ReadAt(data, f, off)
        <5> HIDE DEF g, N
        <5> QED BY <2>6, <4>1
      <4> HIDE DEF N
      <4> QED BY <3>1, <3>3, <4>2
    <3> QED BY <3>2, <3>3
  <2>8. Reads(g, k)
    <3>1. g = [off \in (N - k)..N |-> g[off]]
      OBVIOUS
    <3> HIDE DEF g, N
    <3> QED BY <2>7, <3>1
  <2> QED BY <2>3, <2>8
<1> DEFINE from == CHOOSE f : f = [off \in 1..(Len(data) + 1) |-> ReadAt(data, f, off)]
<1>2. \E f : f = [off \in 1..(Len(data) + 1) |-> ReadAt(data, f, off)]
  <2>1. N - (N - 1) = 1
    BY <1>0
  <2> QED BY <1>1, <2>1
<1>3. from = [off \in 1..(Len(data) + 1) |-> ReadAt(data, from, off)]
  BY <1>2, Zenon
<1>4. unmarshalSignatures(data) = from[1]
  BY Zenon DEF unmarshalSignatures, ReadAt, sigAt, next
<1> HIDE DEF from
<1> QED
  BY <1>3, <1>4

\* Signatures whose bytes are of S; a trust anchor ID is not empty.
MTCSignatures(S) == [CosignerID : Seq(S) \ {<<>>}, Signature : Seq(S)]

sigBytes(sig) ==
    <<Len(sig.CosignerID)>> \o sig.CosignerID \o <<Len(sig.Signature)>> \o sig.Signature

\* Where the parts of a signature are in its bytes.
BytesOf(p, id, sig) ==
    /\ Len(p) = Len(id) + Len(sig) + 2
    /\ p[1] = Len(id) /\ \A m \in 1..Len(id) : p[1 + m] = id[m]
    /\ p[Len(id) + 2] = Len(sig) /\ \A m \in 1..Len(sig) : p[Len(id) + 2 + m] = sig[m]

\* The bytes of a signature hold its parts.
LEMMA SignatureBytes ==
    ASSUME NEW S, Nat \subseteq S, NEW sig \in MTCSignatures(S)
    PROVE  sigBytes(sig) \in Seq(S) /\ BytesOf(sigBytes(sig), sig.CosignerID, sig.Signature)
<1> DEFINE id == sig.CosignerID
           sg == sig.Signature
           a == <<Len(id)>>
           b == <<Len(sg)>>
<1>1. id \in Seq(S) /\ sg \in Seq(S)
  BY DEF MTCSignatures
<1>2. Len(id) \in Nat /\ Len(sg) \in Nat
  BY <1>1
<1> DEFINE u == a \o id
           v == u \o b
           p == v \o sg
<1>3. p = sigBytes(sig)
  BY Zenon DEF sigBytes
<1> HIDE DEF id, sg
<1>4. a \in Seq(S) /\ b \in Seq(S) /\ Len(a) = 1 /\ Len(b) = 1 /\ a[1] = Len(id) /\ b[1] = Len(sg)
  <2>1. Len(id) \in S /\ Len(sg) \in S
    BY <1>2
  <2> QED BY <2>1
<1> HIDE DEF a, b
<1>5. u \in Seq(S) /\ Len(u) = 1 + Len(id) /\ u[1] = Len(id) /\ \A m \in 1..Len(id) : u[1 + m] = id[m]
  <2>1. /\ u \in Seq(S) /\ Len(u) = Len(a) + Len(id)
        /\ \A m \in 1..Len(a) : u[m] = a[m]
        /\ \A m \in 1..Len(id) : u[Len(a) + m] = id[m]
    <3>1. Joined(u, a, id, S)
      BY <1>1, <1>4, ConcatIs
    <3> QED BY <3>1, Zenon DEF Joined
  <2> HIDE DEF u
  <2> QED BY <1>4, <2>1
<1> HIDE DEF u
<1>6. /\ v \in Seq(S) /\ Len(v) = 2 + Len(id) /\ v[2 + Len(id)] = Len(sg)
      /\ \A m \in 1..(1 + Len(id)) : v[m] = u[m]
  <2>1. /\ v \in Seq(S) /\ Len(v) = Len(u) + Len(b)
        /\ \A m \in 1..Len(u) : v[m] = u[m]
        /\ \A m \in 1..Len(b) : v[Len(u) + m] = b[m]
    <3>1. Joined(v, u, b, S)
      BY <1>4, <1>5, ConcatIs
    <3> QED BY <3>1, Zenon DEF Joined
  <2> HIDE DEF v
  <2>2. v[Len(u) + 1] = b[1] /\ Len(u) + 1 = 2 + Len(id)
    BY <1>2, <1>4, <1>5, <2>1
  <2> QED BY <1>2, <1>4, <1>5, <2>1, <2>2
<1> HIDE DEF v
<1>7. /\ p \in Seq(S) /\ Len(p) = 2 + Len(id) + Len(sg)
      /\ \A m \in 1..(2 + Len(id)) : p[m] = v[m]
      /\ \A m \in 1..Len(sg) : p[2 + Len(id) + m] = sg[m]
  <2>1. /\ p \in Seq(S) /\ Len(p) = Len(v) + Len(sg)
        /\ \A m \in 1..Len(v) : p[m] = v[m]
        /\ \A m \in 1..Len(sg) : p[Len(v) + m] = sg[m]
    <3>1. Joined(p, v, sg, S)
      BY <1>1, <1>6, ConcatIs
    <3> QED BY <3>1, Zenon DEF Joined
  <2> HIDE DEF p
  <2> QED BY <1>2, <1>6, <2>1
<1> HIDE DEF p
<1>8. \A m \in 1..Len(id) : p[1 + m] = id[m]
  <2> SUFFICES ASSUME NEW m \in 1..Len(id) PROVE p[1 + m] = id[m]
    OBVIOUS
  <2>1. 1 + m \in 1..(1 + Len(id)) /\ 1 + m \in 1..(2 + Len(id))
    BY <1>2
  <2> QED BY <1>5, <1>6, <1>7, <2>1
<1>9. p[1] = Len(id) /\ p[Len(id) + 2] = Len(sg)
  <2>1. 1 \in 1..(1 + Len(id)) /\ 1 \in 1..(2 + Len(id)) /\ 2 + Len(id) \in 1..(2 + Len(id))
        /\ Len(id) + 2 = 2 + Len(id)
    BY <1>2
  <2> QED BY <1>5, <1>6, <1>7, <2>1
<1>10. \A m \in 1..Len(sg) : p[Len(id) + 2 + m] = sg[m]
  BY <1>2, <1>7
<1>11. Len(p) = Len(id) + Len(sg) + 2
  BY <1>2, <1>7
<1>12. BytesOf(p, id, sg)
  BY <1>8, <1>9, <1>10, <1>11, Zenon DEF BytesOf
<1> QED
  BY <1>3, <1>7, <1>12 DEF id, sg

\* The bytes p are in data, after the first a ones.
BytesAt(data, a, p) == a + Len(p) <= Len(data) /\ \A m \in 1..Len(p) : data[a + m] = p[m]

\* A signature is read from the place of its bytes, and the next one after it.
LEMMA ReadsOne ==
    ASSUME NEW S, Nat \subseteq S, NEW data \in Seq(S), NEW a \in Nat, NEW sig \in MTCSignatures(S), NEW rest,
           BytesAt(data, a, sigBytes(sig))
    PROVE  ReadAt(data, rest, a + 1) = <<sig>> \o rest[a + Len(sigBytes(sig)) + 1]
<1> DEFINE p  == sigBytes(sig)
           id == sig.CosignerID
           sg == sig.Signature
           at == sigAt(data, a + 1)
           nx == next(data, a + 1)
<1>1. id \in Seq(S) /\ id # <<>> /\ sg \in Seq(S) /\ sig = [CosignerID |-> id, Signature |-> sg]
  BY DEF MTCSignatures
<1>2. p \in Seq(S) /\ BytesOf(p, id, sg)
  BY SignatureBytes
<1>3. a + Len(p) <= Len(data) /\ \A m \in 1..Len(p) : data[a + m] = p[m]
  BY DEF BytesAt
<1> HIDE DEF p, id, sg
<1>4. Len(id) \in Nat /\ Len(id) >= 1 /\ Len(sg) \in Nat /\ Len(data) \in Nat /\ Len(p) = Len(id) + Len(sg) + 2
  <2>1. Len(id) # 0
    BY <1>1
  <2> QED BY <1>1, <1>2, <2>1 DEF BytesOf
<1> DEFINE i == Len(id)
           j == Len(sg)
           n == Len(p)
<1>5. p[1] = i /\ (\A m \in 1..i : p[1 + m] = id[m]) /\ p[i + 2] = j /\ \A m \in 1..j : p[i + 2 + m] = sg[m]
  BY <1>2, Zenon DEF BytesOf
<1>6. at = a + 2 + i
  <2>1. data[a + 1] = p[1]
    BY <1>3, <1>4
  <2> HIDE DEF i
  <2> QED BY <1>4, <1>5, <2>1 DEF sigAt, i
<1>7. data[a + 2 + i] = j
  <2>1. i + 2 \in 1..n /\ a + (i + 2) = a + 2 + i
    BY <1>4
  <2>2. data[a + (i + 2)] = p[i + 2]
    BY <1>3, <2>1
  <2> QED BY <1>5, <2>1, <2>2, Zenon
<1>8. nx = a + n + 1
  <2>1. nx = at + 1 + data[at]
    BY Zenon DEF next
  <2>2. nx = (a + 2 + i) + 1 + j
    BY <1>6, <1>7, <2>1, Zenon
  <2> HIDE DEF at, nx
  <2> QED BY <1>4, <2>2
<1> HIDE DEF at, nx
<1>9. a + 1 # Len(data) + 1 /\ at \in (a + 1 + 2)..Len(data) /\ nx \in (at + 1)..(Len(data) + 1)
  BY <1>3, <1>4, <1>6, <1>8
<1>10. SubSeq(data, a + 1 + 1, at - 1) = id
  <2>1. \A k \in 1..Len(id) : data[a + 1 + 1 + k - 1] = id[k]
    <3> SUFFICES ASSUME NEW k \in 1..i PROVE data[a + 1 + 1 + k - 1] = id[k]
      OBVIOUS
    <3>1. 1 + k \in 1..n /\ a + 1 + 1 + k - 1 = a + (1 + k)
      BY <1>4
    <3> QED BY <1>3, <1>5, <3>1, Zenon
  <2>2. a + 1 + 1 \in Nat /\ at - 1 \in Int /\ a + 1 + 1 >= 1 /\ at - 1 = a + 1 + 1 + Len(id) - 1
        /\ at - 1 <= Len(data)
    BY <1>3, <1>4, <1>6
  <2> QED BY <1>1, <2>1, <2>2, SubSeqReads
<1>11. SubSeq(data, at + 1, nx - 1) = sg
  <2>1. \A k \in 1..Len(sg) : data[at + 1 + k - 1] = sg[k]
    <3> SUFFICES ASSUME NEW k \in 1..j PROVE data[at + 1 + k - 1] = sg[k]
      OBVIOUS
    <3>1. i + 2 + k \in 1..n /\ at + 1 + k - 1 = a + (i + 2 + k)
      BY <1>4, <1>6
    <3> QED BY <1>3, <1>5, <3>1, Zenon
  <2>2. at + 1 \in Nat /\ nx - 1 \in Int /\ at + 1 >= 1 /\ nx - 1 = at + 1 + Len(sg) - 1
        /\ nx - 1 <= Len(data)
    BY <1>3, <1>4, <1>6, <1>8
  <2> QED BY <1>1, <2>1, <2>2, SubSeqReads
<1>12. ReadAt(data, rest, a + 1)
         = <<[CosignerID |-> SubSeq(data, a + 1 + 1, at - 1), Signature |-> SubSeq(data, at + 1, nx - 1)]>>
             \o rest[nx]
  <2>1. sigAt(data, a + 1) = at /\ next(data, a + 1) = nx
    BY DEF at, nx
  <2> QED BY <1>9, <2>1, Zenon DEF ReadAt
<1> QED
  BY <1>1, <1>8, <1>10, <1>11, <1>12, Zenon DEF p

\* unmarshalSignatures undoes marshalSignatures.
LEMMA SignaturesReadBack ==
    ASSUME NEW S, Nat \subseteq S, NEW sigs \in Seq(MTCSignatures(S))
    PROVE  marshalSignatures(sigs) \in Seq(S) /\ unmarshalSignatures(marshalSignatures(sigs)) = sigs
<1> DEFINE n == Len(sigs)
           s == [i \in 1..n |-> sigBytes(sigs[i])]
           data == FlattenSeq(s)
<1>0. n \in Nat
  OBVIOUS
<1>1. marshalSignatures(sigs) = data
  BY Zenon DEF marshalSignatures, sigBytes
<1>2. ASSUME NEW i \in 1..n
      PROVE  sigs[i] \in MTCSignatures(S) /\ s[i] = sigBytes(sigs[i]) /\ sigBytes(sigs[i]) \in Seq(S)
  <2>1. sigs[i] \in MTCSignatures(S)
    BY ElementOfSeq
  <2>2. sigBytes(sigs[i]) \in Seq(S)
    BY <2>1, SignatureBytes
  <2> QED BY <2>1, <2>2
<1>3. s \in Seq(Seq(S)) /\ Len(s) = n
  BY <1>0, <1>2
<1> HIDE DEF s
<1>4. PICK f : Pieces(f, s, S)
  BY <1>3, FlattenPieces
<1>5. \A j \in 0..n : InWhole(f, s, S, j)
  <2>1. \A j \in 0..Len(s) : InWhole(f, s, S, j)
    BY <1>3, <1>4, PiecesInWhole
  <2> QED BY <1>3, <2>1, Zenon
<1>6. f[0] = <<>> /\ data = f[n]
  BY <1>3, <1>4, Zenon DEF Pieces
<1> HIDE DEF data
<1>7. data \in Seq(S) /\ Len(data) \in Nat
  <2>1. n \in 0..n
    BY <1>0
  <2>2. data \in Seq(S)
    BY <1>5, <1>6, <2>1, Zenon DEF InWhole
  <2> QED BY <2>2
<1>8. PICK from : /\ from = [off \in 1..(Len(data) + 1) |-> ReadAt(data, from, off)]
                  /\ unmarshalSignatures(data) = from[1]
  BY <1>7, UnmarshalSignaturesIs, Zenon
<1> DEFINE at(j) == Len(f[j]) + 1
           Reads(j) == from[at(j)] = SubSeq(sigs, j + 1, n)
           T == {n - j : j \in {k \in 0..n : ~Reads(k)}}
<1>9. Reads(n)
  <2>1. at(n) = Len(data) + 1
    BY <1>6
  <2>2. Len(data) + 1 \in 1..(Len(data) + 1)
    BY <1>7
  <2>3. from[Len(data) + 1] = ReadAt(data, from, Len(data) + 1)
    BY <1>8, <2>2
  <2>4. ReadAt(data, from, Len(data) + 1) = <<>>
    BY Zenon DEF ReadAt
  <2>5. SubSeq(sigs, n + 1, n) = <<>>
    BY <1>0, SubSeqEmpty
  <2> QED BY <2>1, <2>3, <2>4, <2>5, Zenon
<1>10. ASSUME NEW i \in 1..n, Reads(i) PROVE Reads(i - 1)
  <2>1. i \in 0..n /\ i - 1 \in 0..n /\ i # 0 /\ i - 1 + 1 = i
    BY <1>0
  <2> DEFINE a == Len(f[i - 1])
             p == sigBytes(sigs[i])
  <2>2. InWhole(f, s, S, i) /\ InWhole(f, s, S, i - 1)
    BY <1>5, <2>1, Zenon
  <2>3. /\ Len(f[i]) <= Len(data) /\ Len(f[i]) = a + Len(p)
        /\ \A m \in 1..Len(p) : data[a + m] = p[m]
    BY <1>2, <2>1, <2>2, Zenon DEF InWhole, data
  <2>4. f[i - 1] \in Seq(S)
    BY <2>2, Zenon DEF InWhole
  <2>5. a \in Nat
    BY <2>4, LenProperties
  <2>6. p \in Seq(S) /\ sigs[i] \in MTCSignatures(S)
    BY <1>2
  <2>7. Len(p) \in Nat
    BY <2>6, LenProperties
  <2>8. Len(f[i]) = Len(f[i]) /\ at(i) = a + Len(p) + 1
    BY <2>3
  <2>9. a + Len(p) <= Len(data)
    BY <2>3, Zenon
  <2> HIDE DEF a
  <2>10. ReadAt(data, from, a + 1) = <<sigs[i]>> \o from[a + Len(p) + 1]
    <3>1. BytesAt(data, a, p)
      BY <2>3, <2>9, Zenon DEF BytesAt
    <3> QED BY <1>7, <2>5, <2>6, <3>1, ReadsOne
  <2>11. a + 1 \in 1..(Len(data) + 1)
    <3> HIDE DEF p
    <3> QED BY <1>7, <2>5, <2>7, <2>9
  <2>12. from[a + 1] = <<sigs[i]>> \o SubSeq(sigs, i + 1, n)
    <3>1. from[a + 1] = ReadAt(data, from, a + 1)
      BY <1>8, <2>11
    <3> QED BY <1>10, <2>8, <2>10, <3>1, Zenon
  <2>13. SubSeq(sigs, i, n) = <<sigs[i]>> \o SubSeq(sigs, i + 1, n)
    <3>1. n \in i..Len(sigs)
      BY <1>0
    <3> QED BY <3>1, SubSeqRecursiveFirst
  <2> QED BY <2>1, <2>12, <2>13, Zenon DEF a
<1>11. T = {}
  <2> SUFFICES ASSUME T # {} PROVE FALSE
    OBVIOUS
  <2>1. PICK t \in T : \A u \in T : t <= u
    <3>1. T \subseteq Nat
      BY <1>0
    <3> HIDE DEF T
    <3> QED BY <3>1, LeastNatural
  <2>2. PICK j \in 0..n : ~Reads(j) /\ t = n - j
    OBVIOUS
  <2> HIDE DEF Reads
  <2>3. j + 1 \in 1..n /\ j + 1 \in 0..n /\ n - (j + 1) < t /\ (j + 1) - 1 = j
    BY <1>0, <1>9, <2>2
  <2>4. Reads(j + 1)
    <3> SUFFICES ASSUME ~Reads(j + 1) PROVE FALSE
      OBVIOUS
    <3>1. n - (j + 1) \in T
      BY <2>3
    <3> HIDE DEF T
    <3>2. t <= n - (j + 1)
      BY <2>1, <3>1
    <3> QED BY <1>0, <2>2, <2>3, <3>2
  <2>5. Reads(j)
    BY <1>10, <2>3, <2>4
  <2> QED BY <2>2, <2>5
<1>12. Reads(0)
  <2> HIDE DEF Reads
  <2>1. 0 \in 0..n /\ n - 0 = n
    BY <1>0
  <2> QED BY <1>11, <2>1
<1>13. SubSeq(sigs, 0 + 1, n) = sigs
  BY SubSeqFull
<1>14. at(0) = 1
  BY <1>6
<1> QED
  BY <1>1, <1>7, <1>8, <1>12, <1>13, <1>14, Zenon

\* The bytes of hashes that follow one another.
LEMMA HashesInBytes ==
    ASSUME NEW H, NEW hashes \in Seq(H), NEW S, \A h \in H, k \in 1..HashSize : <<h, k>> \in S
    PROVE  LET bytes == FlattenSeq([i \in 1..Len(hashes) |-> hashBytes(hashes[i])])
           IN  /\ bytes \in Seq(S) /\ Len(bytes) = Len(hashes) * HashSize
               /\ \A i \in 1..Len(hashes) : bytes[(i - 1) * HashSize + 1] = <<hashes[i], 1>>
<1> DEFINE n == Len(hashes)
           s == [i \in 1..n |-> hashBytes(hashes[i])]
<1>0. n \in Nat /\ HashSize \in Nat \ {0}
  BY FormatAssumption
<1>1. ASSUME NEW i \in 1..n
      PROVE  s[i] \in Seq(S) /\ Len(s[i]) = HashSize /\ s[i][1] = <<hashes[i], 1>>
  <2>1. hashes[i] \in H
    BY ElementOfSeq
  <2>2. \A k \in 1..HashSize : <<hashes[i], k>> \in S
    BY <2>1
  <2>3. s[i] = [k \in 1..HashSize |-> <<hashes[i], k>>]
    BY DEF hashBytes
  <2> HIDE DEF s
  <2> QED BY <1>0, <2>2, <2>3
<1>2. s \in Seq(Seq(S)) /\ Len(s) = n
  BY <1>0, <1>1
<1> HIDE DEF s
<1>3. \A i \in 1..Len(s) : Len(s[i]) = HashSize
  BY <1>1, <1>2
<1>4. /\ FlattenSeq(s) \in Seq(S) /\ Len(FlattenSeq(s)) = Len(s) * HashSize
      /\ \A i \in 1..Len(s), k \in 1..HashSize : FlattenSeq(s)[(i - 1) * HashSize + k] = s[i][k]
  BY <1>0, <1>2, <1>3, FlattenUniform
<1>5. ASSUME NEW i \in 1..n PROVE FlattenSeq(s)[(i - 1) * HashSize + 1] = <<hashes[i], 1>>
  <2>1. 1 \in 1..HashSize
    BY <1>0
  <2>2. FlattenSeq(s)[(i - 1) * HashSize + 1] = s[i][1]
    BY <1>2, <1>4, <2>1, Zenon
  <2> QED BY <1>1, <2>2, Zenon
<1>6. /\ FlattenSeq(s) \in Seq(S) /\ Len(FlattenSeq(s)) = n * HashSize
      /\ \A i \in 1..n : FlattenSeq(s)[(i - 1) * HashSize + 1] = <<hashes[i], 1>>
  BY <1>2, <1>4, <1>5, Zenon
<1> QED
  BY <1>6, Zenon DEF s

\* Where the fields of a proof are in its bytes.
FieldsAt(data, a, b, c, F, d, g) ==
    /\ Len(data) = 4 + Len(F) + Len(g)
    /\ data[1] = a /\ data[2] = b /\ data[3] = c /\ data[4 + Len(F)] = d
    /\ \A m \in 1..Len(F) : data[3 + m] = F[m]
    /\ SubSeq(data, 4 + Len(F) + 1, Len(data)) = g

\* The bytes of a proof hold its fields.
LEMMA FieldsInBytes ==
    ASSUME NEW S, NEW a \in S, NEW b \in S, NEW c \in S, NEW F \in Seq(S), NEW d \in S, NEW g \in Seq(S)
    PROVE  FieldsAt(<<a, b, c>> \o F \o <<d>> \o g, a, b, c, F, d, g)
<1> DEFINE u == <<a, b, c>>
           w == <<d>>
           v == u \o F
           x == v \o w
           data == x \o g
<1>1. Len(F) \in Nat /\ Len(g) \in Nat
  OBVIOUS
<1>2. u \in Seq(S) /\ w \in Seq(S) /\ Len(u) = 3 /\ Len(w) = 1 /\ u[1] = a /\ u[2] = b /\ u[3] = c /\ w[1] = d
  OBVIOUS
<1> HIDE DEF u, w
<1>3. Joined(v, u, F, S)
  BY <1>2, ConcatIs
<1>4. /\ v \in Seq(S) /\ Len(v) = 3 + Len(F) /\ (\A m \in 1..3 : v[m] = u[m])
      /\ \A m \in 1..Len(F) : v[3 + m] = F[m]
  BY <1>2, <1>3, Zenon DEF Joined
<1> HIDE DEF v
<1>5. Joined(x, v, w, S)
  BY <1>2, <1>4, ConcatIs
<1>6. /\ x \in Seq(S) /\ Len(x) = 4 + Len(F) /\ (\A m \in 1..(3 + Len(F)) : x[m] = v[m])
      /\ x[4 + Len(F)] = d
  <2>1. /\ x \in Seq(S) /\ Len(x) = Len(v) + Len(w) /\ (\A m \in 1..Len(v) : x[m] = v[m])
        /\ \A m \in 1..Len(w) : x[Len(v) + m] = w[m]
    BY <1>5, Zenon DEF Joined
  <2> HIDE DEF x
  <2>2. x[Len(v) + 1] = w[1]
    BY <1>2, <2>1
  <2>3. Len(v) + 1 = 4 + Len(F) /\ Len(v) + Len(w) = 4 + Len(F)
    BY <1>1, <1>2, <1>4
  <2> QED BY <1>2, <1>4, <2>1, <2>2, <2>3, Zenon
<1> HIDE DEF x
<1>7. Joined(data, x, g, S)
  BY <1>6, ConcatIs
<1>8. /\ data \in Seq(S) /\ Len(data) = 4 + Len(F) + Len(g) /\ (\A m \in 1..(4 + Len(F)) : data[m] = x[m])
      /\ \A m \in 1..Len(g) : data[4 + Len(F) + m] = g[m]
  BY <1>6, <1>7, Zenon DEF Joined
<1> HIDE DEF data
<1>9. data[1] = a /\ data[2] = b /\ data[3] = c /\ data[4 + Len(F)] = d
  <2>1. 1 \in 1..(4 + Len(F)) /\ 2 \in 1..(4 + Len(F)) /\ 3 \in 1..(4 + Len(F)) /\ 4 + Len(F) \in 1..(4 + Len(F))
    BY <1>1
  <2>2. 1 \in 1..(3 + Len(F)) /\ 2 \in 1..(3 + Len(F)) /\ 3 \in 1..(3 + Len(F)) /\ 1 \in 1..3 /\ 2 \in 1..3 /\ 3 \in 1..3
    BY <1>1
  <2>3. data[1] = x[1] /\ data[2] = x[2] /\ data[3] = x[3] /\ data[4 + Len(F)] = x[4 + Len(F)]
    BY <1>8, <2>1, Zenon
  <2>4. x[1] = v[1] /\ x[2] = v[2] /\ x[3] = v[3]
    BY <1>6, <2>2, Zenon
  <2>5. v[1] = u[1] /\ v[2] = u[2] /\ v[3] = u[3]
    BY <1>4, <2>2, Zenon
  <2> QED BY <1>2, <1>6, <2>3, <2>4, <2>5, Zenon
<1>10. \A m \in 1..Len(F) : data[3 + m] = F[m]
  <2> SUFFICES ASSUME NEW m \in 1..Len(F) PROVE data[3 + m] = F[m]
    OBVIOUS
  <2>1. 3 + m \in 1..(4 + Len(F)) /\ 3 + m \in 1..(3 + Len(F))
    BY <1>1
  <2> QED BY <1>4, <1>6, <1>8, <2>1, Zenon
<1>11. SubSeq(data, 4 + Len(F) + 1, Len(data)) = g
  <2>1. \A k \in 1..Len(g) : data[4 + Len(F) + 1 + k - 1] = g[k]
    <3> SUFFICES ASSUME NEW k \in 1..Len(g) PROVE data[4 + Len(F) + 1 + k - 1] = g[k]
      OBVIOUS
    <3>1. 4 + Len(F) + 1 + k - 1 = 4 + Len(F) + k
      BY <1>1
    <3> QED BY <1>8, <3>1, Zenon
  <2>2. /\ 4 + Len(F) + 1 \in Nat /\ Len(data) \in Int /\ 4 + Len(F) + 1 >= 1
        /\ Len(data) = 4 + Len(F) + 1 + Len(g) - 1 /\ Len(data) <= Len(data)
    BY <1>1, <1>8
  <2> QED BY <1>8, <2>1, <2>2, SubSeqReads
<1>12. FieldsAt(data, a, b, c, F, d, g)
  BY <1>8, <1>9, <1>10, <1>11, Zenon DEF FieldsAt
<1> QED
  BY <1>12, Zenon DEF data, x, v, u, w

\* A number less than the divisor is its own remainder.
LEMMA ModBelow ==
    ASSUME NEW x \in Nat, NEW p \in Nat \ {0}
    PROVE  x % p \in 0..(p - 1) /\ x = p * (x \div p) + (x % p) /\ (x < p => x % p = x)
<1>1. x % p \in 0..(p - 1) /\ x = p * (x \div p) + (x % p) /\ x \div p \in Int
  OBVIOUS
<1>2. ASSUME x < p PROVE x % p = x
  <2>1. (x + 0 * p) \div p = 0
    BY <1>2, DivSum
  <2>2. x + 0 * p = x /\ p * 0 = 0
    OBVIOUS
  <2>3. x \div p = 0
    BY <2>1, <2>2, Zenon
  <2>4. x = 0 + (x % p)
    BY <1>1, <2>2, <2>3
  <2> QED BY <1>1, <2>4
<1> QED
  BY <1>1, <1>2

\* mtcformat.MarshalProof and mtcformat.UnmarshalProof fit together: a proof is read
\* back as it was written, or it is rejected when its signatures are longer than
\* their length prefix can say; it is never misread.
THEOREM ProofReadBack ==
    ASSUME NEW S, Nat \subseteq S, NEW H, NEW p, p.Start \in Nat, p.End \in Nat, p.Start < p.End,
           p.InclusionProof \in Seq(H), Len(p.InclusionProof) * HashSize < LenBound,
           p.Signatures \in Seq(MTCSignatures(S))
    PROVE  UnmarshalProof(MarshalProof(p)) =
               IF Len(marshalSignatures(p.Signatures)) < LenBound
               THEN [ok |-> TRUE, Start |-> p.Start, End |-> p.End,
                     InclusionProof |-> p.InclusionProof, Signatures |-> p.Signatures]
               ELSE [ok |-> FALSE]
<1> DEFINE n == Len(p.InclusionProof)
           K == HashSize
           len == n * K
           sigs == marshalSignatures(p.Signatures)
           B == S \cup {<<h, k>> : h \in H, k \in 1..K}
           F == FlattenSeq([i \in 1..n |-> hashBytes(p.InclusionProof[i])])
           d == Len(sigs) % LenBound
           data == <<p.Start, p.End, len>> \o F \o <<d>> \o sigs
           path == [i \in 1..n |-> data[4 + (i - 1) * K][1]]
<1>0. n \in Nat /\ K \in Nat \ {0} /\ LenBound \in Nat \ {0}
  BY FormatAssumption
<1>1. len \in Nat /\ len \div K = n /\ len % K = 0
  <2>1. len \in Nat
    BY <1>0
  <2>2. len \div K = n
    <3>1. K > 0
      BY <1>0
    <3> QED BY <1>0, <3>1, DivMult, Zenon
  <2>3. len = K * (len \div K) + (len % K)
    <3> HIDE DEF len
    <3> QED BY <1>0, <2>1
  <2>4. K * n = len
    BY <1>0
  <2>5. len % K \in Int
    <3> HIDE DEF len
    <3> QED BY <1>0, <2>1
  <2> HIDE DEF len
  <2> QED BY <2>1, <2>2, <2>3, <2>4, <2>5
<1>2. /\ F \in Seq(B) /\ Len(F) = len
      /\ \A i \in 1..n : F[(i - 1) * K + 1] = <<p.InclusionProof[i], 1>>
  <2>1. \A h \in H, k \in 1..HashSize : <<h, k>> \in B
    OBVIOUS
  <2> HIDE DEF B
  <2> QED BY <2>1, HashesInBytes, Zenon
<1>3. sigs \in Seq(B) /\ unmarshalSignatures(sigs) = p.Signatures /\ Len(sigs) \in Nat
  <2>1. sigs \in Seq(S) /\ unmarshalSignatures(sigs) = p.Signatures
    BY SignaturesReadBack
  <2>2. S \subseteq B
    OBVIOUS
  <2> HIDE DEF sigs, B
  <2>3. sigs \in Seq(B)
    BY <2>1, <2>2, SeqMonotonic
  <2> QED BY <2>1, <2>3
<1>4. d \in Nat /\ (Len(sigs) < LenBound => d = Len(sigs)) /\ (Len(sigs) >= LenBound => d # Len(sigs))
  <2> HIDE DEF sigs
  <2> DEFINE y == Len(sigs)
  <2>1. d = y % LenBound /\ y \in Nat
    BY <1>3
  <2> HIDE DEF y, d
  <2>2. y % LenBound \in 0..(LenBound - 1) /\ (y < LenBound => y % LenBound = y)
    BY ONLY <1>0, <2>1, ModBelow
  <2>3. d \in Nat /\ (y < LenBound => d = y) /\ (y >= LenBound => d # y)
    BY ONLY <1>0, <2>1, <2>2
  <2> QED BY <2>3 DEF y
<1>5. p.Start \in B /\ p.End \in B /\ len \in B /\ d \in B
  <2>1. Nat \subseteq B
    OBVIOUS
  <2> HIDE DEF B, len, d
  <2> QED BY <1>1, <1>4, <2>1
<1> HIDE DEF sigs, F, d, B, len
<1>6. /\ Len(data) = 4 + len + Len(sigs)
      /\ data[1] = p.Start /\ data[2] = p.End /\ data[3] = len /\ data[4 + len] = d
      /\ (\A m \in 1..len : data[3 + m] = F[m])
      /\ SubSeq(data, 4 + len + 1, Len(data)) = sigs
  <2>1. FieldsAt(data, p.Start, p.End, len, F, d, sigs)
    BY <1>2, <1>3, <1>5, FieldsInBytes, Zenon
  <2> HIDE DEF data
  <2> QED BY <1>2, <2>1, Zenon DEF FieldsAt
<1>7. MarshalProof(p) = data
  <2>1. ~(p.End <= p.Start) /\ ~(Len(p.InclusionProof) * HashSize >= LenBound)
    <3>1. len < LenBound
      BY DEF len
    <3>2. ~(len >= LenBound)
      BY <1>0, <1>1, <3>1
    <3>3. ~(Len(p.InclusionProof) * HashSize >= LenBound)
      BY <3>2 DEF len
    <3> QED BY <3>3
  <2> QED BY <2>1, Zenon DEF MarshalProof, sigs, F, d, len
<1> HIDE DEF data
<1>8. path = p.InclusionProof
  <2>1. ASSUME NEW i \in 1..n PROVE path[i] = p.InclusionProof[i]
    <3> DEFINE m == (i - 1) * K + 1
    <3>1. m \in 1..len /\ 4 + (i - 1) * K = 3 + m
      <4>1. (i - 1) * K \in Nat /\ i * K = (i - 1) * K + K
        BY <1>0
      <4>2. i * K <= n * K
        BY <1>0
      <4> DEFINE x == (i - 1) * K
                 y == i * K
      <4>3. x \in Nat /\ y = x + K /\ y <= len
        BY <4>1, <4>2 DEF len
      <4> HIDE DEF x, y
      <4>4. x + 1 \in 1..len /\ 4 + x = 3 + (x + 1)
        BY <1>0, <1>1, <4>3
      <4> QED BY <4>4 DEF x
    <3>2. path[i] = data[3 + m][1]
      <4>1. path[i] = data[4 + (i - 1) * K][1]
        OBVIOUS
      <4> HIDE DEF m, path
      <4> QED BY <3>1, <4>1, Zenon
    <3>3. data[3 + m] = <<p.InclusionProof[i], 1>>
      BY <1>2, <1>6, <3>1, Zenon
    <3> HIDE DEF path, m
    <3> QED BY <3>2, <3>3
  <2>2. path = [i \in 1..n |-> path[i]]
    OBVIOUS
  <2> HIDE DEF path
  <2>3. p.InclusionProof = [i \in 1..n |-> p.InclusionProof[i]]
    OBVIOUS
  <2> QED BY <2>1, <2>2, <2>3, Zenon
<1>9. Truncated \notin Range(p.Signatures)
  <2>1. ASSUME NEW i \in DOMAIN p.Signatures PROVE p.Signatures[i] # Truncated
    <3>1. p.Signatures[i] \in MTCSignatures(S)
      OBVIOUS
    <3> QED BY <3>1 DEF MTCSignatures, Truncated
  <2> QED BY <2>1 DEF Range
<1>10. data # <<>> /\ ~(data[2] <= data[1]) /\ data[3] % HashSize = 0
  <2>1. data # <<>>
    <3>1. Len(data) # 0
      BY <1>1, <1>3, <1>6
    <3> QED BY <3>1
  <2>2. ~(data[2] <= data[1])
    BY <1>6
  <2> QED BY <1>1, <1>6, <2>1, <2>2
<1>11. 4 + data[3] + data[4 + data[3]] # Len(data) <=> ~(Len(sigs) < LenBound)
  <2>1. 4 + data[3] + data[4 + data[3]] = 4 + len + d
    BY <1>6, Zenon
  <2>2. Len(data) = 4 + len + Len(sigs)
    BY <1>6, Zenon
  <2>3. 4 + len + d # 4 + len + Len(sigs) <=> ~(Len(sigs) < LenBound)
    <3> DEFINE y == Len(sigs)
               l == LenBound
    <3>1. y \in Nat /\ len \in Nat /\ d \in Nat /\ l \in Nat
      BY <1>0, <1>1, <1>3, <1>4, Zenon
    <3>2. (y < l => d = y) /\ (y >= l => d # y)
      BY <1>4, Zenon
    <3> HIDE DEF y, l
    <3>3. 4 + len + d # 4 + len + y <=> ~(y < l)
      BY ONLY <3>1, <3>2
    <3> QED BY <3>3 DEF y, l
  <2> QED BY <2>1, <2>2, <2>3, Zenon
<1>12. UnmarshalProof(data) =
          IF ~(Len(sigs) < LenBound) THEN [ok |-> FALSE]
          ELSE [ok |-> TRUE, Start |-> p.Start, End |-> p.End,
                InclusionProof |-> path, Signatures |-> p.Signatures]
  <2>1. unmarshalSignatures(SubSeq(data, 4 + data[3] + 1, Len(data))) = p.Signatures
    BY <1>3, <1>6, Zenon
  <2>2. [i \in 1..(data[3] \div HashSize) |-> data[4 + (i - 1) * HashSize][1]] = path
    BY <1>1, <1>6, Zenon
  <2> HIDE DEF path
  <2> QED BY <1>6, <1>9, <1>10, <1>11, <2>1, <2>2, Zenon DEF UnmarshalProof
<1> QED
  BY <1>7, <1>8, <1>12, Zenon DEF sigs

-----------------------------------------------------------------------------
(* Extensions, and the certificates that carry them.                       *)

\* k[i] is what is left of the first i extensions.
Filters(k, e, oid) ==
    k = [i \in 0..Len(e) |-> IF i = 0 THEN <<>>
                             ELSE IF e[i].id = oid THEN k[i - 1]
                             ELSE Append(k[i - 1], e[i])]

\* filterExtensions is such a function.
LEMMA FilterIs ==
    ASSUME NEW e, Len(e) \in Nat, NEW oid
    PROVE  \E k : Filters(k, e, oid) /\ filterExtensions(e, oid) = k[Len(e)]
<1> DEFINE n == Len(e)
           op == [i \in 1..n |-> IF e[i].id = oid THEN [how |-> "keep", arg |-> e[i]]
                                                  ELSE [how |-> "append", arg |-> e[i]]]
           k == CHOOSE k : Filters(k, e, oid)
<1>1. PICK f : ChainOf(f, n, <<>>, op)
  <2> HIDE DEF op, n
  <2>1. n \in Nat
    BY DEF n
  <2> QED BY <2>1, ChainExists
<1>2. ASSUME NEW i \in 0..n
      PROVE  f[i] = IF i = 0 THEN <<>> ELSE IF e[i].id = oid THEN f[i - 1] ELSE Append(f[i - 1], e[i])
  <2>1. f[i] = IF i = 0 THEN <<>> ELSE ChainStep(op[i], f[i - 1])
    <3> HIDE DEF op, n
    <3> QED BY <1>1 DEF ChainOf
  <2>2. CASE i = 0
    BY <2>1, <2>2
  <2>3. CASE i # 0 /\ e[i].id = oid
    <3>1. op[i] = [how |-> "keep", arg |-> e[i]]
      BY <2>3
    <3> HIDE DEF op
    <3>2. ChainStep(op[i], f[i - 1]) = f[i - 1]
      BY <3>1 DEF ChainStep
    <3> QED BY <2>1, <2>3, <3>2, Zenon
  <2>4. CASE i # 0 /\ e[i].id # oid
    <3>1. op[i] = [how |-> "append", arg |-> e[i]]
      BY <2>4
    <3> HIDE DEF op
    <3>2. ChainStep(op[i], f[i - 1]) = Append(f[i - 1], e[i])
      BY <3>1 DEF ChainStep
    <3> QED BY <2>1, <2>4, <3>2, Zenon
  <2> QED BY <2>2, <2>3, <2>4
<1>3. Filters(f, e, oid)
  <2>1. f = [i \in 0..n |-> f[i]]
    <3> HIDE DEF op, n
    <3> QED BY <1>1 DEF ChainOf
  <2> HIDE DEF op
  <2>2. f = [i \in 0..n |-> IF i = 0 THEN <<>> ELSE IF e[i].id = oid THEN f[i - 1] ELSE Append(f[i - 1], e[i])]
    <3> HIDE DEF n
    <3> QED BY <1>2, <2>1
  <2> QED BY <2>2, Zenon DEF Filters
<1>4. Filters(k, e, oid)
  <2> HIDE DEF op
  <2> QED BY <1>3, Zenon
<1>5. filterExtensions(e, oid) = k[Len(e)]
  BY Zenon DEF filterExtensions, Filters
<1> HIDE DEF k
<1> QED
  BY <1>4, <1>5

\* An extension that comes last is taken off, and nothing else is.
LEMMA FilterLast ==
    ASSUME NEW T, NEW x \in Seq(T), NEW ext, NEW oid, ext.id = oid, \A i \in 1..Len(x) : x[i].id # oid
    PROVE  filterExtensions(x \o <<ext>>, oid) = x
<1> DEFINE e == x \o <<ext>>
           n == Len(x)
           U == T \cup {ext}
<1>1. x \in Seq(U) /\ <<ext>> \in Seq(U) /\ n \in Nat
  BY SeqMonotonic
<1>2. Joined(e, x, <<ext>>, U)
  <2> HIDE DEF U
  <2> QED BY <1>1, ConcatIs
<1>3. /\ Len(e) = n + 1 /\ (\A i \in 1..n : e[i] = x[i])
      /\ e[n + 1] = ext
  <2>1. Len(<<ext>>) = 1 /\ 1 \in 1..1 /\ <<ext>>[1] = ext
    OBVIOUS
  <2> HIDE DEF e
  <2> QED BY <1>2, <2>1, Zenon DEF Joined
<1> HIDE DEF e, U
<1>4. PICK k : Filters(k, e, oid) /\ filterExtensions(e, oid) = k[Len(e)]
  <2>1. Len(e) \in Nat
    BY <1>1, <1>3
  <2> QED BY <2>1, FilterIs
<1>5. ASSUME NEW i \in 0..(n + 1)
      PROVE  k[i] = IF i = 0 THEN <<>> ELSE IF e[i].id = oid THEN k[i - 1] ELSE Append(k[i - 1], e[i])
  BY <1>3, <1>4, Zenon DEF Filters
<1> DEFINE Bad == {i \in 0..n : k[i] # SubSeq(x, 1, i)}
<1>6. Bad = {}
  <2> SUFFICES ASSUME Bad # {} PROVE FALSE
    OBVIOUS
  <2>1. PICK i \in Bad : \A j \in Bad : i <= j
    <3>1. Bad \subseteq Nat
      BY <1>1
    <3> HIDE DEF Bad
    <3> QED BY <3>1, LeastNatural
  <2>2. i \in 0..n /\ k[i] # SubSeq(x, 1, i)
    BY <2>1
  <2>3. CASE i = 0
    <3>1. SubSeq(x, 1, 0) = <<>>
      BY SubSeqEmpty
    <3>2. 0 \in 0..(n + 1)
      BY <1>1
    <3> QED BY <1>5, <2>2, <2>3, <3>1, <3>2, Zenon
  <2>4. CASE i # 0
    <3>1. i \in 1..n /\ i - 1 \in 0..n /\ i \in 0..(n + 1) /\ i - 1 < i /\ i \in 1..Len(x) /\ 1 \in 1..Len(x)
      BY <1>1, <2>2, <2>4
    <3>2. i - 1 \notin Bad
      <4> HIDE DEF Bad
      <4> QED BY <1>1, <2>1, <2>2, <3>1
    <3>3. k[i - 1] = SubSeq(x, 1, i - 1)
      BY <3>1, <3>2
    <3>4. k[i] = Append(SubSeq(x, 1, i - 1), x[i])
      <4>1. e[i] = x[i] /\ e[i].id # oid
        BY <1>3, <3>1
      <4> QED BY <1>5, <2>4, <3>1, <3>3, <4>1, Zenon
    <3>5. SubSeq(x, 1, i) = Append(SubSeq(x, 1, i - 1), x[i])
      BY <1>1, <3>1
    <3> QED BY <2>2, <3>4, <3>5, Zenon
  <2> QED BY <2>3, <2>4
<1>7. k[n] = x
  <2>1. n \in 0..n
    BY <1>1
  <2>2. k[n] = SubSeq(x, 1, n)
    BY <1>6, <2>1
  <2>3. SubSeq(x, 1, n) = x
    BY SubSeqFull
  <2> QED BY <2>2, <2>3, Zenon
<1>8. k[n + 1] = k[n]
  <2>1. n + 1 \in 0..(n + 1) /\ n + 1 # 0 /\ (n + 1) - 1 = n
    BY <1>1
  <2> QED BY <1>3, <1>5, <2>1, Zenon
<1> QED
  BY <1>3, <1>4, <1>7, <1>8, Zenon DEF e

-----------------------------------------------------------------------------
(* Certificates.                                                           *)

\* None of the extensions of a certificate is the proof's.
LEMMA CertExtensionsAre ==
    ASSUME NEW dnsNames
    PROVE  \E T : /\ BuildCertExtensions(dnsNames) \in Seq(T)
                  /\ \A i \in 1..Len(BuildCertExtensions(dnsNames)) :
                        BuildCertExtensions(dnsNames)[i].id # proofOID
<1> DEFINE a == [id |-> "subjectAltName", value |-> dnsNames]
           b == [id |-> "keyUsage", value |-> <<>>]
           c == [id |-> "extKeyUsage", value |-> <<>>]
           d == [id |-> "basicConstraints", value |-> <<>>]
           T == {a, b, c, d}
           x == IF dnsNames = <<>> THEN <<>> ELSE <<a>>
           y == <<b, c, d>>
           e == x \o y
<1>1. \A z \in T : z.id # proofOID
  BY DEF proofOID
<1>2. x \in Seq(T) /\ y \in Seq(T)
  <2>1. a \in T /\ b \in T /\ c \in T /\ d \in T
    OBVIOUS
  <2> HIDE DEF a, b, c, d, T
  <2> QED BY <2>1
<1>3. e = BuildCertExtensions(dnsNames)
  BY Zenon DEF BuildCertExtensions
<1> HIDE DEF T, x, y
<1>4. e \in Seq(T)
  BY <1>2, ConcatProperties
<1> HIDE DEF e
<1>5. \A i \in 1..Len(e) : e[i].id # proofOID
  <2>1. \A i \in 1..Len(e) : e[i] \in T
    BY <1>4, ElementOfSeq
  <2> QED BY <1>1, <2>1
<1> QED
  BY <1>3, <1>4, <1>5, Zenon

\* The precertificate is what is left of a certificate without the proof, which is
\* found by its OID.
LEMMA EmbeddedIs ==
    ASSUME NEW c, NEW serial, NEW nb, NEW na, NEW content
    PROVE  LET ext  == [id |-> proofOID, value |-> <<content>>]
               cert == localTBS(c, serial, nb, na, <<ext>>)
           IN  /\ StripMTCExtension(cert) = localTBS(c, serial, nb, na, <<>>)
               /\ proofExt(cert) = content
               /\ cert.alg = "ecdsa"
<1> DEFINE ext  == [id |-> proofOID, value |-> <<content>>]
           cert == localTBS(c, serial, nb, na, <<ext>>)
           x == BuildCertExtensions(c.dnsNames)
           e == x \o <<ext>>
           n == Len(x)
<1>1. PICK T : x \in Seq(T) /\ \A i \in 1..n : x[i].id # proofOID
  BY CertExtensionsAre
<1> HIDE DEF x
<1>2. n \in Nat
  BY <1>1
<1>3. filterExtensions(e, proofOID) = x
  <2>1. ext.id = proofOID
    OBVIOUS
  <2> HIDE DEF ext
  <2> QED BY <1>1, <2>1, FilterLast
<1>4. x \o <<>> = x
  BY <1>1, ConcatEmptySeq
<1>5. cert = [type |-> "precert", alg |-> "ecdsa", serial |-> serial, subject |-> certSubject(c),
              notBefore |-> nb, notAfter |-> na, spki |-> c.key, extensions |-> e]
  BY Zenon DEF localTBS, x
<1>6. localTBS(c, serial, nb, na, <<>>) =
          [type |-> "precert", alg |-> "ecdsa", serial |-> serial, subject |-> certSubject(c),
           notBefore |-> nb, notAfter |-> na, spki |-> c.key, extensions |-> x]
  BY <1>4, Zenon DEF localTBS, x
<1> HIDE DEF e, cert
<1>7. StripMTCExtension(cert) = localTBS(c, serial, nb, na, <<>>)
  <2>1. cert.extensions = e
    BY <1>5
  <2>2. StripMTCExtension(cert) = [cert EXCEPT !.extensions = x]
    BY <1>3, <2>1, Zenon DEF StripMTCExtension
  <2>3. [cert EXCEPT !.extensions = x] =
            [type |-> "precert", alg |-> "ecdsa", serial |-> serial, subject |-> certSubject(c),
             notBefore |-> nb, notAfter |-> na, spki |-> c.key, extensions |-> x]
    BY <1>5
  <2> QED BY <1>6, <2>2, <2>3
<1>8. Len(e) = n + 1 /\ e[n + 1] = ext /\ \A i \in 1..n : e[i] = x[i]
  <2> DEFINE U == T \cup {ext}
  <2>1. x \in Seq(U) /\ <<ext>> \in Seq(U) /\ Len(<<ext>>) = 1 /\ <<ext>>[1] = ext /\ 1 \in 1..1
    <3>1. T \subseteq U /\ ext \in U
      OBVIOUS
    <3> HIDE DEF U, ext
    <3> QED BY <1>1, <3>1, SeqMonotonic
  <2> HIDE DEF U, ext
  <2>2. Joined(e, x, <<ext>>, U)
    BY <2>1, ConcatIs DEF e
  <2> QED BY <2>1, <2>2, Zenon DEF Joined
<1>9. proofExt(cert) = content
  <2> DEFINE First(i) == /\ cert.extensions[i].id = proofOID
                         /\ \A j \in 1..(i - 1) : cert.extensions[j].id # proofOID
             first == CHOOSE i \in 1..Len(cert.extensions) : First(i)
  <2>1. cert.extensions = e
    BY <1>5
  <2>2. n + 1 \in 1..Len(cert.extensions) /\ (n + 1) - 1 = n
    BY <1>2, <1>8, <2>1
  <2>3. First(n + 1)
    <3>1. e[n + 1].id = proofOID
      BY <1>8
    <3> HIDE DEF ext
    <3>2. \A j \in 1..n : e[j].id # proofOID
      BY <1>1, <1>8
    <3> QED BY <2>1, <2>2, <3>1, <3>2, Zenon
  <2>4. ASSUME NEW i \in 1..Len(cert.extensions), First(i) PROVE i = n + 1
    <3>1. i \in 1..(n + 1)
      BY <1>8, <2>1
    <3>2. i \notin 1..n
      <4> SUFFICES ASSUME i \in 1..n PROVE FALSE
        OBVIOUS
      <4>1. e[i].id = proofOID
        BY <2>1, <2>4, Zenon
      <4>2. e[i] = x[i] /\ x[i].id # proofOID
        BY <1>1, <1>8, Zenon
      <4> QED BY <4>1, <4>2
    <3> QED BY <1>2, <3>1, <3>2
  <2> HIDE DEF First
  <2>5. first = n + 1
    BY <2>2, <2>3, <2>4
  <2>6. proofExt(cert) = cert.extensions[first].value[1]
    BY Zenon DEF proofExt, First
  <2> HIDE DEF first
  <2>7. proofExt(cert) = ext.value[1]
    BY <1>8, <2>1, <2>5, <2>6, Zenon
  <2> QED BY <2>7
<1>10. cert.alg = "ecdsa"
  BY <1>5
<1> QED
  BY <1>7, <1>9, <1>10, Zenon DEF cert

-----------------------------------------------------------------------------
(* The inductive invariant.                                                *)

\* The precertificate of an order that is built at second t, and the log entry
\* of one whose clock is read at t and again at u.
PrecertAt(o, t)     == localTBS(csr(o), o, t, t + config.validity, <<>>)
MTCEntryAt(o, t, u) == BuildLogEntryFromCSR(csr(o), t, u + NinetyDays)

\* The entry that an order has built by now.
Built(o) ==
    \E t \in 0..clock : \E u \in t..clock :
        entry[o] = IF config.mtc THEN MTCEntryAt(o, t, u) ELSE PrecertAt(o, t)

\* A path that is as long as that of a leaf in a tree, whatever its hashes are.
PathIn(path, idx, size) ==
    /\ path \in Seq({path[k] : k \in 1..Len(path)})
    /\ Len(path) = pathLen(idx, <<0, size>>)

\* The certificate that was made of an order's entry and of what was issued for it.
EmbeddedMade(o, r) ==
    \E sorted \in orderings(r.proof) :
        certs[o] = localTBS(csr(o), entry[o].serial, entry[o].notBefore, entry[o].notAfter,
                            MarshalExtension(r.leaf_index, r.checkpoint, sorted))

\* The clock does not go back between its three readings.
MTCMade(o, r) ==
    \E t \in 0..clock : \E u \in t..clock : \E v \in u..clock :
        /\ entry[o] = MTCEntryAt(o, t, u)
        /\ certs[o] = BuildMTCCertificate(csr(o), v, v + config.validity, r.leaf_index,
                                          signatureless(r.checkpoint.tree_size, r.proof))

OrderInv(o) ==
    /\ pc[o] = "start" <=> entry[o] = NoEntry
    /\ pc[o] # "start" => Built(o)
    /\ pc[o] = "store" => PathIn(proof[o], base[o], cp[o].tree_size)
    /\ o \in DOMAIN issued =>
          /\ pc[o] = "done"
          /\ PathIn(issued[o].proof, issued[o].leaf_index, issued[o].checkpoint.tree_size)
          /\ IF config.mtc THEN MTCMade(o, issued[o]) ELSE EmbeddedMade(o, issued[o])

\* A landmark has the size and the root of a checkpoint.
LandmarksSaved ==
    \A s \in DOMAIN landmarks : \E i \in 1..Len(checkpoints) :
        checkpoints[i].tree_size = s /\ checkpoints[i].root_hash = landmarks[s]

CertIInv ==
    /\ IInv /\ DOMAIN proof = Procs
    /\ turns \in BOOLEAN /\ (turns => SerialInv)
    /\ config.validity \in Nat /\ clock \in 0..MaxClock
    /\ DOMAIN subjects = Orders /\ DOMAIN entry = Orders /\ DOMAIN certs = Orders
    /\ LandmarksSaved
    /\ \A o \in Orders : OrderInv(o)

-----------------------------------------------------------------------------
(* What the log's steps leave to an order.                                 *)

\* An order goes on only by its own steps, of which all but these are the log's.
KeepsOrder(o) ==
    /\ pc'[o] = "start" <=> pc[o] = "start"
    /\ pc[o] = "done" => pc'[o] = "done"
    /\ pc'[o] = "store" => \/ BuildProof(o)
                           \/ /\ pc[o] = "store" /\ base'[o] = base[o]
                              /\ cp'[o] = cp[o] /\ proof'[o] = proof[o]

KeepsOrders ==
    /\ issued' = issued /\ DOMAIN proof' = Procs
    /\ \A o \in Orders : KeepsOrder(o)

\* A step of a goroutine inside the log, which leaves the others alone.
LEMMA MoverKeeps ==
    ASSUME NEW p \in Procs, issued' = issued, DOMAIN proof' = Procs,
           pc[p] \notin {"start", "done"}, pc'[p] \notin {"start", "store"},
           \A q \in Procs \ {p} : /\ pc'[q] = pc[q] /\ base'[q] = base[q]
                                  /\ cp'[q] = cp[q] /\ proof'[q] = proof[q]
    PROVE  KeepsOrders
<1> SUFFICES ASSUME NEW o \in Orders PROVE KeepsOrder(o)
  BY DEF KeepsOrders
<1>1. o \in Procs
  BY DEF Procs
<1> QED
  BY <1>1 DEF KeepsOrder

\* What moves and what stays in the locals of the goroutines.
Others(p) ==
    \A q \in Procs \ {p} : /\ pc'[q] = pc[q] /\ base'[q] = base[q]
                           /\ cp'[q] = cp[q] /\ proof'[q] = proof[q]

LEMMA OthersStay ==
    ASSUME IInv, DOMAIN proof = Procs, NEW p \in Procs, NEW to, pc' = [pc EXCEPT ![p] = to],
           base' = base \/ \E b : base' = [base EXCEPT ![p] = b],
           cp' = cp \/ \E c : cp' = [cp EXCEPT ![p] = c],
           proof' = proof \/ \E path : proof' = [proof EXCEPT ![p] = path]
    PROVE  pc'[p] = to /\ DOMAIN proof' = Procs /\ Others(p)
<1>1. DOMAIN pc = Procs /\ DOMAIN base = Procs /\ DOMAIN cp = Procs
  BY DEF IInv, TypeOK
<1> QED
  BY <1>1 DEF Others

LEMMA ReturnLeaves ==
    ASSUME IInv, DOMAIN proof = Procs, NEW p \in Procs, NEW to, Return(p, to)
    PROVE  pc'[p] = to /\ DOMAIN proof' = Procs /\ Others(p)
<1>1. /\ pc' = [pc EXCEPT ![p] = to] /\ base' = [base EXCEPT ![p] = 0]
      /\ cp' = [cp EXCEPT ![p] = NoCp] /\ proof' = [proof EXCEPT ![p] = NoProof]
  BY DEF Return, Reset, Goto
<1> QED
  BY <1>1, OthersStay, Zenon

LEMMA GotoLeaves ==
    ASSUME IInv, DOMAIN proof = Procs, NEW p \in Procs, NEW to, Goto(p, to), base' = base, cp' = cp, proof' = proof
    PROVE  pc'[p] = to /\ DOMAIN proof' = Procs /\ Others(p)
  BY OthersStay, Zenon DEF Goto

\* Where the steps of the log lead.
Inside(p) == pc[p] \notin {"start", "done"} /\ pc'[p] \notin {"start", "store"} /\ Others(p) /\ DOMAIN proof' = Procs

LEMMA ErrorLeaves ==
    ASSUME IInv, DOMAIN proof = Procs, NEW p \in Procs, Return(p, OnError(p)), pc[p] \notin {"start", "done"}
    PROVE  Inside(p)
<1>1. OnError(p) \notin {"start", "store"}
  BY DEF OnError
<1> QED
  BY <1>1, ReturnLeaves, Zenon DEF Inside

LEMMA AppendLeaves ==
    ASSUME IInv, DOMAIN proof = Procs, NEW p \in Procs,
           ReadSize(p) \/ AppendEntries(p) \/ AppendConflict(p) \/ SetLeaves(p) \/ SetLevel(p)
    PROVE  issued' = issued /\ Inside(p)
<1>1. CASE ReadSize(p)
  <2>1. /\ pc[p] = "size" /\ pc' = [pc EXCEPT ![p] = "append"] /\ base' = [base EXCEPT ![p] = TreeSize]
        /\ cp' = cp /\ proof' = proof /\ issued' = issued
    BY <1>1, Zenon DEF ReadSize, Goto, tables
  <2>2. pc'[p] = "append" /\ DOMAIN proof' = Procs /\ Others(p)
    BY <2>1, OthersStay, Zenon
  <2> QED BY <2>1, <2>2 DEF Inside
<1>2. CASE AppendEntries(p) \/ SetLeaves(p)
  <2>1. PICK to \in {"leaf", "left"} :
            /\ pc[p] \in {"append", "leaf"} /\ Goto(p, to) /\ base' = base /\ cp' = cp /\ proof' = proof
            /\ issued' = issued
    BY <1>2, Zenon DEF AppendEntries, SetLeaves
  <2>2. pc'[p] = to /\ DOMAIN proof' = Procs /\ Others(p)
    BY <2>1, GotoLeaves, Zenon
  <2> QED BY <2>1, <2>2 DEF Inside
<1>3. CASE AppendConflict(p)
  <2>1. pc[p] = "append" /\ Return(p, OnError(p)) /\ issued' = issued
    BY <1>3, Zenon DEF AppendConflict, tables
  <2> QED BY <2>1, ErrorLeaves
<1>4. CASE SetLevel(p)
  <2>1. PICK to \in {"left", "cursor", "cp_size"} :
            /\ pc[p] = "write" /\ Goto(p, to) /\ base' = base /\ cp' = cp /\ proof' = proof
            /\ issued' = issued
    BY <1>4, Zenon DEF SetLevel
  <2>2. pc'[p] = to /\ DOMAIN proof' = Procs /\ Others(p)
    BY <2>1, GotoLeaves, Zenon
  <2> QED BY <2>1, <2>2 DEF Inside
<1> QED
  BY <1>1, <1>2, <1>3, <1>4

LEMMA ReadLeaves ==
    ASSUME IInv, DOMAIN proof = Procs, NEW p \in Procs, NEW lost, ReadLeft(p, lost) \/ ReadRight(p, lost)
    PROVE  issued' = issued /\ Inside(p)
<1>1. PICK to \in {"left", "right", "write"} :
          /\ pc[p] \in {"left", "right"} /\ Goto(p, to) /\ base' = base /\ cp' = cp /\ proof' = proof
          /\ issued' = issued
  BY Zenon DEF ReadLeft, ReadRight, NextIdx, tables
<1>2. pc'[p] = to /\ DOMAIN proof' = Procs /\ Others(p)
  BY <1>1, GotoLeaves, Zenon
<1> QED BY <1>1, <1>2 DEF Inside

LEMMA CheckpointLeavesOrders ==
    ASSUME IInv, DOMAIN proof = Procs, NEW p \in Procs,
           CheckpointSize(p) \/ CheckpointRoot(p) \/ CheckpointLeaves(p) \/ SaveCheckpoint(p)
    PROVE  issued' = issued /\ Inside(p)
<1>1. /\ pc[p] \in {"cp_size", "cp_root", "cp_leaves", "cp_save"} /\ issued' = issued
      /\ \/ Return(p, OnError(p)) \/ Return(p, "idle")
         \/ /\ \E to \in {"cp_root", "cp_leaves", "cp_save", "proof"} : Goto(p, to)
            /\ base' = base /\ proof' = proof
            /\ cp' = cp \/ \E c : cp' = [cp EXCEPT ![p] = c]
  <2>1. CASE CheckpointSize(p)
    BY <2>1, Zenon DEF CheckpointSize, tables
  <2>2. CASE CheckpointRoot(p)
    BY <2>2, Zenon DEF CheckpointRoot, tables
  <2>3. CASE CheckpointLeaves(p)
    BY <2>3, Zenon DEF CheckpointLeaves, tables
  <2>4. CASE SaveCheckpoint(p)
    BY <2>4, Zenon DEF SaveCheckpoint
  <2> QED BY <2>1, <2>2, <2>3, <2>4
<1>2. CASE Return(p, OnError(p))
  BY <1>1, <1>2, ErrorLeaves
<1>3. CASE Return(p, "idle")
  <2>1. pc'[p] = "idle" /\ DOMAIN proof' = Procs /\ Others(p)
    BY <1>3, ReturnLeaves
  <2> QED BY <1>1, <2>1 DEF Inside
<1>4. ASSUME NEW to \in {"cp_root", "cp_leaves", "cp_save", "proof"}, Goto(p, to), base' = base, proof' = proof,
             cp' = cp \/ \E c : cp' = [cp EXCEPT ![p] = c]
      PROVE  Inside(p)
  <2>1. pc'[p] = to /\ DOMAIN proof' = Procs /\ Others(p)
    BY <1>4, OthersStay, Zenon DEF Goto
  <2> QED BY <1>1, <2>1 DEF Inside
<1> QED
  BY <1>1, <1>2, <1>3, <1>4

LEMMA WatcherLeaves ==
    ASSUME IInv, DOMAIN proof = Procs, Initialize \/ UpdateWatcherCursor \/ PollCertificates \/ CheckpointTick
    PROVE  issued' = issued /\ Inside(Watcher)
<1>0. Watcher \in Procs
  BY DEF Procs
<1>1. /\ pc[Watcher] \in {"init_size", "init_append", "init_leaf", "poll", "idle", "cursor"} /\ issued' = issued
      /\ \/ Return(Watcher, "idle")
         \/ /\ \E to \in {"poll", "init_append", "init_leaf", "size", "idle", "cp_size", OnError(Watcher)} :
                   Goto(Watcher, to)
            /\ base' = base /\ proof' = proof /\ cp' = cp
  <2>1. CASE InitializeSize
    BY <2>1, Zenon DEF InitializeSize, tables
  <2>2. CASE InitializeAppend
    BY <2>2, Zenon DEF InitializeAppend
  <2>3. CASE InitializeLeaf
    BY <2>3, Zenon DEF InitializeLeaf
  <2>4. CASE UpdateWatcherCursor
    BY <2>4, Zenon DEF UpdateWatcherCursor
  <2>5. CASE PollCertificates
    BY <2>5, Zenon DEF PollCertificates, tables
  <2>6. CASE CheckpointTick
    BY <2>6, Zenon DEF CheckpointTick, tables
  <2> QED BY <2>1, <2>2, <2>3, <2>4, <2>5, <2>6 DEF Initialize
<1>2. CASE Return(Watcher, "idle")
  <2>1. pc'[Watcher] = "idle" /\ DOMAIN proof' = Procs /\ Others(Watcher)
    BY <1>0, <1>2, ReturnLeaves
  <2> QED BY <1>1, <2>1 DEF Inside
<1>3. ASSUME NEW to \in {"poll", "init_append", "init_leaf", "size", "idle", "cp_size", OnError(Watcher)},
             Goto(Watcher, to), base' = base, proof' = proof, cp' = cp
      PROVE  Inside(Watcher)
  <2>1. pc'[Watcher] = to /\ DOMAIN proof' = Procs /\ Others(Watcher)
    BY <1>0, <1>3, GotoLeaves, Zenon
  <2>2. to \notin {"start", "store"}
    BY DEF OnError
  <2> QED BY <1>1, <2>1, <2>2 DEF Inside
<1> QED
  BY <1>1, <1>2, <1>3

\* The steps of the log in which no entry or certificate is built.
LEMMA LogKeepsOrders ==
    ASSUME IInv, DOMAIN proof = Procs,
           \/ CAIssue \/ WatcherStep \/ PollCertificates \/ CheckpointTick \/ Crash
           \/ \E o \in Orders : LogStep(o) \/ BuildProof(o)
           \/ \E p \in Procs : LostRead(p) \/ Fault(p)
    PROVE  KeepsOrders
<1>0. Watcher \in Procs /\ Orders \subseteq Procs /\ DOMAIN pc = Procs
  BY DEF Procs, IInv, TypeOK
<1>1. ASSUME NEW p \in Procs, issued' = issued, Inside(p) PROVE KeepsOrders
  BY <1>1, MoverKeeps, Zenon DEF Inside, Others
<1>2. ASSUME NEW p \in Procs, LogStep(p) PROVE KeepsOrders
  <2>1. CASE ReadChild(p)
    BY <1>1, <2>1, ReadLeaves, Zenon DEF ReadChild
  <2>2. CASE ReadSize(p) \/ AppendEntries(p) \/ AppendConflict(p) \/ SetLeaves(p) \/ SetLevel(p)
    BY <1>1, <2>2, AppendLeaves, Zenon
  <2>3. CASE CheckpointSize(p) \/ CheckpointRoot(p) \/ CheckpointLeaves(p) \/ SaveCheckpoint(p)
    BY <1>1, <2>3, CheckpointLeavesOrders, Zenon
  <2> QED BY <1>2, <2>1, <2>2, <2>3, Zenon DEF LogStep
<1>3. CASE Initialize \/ UpdateWatcherCursor \/ PollCertificates \/ CheckpointTick
  BY <1>0, <1>1, <1>3, WatcherLeaves, Zenon
<1>4. ASSUME NEW p \in Procs, LostRead(p) PROVE KeepsOrders
  BY <1>1, <1>4, ReadLeaves, Zenon DEF LostRead
<1>5. ASSUME NEW p \in Procs, Fault(p) PROVE KeepsOrders
  <2>1. pc[p] \notin {"start", "done"} /\ Return(p, OnError(p)) /\ issued' = issued
    BY <1>5, Zenon DEF Fault, tables
  <2> QED BY <1>1, <2>1, ErrorLeaves, Zenon
<1>6. CASE CAIssue
  <2>1. issued' = issued /\ pc' = pc /\ base' = base /\ cp' = cp /\ proof' = proof
    BY <1>6, Zenon DEF CAIssue, tables, locals
  <2> QED BY <2>1 DEF KeepsOrders, KeepsOrder
<1>7. CASE Crash
  <2>1. /\ issued' = issued /\ DOMAIN proof' = Procs
        /\ pc' = [p \in Procs |-> IF p = Watcher THEN "init_size"
                                  ELSE IF pc[p] \in {"start", "done"} THEN pc[p] ELSE "failed"]
    BY <1>7 DEF Crash, tables
  <2>2. ASSUME NEW o \in Orders PROVE KeepsOrder(o)
    <3>1. pc'[o] = IF pc[o] \in {"start", "done"} THEN pc[o] ELSE "failed"
      BY <1>0, <2>1, ProcsAssumption
    <3> QED BY <3>1 DEF KeepsOrder
  <2> QED BY <2>1, <2>2 DEF KeepsOrders
<1>8. ASSUME NEW o \in Orders, BuildProof(o) PROVE KeepsOrders
  <2>1. /\ pc[o] = "proof" /\ pc' = [pc EXCEPT ![o] = "store"] /\ base' = base /\ cp' = cp /\ issued' = issued
        /\ \E path : proof' = [proof EXCEPT ![o] = path]
    BY <1>8, Zenon DEF BuildProof, Goto, tables
  <2>2. pc'[o] = "store" /\ DOMAIN proof' = Procs /\ Others(o)
    BY <1>0, <2>1, OthersStay, Zenon
  <2>3. ASSUME NEW q \in Orders PROVE KeepsOrder(q)
    <3>1. CASE q = o
      BY <1>8, <2>1, <2>2, <3>1 DEF KeepsOrder
    <3>2. CASE q # o
      BY <1>0, <2>2, <3>2 DEF KeepsOrder, Others
    <3> QED BY <3>1, <3>2
  <2> QED BY <2>1, <2>2, <2>3 DEF KeepsOrders
<1> QED
  BY <1>0, <1>2, <1>3, <1>4, <1>5, <1>6, <1>7, <1>8, Zenon DEF WatcherStep

-----------------------------------------------------------------------------
(* The parts of the invariant, one step further.                           *)

\* Checkpoints are only added.
CheckpointsStay ==
    /\ Len(checkpoints) \in Nat /\ Len(checkpoints') \in Nat /\ Len(checkpoints) <= Len(checkpoints')
    /\ \A i \in 1..Len(checkpoints) : checkpoints'[i] = checkpoints[i]

LEMMA CheckpointsGrow ==
    ASSUME IInv, [Next]_vars
    PROVE  CheckpointsStay
<1>1. checkpoints \in Seq({checkpoints[i] : i \in 1..Len(checkpoints)})
  BY DEF IInv, TypeOK
<1>2. checkpoints' = checkpoints \/ \E p \in Procs : checkpoints' = Append(checkpoints, cp[p])
  <2>1. ASSUME NEW p \in Procs, LogStep(p)
        PROVE  checkpoints' = checkpoints \/ checkpoints' = Append(checkpoints, cp[p])
    BY <2>1, Zenon DEF LogStep, ReadSize, AppendEntries, AppendConflict, SetLeaves, ReadChild, ReadLeft,
       ReadRight, SetLevel, CheckpointSize, CheckpointRoot, CheckpointLeaves, SaveCheckpoint, tables
  <2>2. CASE WatcherStep
    <3>1. CASE Initialize \/ UpdateWatcherCursor
      BY <3>1, Zenon DEF Initialize, InitializeSize, InitializeAppend, InitializeLeaf, UpdateWatcherCursor, tables
    <3> QED BY <2>1, <2>2, <3>1 DEF WatcherStep, Procs
  <2>3. ASSUME NEW o \in Orders, StartFinalize(o) \/ OrderStep(o)
        PROVE  checkpoints' = checkpoints \/ checkpoints' = Append(checkpoints, cp[o])
    <3>1. CASE StartFinalize(o) \/ BuildProof(o) \/ StoreCert(o)
      BY <3>1, Zenon DEF StartFinalize, BuildProof, StoreCert, tables
    <3> QED BY <2>1, <2>3, <3>1 DEF OrderStep, Procs
  <2>4. ASSUME NEW p \in Procs, LostRead(p) \/ Fault(p) PROVE checkpoints' = checkpoints
    BY <2>4, Zenon DEF LostRead, ReadLeft, ReadRight, Fault, tables
  <2>5. CASE CAIssue \/ PollCertificates \/ CheckpointTick \/ Crash \/ UNCHANGED vars
    BY <2>5, Zenon DEF CAIssue, PollCertificates, CheckpointTick, Crash, vars, tables
  <2> QED BY <2>2, <2>3, <2>4, <2>5 DEF Next, Procs
<1>3. CASE checkpoints' = checkpoints
  BY <1>1, <1>3 DEF CheckpointsStay
<1>4. ASSUME NEW c, checkpoints' = Append(checkpoints, c) PROVE CheckpointsStay
  <2>1. /\ Len(checkpoints) \in Nat /\ Len(checkpoints') = Len(checkpoints) + 1
        /\ \A i \in 1..Len(checkpoints) : checkpoints'[i] = checkpoints[i]
    BY <1>1, <1>4, AppendRow
  <2> QED BY <2>1 DEF CheckpointsStay
<1> QED
  BY <1>2, <1>3, <1>4

LEMMA LandmarksKept ==
    ASSUME LandmarksSaved, CheckpointsStay, landmarks' = landmarks
    PROVE  LandmarksSaved'
<1> SUFFICES ASSUME NEW s \in DOMAIN landmarks
             PROVE  \E i \in 1..Len(checkpoints') :
                        checkpoints'[i].tree_size = s /\ checkpoints'[i].root_hash = landmarks[s]
  BY DEF LandmarksSaved
<1>1. PICK i \in 1..Len(checkpoints) : checkpoints[i].tree_size = s /\ checkpoints[i].root_hash = landmarks[s]
  BY DEF LandmarksSaved
<1>2. i \in 1..Len(checkpoints') /\ checkpoints'[i] = checkpoints[i]
  BY DEF CheckpointsStay
<1> QED
  BY <1>1, <1>2

LEMMA LandmarkMade ==
    ASSUME IInv, LandmarksSaved, DesignateLandmark
    PROVE  LandmarksSaved'
<1> DEFINE n == Len(checkpoints)
           c == checkpoints[n]
<1>1. n \in Nat /\ n # 0
  <2>1. checkpoints \in Seq({checkpoints[i] : i \in 1..Len(checkpoints)}) /\ checkpoints # <<>>
    BY DEF IInv, TypeOK, DesignateLandmark
  <2> QED BY <2>1
<1>2. LatestCheckpoint = c
  BY DEF LatestCheckpoint, DesignateLandmark
<1>3. checkpoints' = checkpoints /\ landmarks' = Landmark(c.tree_size, c.root_hash)
  BY <1>2, Zenon DEF DesignateLandmark, vars
<1> SUFFICES ASSUME NEW s \in DOMAIN landmarks'
             PROVE  \E i \in 1..n : checkpoints[i].tree_size = s /\ checkpoints[i].root_hash = landmarks'[s]
  BY <1>3 DEF LandmarksSaved
<1>4. CASE s \in DOMAIN landmarks
  <2>1. landmarks'[s] = landmarks[s]
    BY <1>3, <1>4 DEF Landmark, Upsert
  <2> QED BY <1>4, <2>1 DEF LandmarksSaved
<1>5. CASE s \notin DOMAIN landmarks
  <2>1. s = c.tree_size /\ landmarks'[s] = c.root_hash
    BY <1>3, <1>5 DEF Landmark, Upsert
  <2>2. n \in 1..n
    BY <1>1
  <2> QED BY <2>1, <2>2
<1> QED
  BY <1>4, <1>5

\* Time only adds to the seconds at which something can have happened.
LEMMA ClockKeeps ==
    ASSUME clock \in 0..MaxClock, clock' \in 0..MaxClock, clock <= clock'
    PROVE  /\ \A t \in 0..clock : t \in 0..clock' /\ \A u \in t..clock : u \in t..clock'
           /\ \A t \in 0..clock : \A u \in t..clock : \A v \in u..clock : v \in u..clock'
<1>1. clock \in Nat /\ clock' \in Nat
  BY CertAssumption
<1> QED
  BY <1>1

\* What stays of an order that does not build anything.
Same(o) == subjects'[o] = subjects[o] /\ entry'[o] = entry[o] /\ certs'[o] = certs[o]

LEMMA BuiltKept ==
    ASSUME NEW o, Built(o), Same(o), config' = config,
           clock \in 0..MaxClock, clock' \in 0..MaxClock, clock <= clock'
    PROVE  Built(o)'
<1>1. csr(o)' = csr(o)
  BY Zenon DEF csr, Same
<1>2. \A t, u : PrecertAt(o, t)' = PrecertAt(o, t) /\ MTCEntryAt(o, t, u)' = MTCEntryAt(o, t, u)
  BY <1>1, Zenon DEF PrecertAt, MTCEntryAt
<1>3. PICK t \in 0..clock : \E u \in t..clock : entry[o] = IF config.mtc THEN MTCEntryAt(o, t, u) ELSE PrecertAt(o, t)
  BY Zenon DEF Built
<1>4. PICK u \in t..clock : entry[o] = IF config.mtc THEN MTCEntryAt(o, t, u) ELSE PrecertAt(o, t)
  BY <1>3, Zenon
<1>5. t \in 0..clock' /\ u \in t..clock'
  BY <1>3, <1>4, ClockKeeps
<1>6. entry'[o] = IF config'.mtc THEN MTCEntryAt(o, t, u)' ELSE PrecertAt(o, t)'
  BY <1>2, <1>4, Zenon DEF Same
<1> QED
  BY <1>5, <1>6, Zenon DEF Built

LEMMA MadeKept ==
    ASSUME NEW o, NEW r, Same(o), config' = config,
           clock \in 0..MaxClock, clock' \in 0..MaxClock, clock <= clock'
    PROVE  /\ MTCMade(o, r) => MTCMade(o, r)'
           /\ EmbeddedMade(o, r) => EmbeddedMade(o, r)'
<1>1. csr(o)' = csr(o)
  BY Zenon DEF csr, Same
<1>2. \A t, u : MTCEntryAt(o, t, u)' = MTCEntryAt(o, t, u)
  BY <1>1, Zenon DEF MTCEntryAt
<1>3. ASSUME MTCMade(o, r) PROVE MTCMade(o, r)'
  <2>1. PICK t \in 0..clock : \E u \in t..clock : \E v \in u..clock :
            /\ entry[o] = MTCEntryAt(o, t, u)
            /\ certs[o] = BuildMTCCertificate(csr(o), v, v + config.validity, r.leaf_index,
                                              signatureless(r.checkpoint.tree_size, r.proof))
    BY <1>3, Zenon DEF MTCMade
  <2>2. PICK u \in t..clock : \E v \in u..clock :
            /\ entry[o] = MTCEntryAt(o, t, u)
            /\ certs[o] = BuildMTCCertificate(csr(o), v, v + config.validity, r.leaf_index,
                                              signatureless(r.checkpoint.tree_size, r.proof))
    BY <2>1, Zenon
  <2>3. PICK v \in u..clock :
            /\ entry[o] = MTCEntryAt(o, t, u)
            /\ certs[o] = BuildMTCCertificate(csr(o), v, v + config.validity, r.leaf_index,
                                              signatureless(r.checkpoint.tree_size, r.proof))
    BY <2>2, Zenon
  <2>4. t \in 0..clock' /\ u \in t..clock' /\ v \in u..clock'
    BY ClockKeeps, Zenon
  <2>5. /\ entry'[o] = MTCEntryAt(o, t, u)'
        /\ certs'[o] = BuildMTCCertificate(csr(o)', v, v + config'.validity, r.leaf_index,
                                           signatureless(r.checkpoint.tree_size, r.proof))
    BY <1>1, <1>2, <2>3, Zenon DEF Same
  <2> QED BY <2>4, <2>5, Zenon DEF MTCMade
<1>4. ASSUME EmbeddedMade(o, r) PROVE EmbeddedMade(o, r)'
  BY <1>1, <1>4, Zenon DEF EmbeddedMade, Same
<1> QED
  BY <1>3, <1>4

\* A proof is as long as the path, whichever rows were read.
LEMMA BuiltPath ==
    ASSUME IInv, DOMAIN proof = Procs, NEW o \in Orders, BuildProof(o)
    PROVE  PathIn(proof'[o], base'[o], cp'[o].tree_size)
<1>1. /\ o \in Procs /\ base' = base /\ cp' = cp
      /\ \E lost : proof' = [proof EXCEPT ![o] =
            InclusionProofFromNodes(base[o], cp[o].tree_size, Without(tree_nodes, lost))]
  BY Zenon DEF BuildProof, Procs
<1>2. PICK nodes : proof'[o] = InclusionProofFromNodes(base[o], cp[o].tree_size, nodes)
  BY <1>1
<1> DEFINE i == base[o]
           s == cp[o].tree_size
<1>3. s \in Nat \ {0}
  <2>1. pc[o] = "proof" /\ CheckpointCovers(o)
    BY <1>1 DEF BuildProof, IInv, LocalInv
  <2>2. PICK j \in 1..Len(checkpoints) : checkpoints[j] = cp[o]
    BY <2>1 DEF CheckpointCovers
  <2> QED BY <2>2 DEF IInv, TypeOK
<1> HIDE DEF i, s
<1>4. PICK p : /\ \A n : InclusionProofFromNodes(i, n, nodes) = p[<<0, n>>]
               /\ ProofsOf(p, i, NodeHashes(nodes))
  BY InclusionProofFromNodesIs
<1>5. <<0, s>> \in Ranges
  BY <1>3 DEF Ranges
<1> DEFINE H == {NodeHashes(nodes)[q] : q \in Ranges}
<1>6. Len(p[<<0, s>>]) = pathLen(i, <<0, s>>) /\ p[<<0, s>>] \in Seq(H)
  BY <1>4, <1>5, ProofLength
<1> HIDE DEF H
<1>7. p[<<0, s>>] \in Seq({p[<<0, s>>][k] : k \in 1..Len(p[<<0, s>>])})
  BY <1>6, OwnElements, Zenon
<1>8. proof'[o] = p[<<0, s>>]
  BY <1>2, <1>4, Zenon DEF i, s
<1>9. PathIn(proof'[o], i, s)
  BY <1>6, <1>7, <1>8, Zenon DEF PathIn
<1> QED
  BY <1>1, <1>9, Zenon DEF i, s

\* An order that builds nothing keeps what is said of it.
LEMMA OrderKept ==
    ASSUME IInv, DOMAIN proof = Procs, NEW o \in Orders, OrderInv(o), KeepsOrder(o), Same(o), config' = config,
           o \in DOMAIN issued' <=> o \in DOMAIN issued, o \in DOMAIN issued => issued'[o] = issued[o],
           clock \in 0..MaxClock, clock' \in 0..MaxClock, clock <= clock'
    PROVE  OrderInv(o)'
<1>1. pc'[o] = "start" <=> entry'[o] = NoEntry
  BY Zenon DEF OrderInv, KeepsOrder, Same
<1>2. pc'[o] # "start" => Built(o)'
  BY BuiltKept, Zenon DEF OrderInv, KeepsOrder
<1>3. pc'[o] = "store" => PathIn(proof'[o], base'[o], cp'[o].tree_size)
  BY BuiltPath, Zenon DEF OrderInv, KeepsOrder
<1>4. o \in DOMAIN issued' =>
          /\ pc'[o] = "done"
          /\ PathIn(issued'[o].proof, issued'[o].leaf_index, issued'[o].checkpoint.tree_size)
          /\ IF config'.mtc THEN MTCMade(o, issued[o])' ELSE EmbeddedMade(o, issued[o])'
  <2> SUFFICES ASSUME o \in DOMAIN issued
               PROVE  /\ pc'[o] = "done"
                      /\ PathIn(issued[o].proof, issued[o].leaf_index, issued[o].checkpoint.tree_size)
                      /\ IF config.mtc THEN MTCMade(o, issued[o])' ELSE EmbeddedMade(o, issued[o])'
    BY Zenon
  <2>1. /\ pc[o] = "done"
        /\ PathIn(issued[o].proof, issued[o].leaf_index, issued[o].checkpoint.tree_size)
        /\ IF config.mtc THEN MTCMade(o, issued[o]) ELSE EmbeddedMade(o, issued[o])
    BY Zenon DEF OrderInv
  <2>2. \A r : (MTCMade(o, r) => MTCMade(o, r)') /\ (EmbeddedMade(o, r) => EmbeddedMade(o, r)')
    BY MadeKept
  <2>3. /\ MTCMade(o, issued[o]) => (MTCMade(o, issued[o]))'
        /\ EmbeddedMade(o, issued[o]) => (EmbeddedMade(o, issued[o]))'
    BY <2>2, Zenon DEF MTCMade, EmbeddedMade
  <2> QED BY <2>1, <2>3, Zenon DEF KeepsOrder
<1> QED
  BY <1>1, <1>2, <1>3, <1>4, Zenon DEF OrderInv

-----------------------------------------------------------------------------
(* The steps in which an entry or a certificate is built.                  *)

\* The fields of a log entry and of a precertificate that tell them apart.
HasFields(e, o, t, n) == e.spki = o /\ e.notBefore = t /\ e.notAfter = n /\ e # NoEntry

LEMMA BuiltFields ==
    ASSUME NEW o, NEW t, NEW n, NEW c, c.key = o
    PROVE  /\ HasFields(BuildLogEntryFromCSR(c, t, n), o, t, n)
           /\ HasFields(localTBS(c, o, t, n, <<>>), o, t, n) /\ localTBS(c, o, t, n, <<>>).serial = o
<1> DEFINE x == logExtensions(c.dnsNames)
           y == BuildCertExtensions(c.dnsNames) \o <<>>
           s == certSubject(c)
           z == c.subject
<1>2. BuildLogEntryFromCSR(c, t, n) = [type |-> "tbs_cert_entry", issuer |-> LogID, subject |-> z,
                                       notBefore |-> t, notAfter |-> n, spki |-> o, extensions |-> x]
  BY Zenon DEF BuildLogEntryFromCSR, BuildLogEntry
<1>3. localTBS(c, o, t, n, <<>>) = [type |-> "precert", alg |-> "ecdsa", serial |-> o, subject |-> s,
                                    notBefore |-> t, notAfter |-> n, spki |-> o, extensions |-> y]
  BY Zenon DEF localTBS
<1>4. NoEntry.type = "null" /\ "null" # "precert" /\ "null" # "tbs_cert_entry"
  BY DEF NoEntry
<1> HIDE DEF x, y, s, z
<1>6. /\ BuildLogEntryFromCSR(c, t, n).spki = o /\ BuildLogEntryFromCSR(c, t, n).notBefore = t
      /\ BuildLogEntryFromCSR(c, t, n).notAfter = n /\ BuildLogEntryFromCSR(c, t, n).type = "tbs_cert_entry"
  BY <1>2
<1>7. /\ localTBS(c, o, t, n, <<>>).spki = o /\ localTBS(c, o, t, n, <<>>).serial = o
      /\ localTBS(c, o, t, n, <<>>).notBefore = t /\ localTBS(c, o, t, n, <<>>).notAfter = n
      /\ localTBS(c, o, t, n, <<>>).type = "precert"
  BY <1>3
<1> QED
  BY <1>4, <1>6, <1>7, Zenon DEF HasFields

LEMMA EntryFields ==
    ASSUME NEW o, NEW t, NEW u
    PROVE  /\ MTCEntryAt(o, t, u).spki = o /\ MTCEntryAt(o, t, u).notBefore = t
           /\ MTCEntryAt(o, t, u).notAfter = u + NinetyDays /\ MTCEntryAt(o, t, u) # NoEntry
           /\ PrecertAt(o, t).spki = o /\ PrecertAt(o, t).serial = o /\ PrecertAt(o, t).notBefore = t
           /\ PrecertAt(o, t).notAfter = t + config.validity /\ PrecertAt(o, t) # NoEntry
<1>1. csr(o).key = o
  BY DEF csr
<1>2. HasFields(MTCEntryAt(o, t, u), o, t, u + NinetyDays)
  BY <1>1, BuiltFields, Zenon DEF MTCEntryAt
<1> DEFINE n == t + config.validity
           e == localTBS(csr(o), o, t, n, <<>>)
<1>3. HasFields(PrecertAt(o, t), o, t, t + config.validity) /\ PrecertAt(o, t).serial = o
  <2>1. PrecertAt(o, t) = e
    BY Zenon DEF PrecertAt
  <2>2. HasFields(e, o, t, n) /\ e.serial = o
    <3> HIDE DEF n
    <3> QED BY <1>1, BuiltFields
  <2> QED BY <2>1, <2>2, Zenon
<1> QED
  BY <1>2, <1>3, Zenon DEF HasFields

\* An order has an entry of its own, or none.
LEMMA BuiltOwn ==
    ASSUME NEW o, Built(o)
    PROVE  entry[o] # NoEntry /\ entry[o].spki = o
<1>1. PICK t \in 0..clock : \E u \in t..clock : entry[o] = IF config.mtc THEN MTCEntryAt(o, t, u) ELSE PrecertAt(o, t)
  BY Zenon DEF Built
<1>2. PICK u \in t..clock : entry[o] = IF config.mtc THEN MTCEntryAt(o, t, u) ELSE PrecertAt(o, t)
  BY <1>1, Zenon
<1>3. entry[o] = MTCEntryAt(o, t, u) \/ entry[o] = PrecertAt(o, t)
  BY <1>2, Zenon
<1>4. /\ MTCEntryAt(o, t, u).spki = o /\ MTCEntryAt(o, t, u) # NoEntry
      /\ PrecertAt(o, t).spki = o /\ PrecertAt(o, t) # NoEntry
  BY EntryFields
<1> QED
  BY <1>3, <1>4, Zenon

\* StartFinalize and StoreCert move one order, and leave the other orders alone.
LEMMA StartLeaves ==
    ASSUME IInv, DOMAIN proof = Procs, NEW o \in Orders, StartFinalize(o)
    PROVE  /\ issued' = issued /\ DOMAIN proof' = Procs /\ pc[o] = "start" /\ pc'[o] = "size"
           /\ \A q \in Orders \ {o} : KeepsOrder(q)
<1>1. /\ o \in Procs /\ Orders \subseteq Procs /\ pc[o] = "start" /\ Goto(o, "size") /\ base' = base /\ cp' = cp
      /\ proof' = proof /\ issued' = issued
  BY DEF StartFinalize, Procs, tables
<1>2. pc'[o] = "size" /\ DOMAIN proof' = Procs /\ Others(o)
  BY <1>1, GotoLeaves, Zenon
<1>3. ASSUME NEW q \in Orders \ {o} PROVE KeepsOrder(q)
  BY <1>1, <1>2 DEF KeepsOrder, Others
<1> QED
  BY <1>1, <1>2, <1>3

IssuedNow(o) == [leaf_index |-> base[o], checkpoint |-> cp[o], proof |-> proof[o]]

LEMMA StoreLeaves ==
    ASSUME IInv, DOMAIN proof = Procs, NEW o \in Orders, StoreCert(o)
    PROVE  /\ DOMAIN proof' = Procs /\ pc[o] = "store" /\ pc'[o] = "done"
           /\ issued' = Upsert(issued, [x \in {o} |-> IssuedNow(o)])
           /\ \A q \in Orders \ {o} : KeepsOrder(q)
<1>1. /\ o \in Procs /\ Orders \subseteq Procs /\ pc[o] = "store" /\ Return(o, "done")
      /\ issued' = Upsert(issued, [x \in {o} |-> IssuedNow(o)])
  BY Zenon DEF StoreCert, Procs, IssuedNow
<1>2. pc'[o] = "done" /\ DOMAIN proof' = Procs /\ Others(o)
  BY <1>1, ReturnLeaves, Zenon
<1>3. ASSUME NEW q \in Orders \ {o} PROVE KeepsOrder(q)
  BY <1>1, <1>2 DEF KeepsOrder, Others
<1> QED
  BY <1>1, <1>2, <1>3

\* An order with a new entry.
LEMMA EntryBuilt ==
    ASSUME CertIInv, NEW o \in Orders, StartFinalize(o), config' = config, certs' = certs,
           NEW s, subjects' = [subjects EXCEPT ![o] = s],
           NEW e, entry' = [entry EXCEPT ![o] = e], clock' \in 0..MaxClock, clock <= clock',
           Built(o)', e # NoEntry
    PROVE  \A q \in Orders : OrderInv(q)'
<1>1. IInv /\ DOMAIN proof = Procs /\ clock \in 0..MaxClock /\ DOMAIN subjects = Orders /\ DOMAIN entry = Orders
  BY Zenon DEF CertIInv
<1>2. /\ issued' = issued /\ DOMAIN proof' = Procs /\ pc[o] = "start" /\ pc'[o] = "size"
      /\ \A q \in Orders \ {o} : KeepsOrder(q)
  BY <1>1, StartLeaves
<1>3. ASSUME NEW q \in Orders, q # o PROVE OrderInv(q)'
  <2>1. Same(q)
    BY <1>1, <1>3 DEF Same
  <2>2. OrderInv(q) /\ KeepsOrder(q)
    BY <1>2, <1>3, Zenon DEF CertIInv
  <2> QED BY <1>1, <1>2, <2>1, <2>2, OrderKept, Zenon
<1>4. OrderInv(o)'
  <2>1. o \notin DOMAIN issued'
    <3>1. OrderInv(o)
      BY Zenon DEF CertIInv
    <3>2. pc[o] # "done"
      BY <1>2
    <3> QED BY <1>2, <3>1, <3>2, Zenon DEF OrderInv
  <2>2. entry'[o] # NoEntry
    BY <1>1, Zenon
  <2>3. pc'[o] # "start" /\ pc'[o] # "store"
    BY <1>2
  <2> QED BY <2>1, <2>2, <2>3, Zenon DEF OrderInv
<1> QED
  BY <1>3, <1>4, Zenon

LEMMA PrecertBuilt ==
    ASSUME CertIInv, NEW o \in Orders, IssuePrecert(o)
    PROVE  \A q \in Orders : OrderInv(q)'
<1>1. PICK s \in Subjects : subjects' = [subjects EXCEPT ![o] = s]
  BY Zenon DEF IssuePrecert
<1> DEFINE e == PrecertAt(o, clock)'
<1>2. /\ ~config.mtc /\ StartFinalize(o) /\ config' = config /\ certs' = certs /\ clock' = clock
      /\ entry' = [entry EXCEPT ![o] = e]
  BY Zenon DEF IssuePrecert, PrecertAt
<1>3. clock \in 0..MaxClock /\ clock \in 0..clock /\ clock \in clock..clock /\ clock <= clock
  <2>1. clock \in 0..MaxClock /\ MaxClock \in Nat
    BY CertAssumption, Zenon DEF CertIInv
  <2> QED BY <2>1
<1>4. entry'[o] = e
  BY <1>2, Zenon DEF CertIInv
<1>6. e # NoEntry
  <2>1. csr(o)'.key = o
    BY DEF csr
  <2>2. PICK c, v : c = csr(o)' /\ v = config'.validity
    OBVIOUS
  <2>3. HasFields(localTBS(c, o, clock, clock + v, <<>>), o, clock, clock + v)
    BY <2>1, <2>2, BuiltFields, Zenon
  <2> QED BY <1>2, <2>2, <2>3, Zenon DEF PrecertAt, HasFields
<1> HIDE DEF e
<1>5. Built(o)'
  <2>1. PICK t : t = clock
    OBVIOUS
  <2>2. t \in 0..clock' /\ t \in t..clock' /\ entry'[o] = PrecertAt(o, t)'
    BY <1>2, <1>3, <1>4, <2>1, Zenon DEF e, PrecertAt
  <2> QED BY <1>2, <2>2, Zenon DEF Built
<1> QED
  BY <1>1, <1>2, <1>3, <1>5, <1>6, EntryBuilt, Zenon

LEMMA LogEntryBuilt ==
    ASSUME CertIInv, NEW o \in Orders, BuildLogEntryForOrder(o)
    PROVE  (\A q \in Orders : OrderInv(q)') /\ clock' \in 0..MaxClock
<1>1. PICK s \in Subjects : subjects' = [subjects EXCEPT ![o] = s]
  BY Zenon DEF BuildLogEntryForOrder
<1>2. /\ config.mtc /\ StartFinalize(o) /\ config' = config /\ certs' = certs
      /\ clock' \in {clock, clock + 1} /\ clock' <= MaxClock
      /\ entry' = [entry EXCEPT ![o] = BuildLogEntryFromCSR(csr(o)', clock, clock' + NinetyDays)]
  BY Zenon DEF BuildLogEntryForOrder
<1>3. clock \in 0..clock' /\ clock' \in clock..clock' /\ clock <= clock' /\ clock' \in 0..MaxClock
  <2>1. clock \in 0..MaxClock /\ MaxClock \in Nat
    BY CertAssumption, Zenon DEF CertIInv
  <2> QED BY <1>2, <2>1
<1>4. entry'[o] = BuildLogEntryFromCSR(csr(o)', clock, clock' + NinetyDays)
  BY <1>2, Zenon DEF CertIInv
<1>6. BuildLogEntryFromCSR(csr(o)', clock, clock' + NinetyDays) # NoEntry
  <2>1. csr(o)'.key = o
    BY DEF csr
  <2>2. HasFields(BuildLogEntryFromCSR(csr(o)', clock, clock' + NinetyDays), o, clock, clock' + NinetyDays)
    BY <2>1, BuiltFields, Zenon
  <2> QED BY <2>2, Zenon DEF HasFields
<1>5. Built(o)'
  <2>1. PICK t, u : t = clock /\ u = clock'
    OBVIOUS
  <2>2. t \in 0..clock' /\ u \in t..clock' /\ entry'[o] = MTCEntryAt(o, t, u)'
    BY <1>2, <1>3, <1>4, <2>1, Zenon DEF MTCEntryAt
  <2> QED BY <1>2, <2>2, Zenon DEF Built
<1> QED
  BY <1>1, <1>2, <1>3, <1>5, <1>6, EntryBuilt, Zenon

\* An order with its certificate.
LEMMA CertStored ==
    ASSUME CertIInv, NEW o \in Orders, StoreCert(o), UNCHANGED <<config, clock, subjects, entry>>,
           NEW c, certs' = [certs EXCEPT ![o] = c],
           IF config.mtc THEN MTCMade(o, issued[o])' ELSE EmbeddedMade(o, issued[o])'
    PROVE  \A q \in Orders : OrderInv(q)'
<1>1. IInv /\ DOMAIN proof = Procs /\ clock \in 0..MaxClock /\ DOMAIN certs = Orders
  BY Zenon DEF CertIInv
<1>2. /\ DOMAIN proof' = Procs /\ pc[o] = "store" /\ pc'[o] = "done"
      /\ issued' = Upsert(issued, [x \in {o} |-> IssuedNow(o)])
      /\ \A q \in Orders \ {o} : KeepsOrder(q)
  BY <1>1, StoreLeaves
<1>3. clock' = clock /\ clock' \in 0..MaxClock /\ clock <= clock'
  <2>1. MaxClock \in Nat
    BY CertAssumption
  <2> QED BY <1>1, <2>1
<1>4. ASSUME NEW q \in Orders, q # o PROVE OrderInv(q)'
  <2>1. Same(q)
    BY <1>1, <1>4 DEF Same
  <2>2. OrderInv(q) /\ KeepsOrder(q)
    BY <1>2, <1>4, Zenon DEF CertIInv
  <2>3. (q \in DOMAIN issued' <=> q \in DOMAIN issued) /\ (q \in DOMAIN issued => issued'[q] = issued[q])
    BY <1>2, <1>4 DEF Upsert
  <2> QED BY <1>1, <1>3, <2>1, <2>2, <2>3, OrderKept, Zenon
<1>5. OrderInv(o)'
  <2>1. issued'[o] = IssuedNow(o) /\ o \in DOMAIN issued'
    BY <1>2, Zenon DEF Upsert
  <2>2. OrderInv(o)
    BY Zenon DEF CertIInv
  <2>3. pc'[o] # "start" /\ pc'[o] # "store" /\ pc[o] # "start"
    BY <1>2
  <2>4. PathIn(issued'[o].proof, issued'[o].leaf_index, issued'[o].checkpoint.tree_size)
    <3>1. PathIn(proof[o], base[o], cp[o].tree_size)
      BY <1>2, <2>2, Zenon DEF OrderInv
    <3>2. IssuedNow(o).proof = proof[o] /\ IssuedNow(o).leaf_index = base[o] /\ IssuedNow(o).checkpoint = cp[o]
      BY DEF IssuedNow
    <3> QED BY <2>1, <3>1, <3>2, Zenon
  <2>5. Built(o)' /\ entry'[o] = entry[o]
    <3>1. Built(o)
      BY <2>2, <2>3, Zenon DEF OrderInv
    <3>2. csr(o)' = csr(o)
      BY Zenon DEF csr
    <3>3. \A t, u : PrecertAt(o, t)' = PrecertAt(o, t) /\ MTCEntryAt(o, t, u)' = MTCEntryAt(o, t, u)
      BY <3>2, Zenon DEF PrecertAt, MTCEntryAt
    <3> QED BY <3>1, <3>3, Zenon DEF Built
  <2>6. entry'[o] # NoEntry
    <3>1. Built(o)
      BY <2>2, <2>3, Zenon DEF OrderInv
    <3> QED BY <2>5, <3>1, BuiltOwn, Zenon
  <2> QED BY <1>2, <2>1, <2>3, <2>4, <2>5, <2>6, Zenon DEF OrderInv
<1> QED
  BY <1>4, <1>5, Zenon

LEMMA EmbeddedStored ==
    ASSUME CertIInv, NEW o \in Orders, IssueWithProof(o)
    PROVE  \A q \in Orders : OrderInv(q)'
<1>1. PICK sorted \in orderings(proof[o]) :
          certs' = [certs EXCEPT ![o] = localTBS(csr(o), entry[o].serial, entry[o].notBefore, entry[o].notAfter,
                                                 MarshalExtension(base[o], cp[o], sorted))]
  BY Zenon DEF IssueWithProof
<1>2. ~config.mtc /\ StoreCert(o) /\ UNCHANGED <<config, clock, subjects, entry>>
  BY Zenon DEF IssueWithProof
<1>3. issued'[o] = IssuedNow(o)
  <2>1. issued' = Upsert(issued, [x \in {o} |-> IssuedNow(o)])
    BY <1>2, StoreLeaves, Zenon DEF CertIInv
  <2> QED BY <2>1, Zenon DEF Upsert
<1>4. issued'[o].proof = proof[o] /\ issued'[o].leaf_index = base[o] /\ issued'[o].checkpoint = cp[o]
  <2>1. IssuedNow(o).proof = proof[o] /\ IssuedNow(o).leaf_index = base[o] /\ IssuedNow(o).checkpoint = cp[o]
    BY DEF IssuedNow
  <2> QED BY <1>3, <2>1, Zenon
<1>5. certs'[o] = localTBS(csr(o), entry[o].serial, entry[o].notBefore, entry[o].notAfter,
                           MarshalExtension(base[o], cp[o], sorted))
  BY <1>1, Zenon DEF CertIInv
<1>6. csr(o)' = csr(o)
  BY <1>2, Zenon DEF csr
<1>7. EmbeddedMade(o, issued[o])'
  BY <1>2, <1>4, <1>5, <1>6, Zenon DEF EmbeddedMade
<1> QED
  BY <1>1, <1>2, <1>7, CertStored, Zenon

LEMMA MTCStored ==
    ASSUME CertIInv, NEW o \in Orders, IssueMTCCert(o)
    PROVE  \A q \in Orders : OrderInv(q)'
<1> DEFINE c == BuildMTCCertificate(csr(o), clock, clock + config.validity, base[o],
                                    signatureless(cp[o].tree_size, proof[o]))
<1>1. certs' = [certs EXCEPT ![o] = c] /\ certs'[o] = c
  BY Zenon DEF IssueMTCCert, CertIInv
<1>2. config.mtc /\ StoreCert(o) /\ UNCHANGED <<config, clock, subjects, entry>>
  BY Zenon DEF IssueMTCCert
<1>3. issued'[o] = IssuedNow(o) /\ pc[o] = "store"
  <2>1. issued' = Upsert(issued, [x \in {o} |-> IssuedNow(o)]) /\ pc[o] = "store"
    BY <1>2, StoreLeaves, Zenon DEF CertIInv
  <2> QED BY <2>1, Zenon DEF Upsert
<1>4. issued'[o].proof = proof[o] /\ issued'[o].leaf_index = base[o] /\ issued'[o].checkpoint = cp[o]
  <2>1. IssuedNow(o).proof = proof[o] /\ IssuedNow(o).leaf_index = base[o] /\ IssuedNow(o).checkpoint = cp[o]
    BY DEF IssuedNow
  <2> QED BY <1>3, <2>1, Zenon
<1>5. csr(o)' = csr(o)
  BY <1>2, Zenon DEF csr
<1>6. Built(o)
  <2>1. OrderInv(o) /\ pc[o] # "start"
    BY <1>3, Zenon DEF CertIInv
  <2> QED BY <2>1, Zenon DEF OrderInv
<1>7. PICK t \in 0..clock : \E u \in t..clock : entry[o] = MTCEntryAt(o, t, u)
  BY <1>2, <1>6, Zenon DEF Built
<1>8. PICK u \in t..clock : entry[o] = MTCEntryAt(o, t, u)
  BY <1>7, Zenon
<1>9. PICK v : v = clock
  OBVIOUS
<1>10. t \in 0..clock' /\ u \in t..clock' /\ v \in u..clock'
  <2>1. clock \in Nat
    <3>1. clock \in 0..MaxClock /\ MaxClock \in Nat
      BY CertAssumption, Zenon DEF CertIInv
    <3> QED BY <3>1
  <2> QED BY <1>2, <1>7, <1>8, <1>9, <2>1
<1>11. entry'[o] = MTCEntryAt(o, t, u)'
  BY <1>2, <1>5, <1>8, Zenon DEF MTCEntryAt
<1>12. certs'[o] = BuildMTCCertificate(csr(o)', v, v + config'.validity, issued'[o].leaf_index,
                                       signatureless(issued'[o].checkpoint.tree_size, issued'[o].proof))
  BY <1>1, <1>2, <1>4, <1>5, <1>9, Zenon
<1>13. MTCMade(o, issued[o])'
  BY <1>10, <1>11, <1>12, Zenon DEF MTCMade
<1> HIDE DEF c
<1> QED
  BY <1>1, <1>2, <1>13, CertStored, Zenon

-----------------------------------------------------------------------------
(* The invariant holds of every behaviour.                                 *)

LEMMA InitCert == CertInit => CertIInv
<1> SUFFICES ASSUME CertInit PROVE CertIInv
  OBVIOUS
<1>1. IInv /\ SerialInv /\ DOMAIN proof = Procs
  <2>1. Init
    BY DEF CertInit
  <2>2. SerialInv
    BY <2>1, InitSerial
  <2> QED BY <2>1, <2>2, InitIInv DEF SerialInv
<1>2. turns \in BOOLEAN
  BY DEF CertInit
<1>3. config.validity \in Nat /\ clock \in 0..MaxClock
  <2>1. PICK m \in BOOLEAN, v \in Validities : config = [mtc |-> m, validity |-> v]
    BY DEF CertInit
  <2>2. config.validity = v
    BY <2>1
  <2>3. v \in Nat /\ MaxClock \in Nat /\ clock = 0
    BY CertAssumption DEF CertInit
  <2> QED BY <2>2, <2>3
<1>4. DOMAIN subjects = Orders /\ DOMAIN entry = Orders /\ DOMAIN certs = Orders
  BY DEF CertInit
<1>5. LandmarksSaved
  <2>1. DOMAIN landmarks = {}
    BY DEF CertInit
  <2> QED BY <2>1 DEF LandmarksSaved
<1>6. ASSUME NEW o \in Orders PROVE OrderInv(o)
  <2>1. o \in Procs /\ o # Watcher
    BY ProcsAssumption DEF Procs
  <2>2. pc[o] = "start" /\ DOMAIN issued = {}
    BY <2>1 DEF CertInit, Init
  <2>3. entry[o] = NoEntry
    BY DEF CertInit
  <2>4. pc[o] # "store"
    BY <2>2
  <2> QED BY <2>2, <2>3, <2>4, Zenon DEF OrderInv
<1> QED
  BY <1>1, <1>2, <1>3, <1>4, <1>5, <1>6, Zenon DEF CertIInv

\* Every step is one of the log, or leaves it alone.
LEMMA StepOfLog ==
    ASSUME [CertNext]_allVars
    PROVE  [Next]_vars
<1>1. CASE LogStepBeside
  BY <1>1, Zenon DEF LogStepBeside, Next, OrderStep
<1>2. ASSUME NEW o \in Orders, OrderLogStep(o) PROVE Next
  <2>1. StartFinalize(o) \/ StoreCert(o)
    BY <1>2, Zenon DEF OrderLogStep, IssuePrecert, BuildLogEntryForOrder, IssueWithProof, IssueMTCCert
  <2> QED BY <2>1, Zenon DEF Next, OrderStep
<1>3. CASE Tick \/ DesignateLandmark \/ UNCHANGED allVars
  BY <1>3, Zenon DEF Tick, DesignateLandmark, allVars, certVars
<1> QED
  BY <1>1, <1>2, <1>3, Zenon DEF CertNext

LEMMA TurnsStep ==
    ASSUME [CertNext]_allVars, turns \in BOOLEAN
    PROVE  turns' \in BOOLEAN /\ (turns' => turns /\ [Next /\ Serialized]_vars)
<1>1. CASE turns' = (turns /\ Serialized)
  BY <1>1, StepOfLog, Zenon
<1>2. CASE Tick \/ DesignateLandmark \/ UNCHANGED allVars
  <2>1. UNCHANGED vars /\ turns' = turns
    BY <1>2, Zenon DEF Tick, DesignateLandmark, allVars, certVars
  <2> QED BY <2>1, Zenon
<1> QED
  BY <1>1, <1>2, Zenon DEF CertNext

\* What a step does to the clock, the CSRs and the landmarks.
LEMMA BesideStep ==
    ASSUME CertIInv, [CertNext]_allVars
    PROVE  /\ config' = config /\ clock' \in 0..MaxClock
           /\ DOMAIN subjects' = Orders /\ DOMAIN entry' = Orders /\ DOMAIN certs' = Orders
           /\ landmarks' = landmarks \/ DesignateLandmark
<1>1. /\ clock \in 0..MaxClock /\ MaxClock \in Nat
      /\ DOMAIN subjects = Orders /\ DOMAIN entry = Orders /\ DOMAIN certs = Orders
  BY CertAssumption, Zenon DEF CertIInv
<1>2. CASE LogStepBeside \/ UNCHANGED allVars
  BY <1>1, <1>2, Zenon DEF LogStepBeside, allVars, certVars
<1>3. ASSUME NEW o \in Orders, IssuePrecert(o)
      PROVE  /\ config' = config /\ clock' = clock /\ certs' = certs /\ landmarks' = landmarks
             /\ DOMAIN subjects' = Orders /\ DOMAIN entry' = Orders
  <2>1. PICK s : subjects' = [subjects EXCEPT ![o] = s]
    BY <1>3, Zenon DEF IssuePrecert
  <2>2. PICK e : entry' = [entry EXCEPT ![o] = e]
    BY <1>3, Zenon DEF IssuePrecert
  <2>3. config' = config /\ clock' = clock /\ certs' = certs /\ landmarks' = landmarks
    BY <1>3, Zenon DEF IssuePrecert
  <2> QED BY <1>1, <2>1, <2>2, <2>3
<1>4. ASSUME NEW o \in Orders, BuildLogEntryForOrder(o)
      PROVE  /\ config' = config /\ clock' \in 0..MaxClock /\ certs' = certs /\ landmarks' = landmarks
             /\ DOMAIN subjects' = Orders /\ DOMAIN entry' = Orders
  <2>1. PICK s : subjects' = [subjects EXCEPT ![o] = s]
    BY <1>4, Zenon DEF BuildLogEntryForOrder
  <2>2. PICK e : entry' = [entry EXCEPT ![o] = e]
    BY <1>4, Zenon DEF BuildLogEntryForOrder
  <2>3. /\ config' = config /\ certs' = certs /\ landmarks' = landmarks
        /\ clock' \in {clock, clock + 1} /\ clock' <= MaxClock
    BY <1>4, Zenon DEF BuildLogEntryForOrder
  <2>4. clock' \in 0..MaxClock
    BY <1>1, <2>3
  <2> QED BY <1>1, <2>1, <2>2, <2>3, <2>4
<1>5. ASSUME NEW o \in Orders, IssueWithProof(o) \/ IssueMTCCert(o)
      PROVE  /\ config' = config /\ clock' = clock /\ subjects' = subjects /\ entry' = entry
             /\ landmarks' = landmarks /\ DOMAIN certs' = Orders
  <2>1. PICK c : certs' = [certs EXCEPT ![o] = c]
    BY <1>5, Zenon DEF IssueWithProof, IssueMTCCert
  <2>2. config' = config /\ clock' = clock /\ subjects' = subjects /\ entry' = entry /\ landmarks' = landmarks
    BY <1>5, Zenon DEF IssueWithProof, IssueMTCCert
  <2> QED BY <1>1, <2>1, <2>2
<1>6. CASE Tick
  <2>1. /\ config' = config /\ clock' = clock + 1 /\ clock < MaxClock
        /\ subjects' = subjects /\ entry' = entry /\ certs' = certs /\ landmarks' = landmarks
    BY <1>6, Zenon DEF Tick
  <2> QED BY <1>1, <2>1
<1>7. CASE DesignateLandmark
  <2>1. config' = config /\ clock' = clock /\ subjects' = subjects /\ entry' = entry /\ certs' = certs
    BY <1>7, Zenon DEF DesignateLandmark
  <2> QED BY <1>1, <1>7, <2>1, Zenon
<1> QED
  BY <1>1, <1>2, <1>3, <1>4, <1>5, <1>6, <1>7, Zenon DEF CertNext, OrderLogStep

LEMMA OrdersStep ==
    ASSUME CertIInv, [CertNext]_allVars
    PROVE  DOMAIN proof' = Procs /\ \A o \in Orders : OrderInv(o)'
<1>1. IInv /\ DOMAIN proof = Procs /\ clock \in 0..MaxClock
  BY Zenon DEF CertIInv
<1>2. ASSUME KeepsOrders, clock <= clock', UNCHANGED <<subjects, entry, certs>>
      PROVE  DOMAIN proof' = Procs /\ \A o \in Orders : OrderInv(o)'
  <2>1. config' = config /\ clock' \in 0..MaxClock
    BY BesideStep
  <2>2. ASSUME NEW o \in Orders PROVE OrderInv(o)'
    <3>1. OrderInv(o) /\ KeepsOrder(o) /\ Same(o) /\ issued' = issued
      BY <1>2, Zenon DEF CertIInv, KeepsOrders, Same
    <3> QED BY <1>1, <1>2, <2>1, <3>1, OrderKept, Zenon
  <2> QED BY <1>2, <2>2, Zenon DEF KeepsOrders
<1>3. clock <= clock /\ clock <= clock + 1
  <2>1. MaxClock \in Nat
    BY CertAssumption
  <2> QED BY <1>1, <2>1
<1>4. CASE LogStepBeside
  <2>1. UNCHANGED <<clock, subjects, entry, certs>>
    BY <1>4, Zenon DEF LogStepBeside, certVars
  <2>2. KeepsOrders
    BY <1>1, <1>4, LogKeepsOrders, Zenon DEF LogStepBeside
  <2> QED BY <1>2, <1>3, <2>1, <2>2, Zenon
<1>5. CASE Tick \/ DesignateLandmark \/ UNCHANGED allVars
  <2>1. UNCHANGED <<vars, subjects, entry, certs>> /\ (clock' = clock \/ clock' = clock + 1)
    BY <1>5, Zenon DEF Tick, DesignateLandmark, allVars, certVars
  <2>2. KeepsOrders
    BY <1>1, <2>1, Zenon DEF KeepsOrders, KeepsOrder, vars
  <2> QED BY <1>2, <1>3, <2>1, <2>2, Zenon
<1>6. ASSUME NEW o \in Orders, OrderLogStep(o)
      PROVE  DOMAIN proof' = Procs /\ \A q \in Orders : OrderInv(q)'
  <2>1. StartFinalize(o) \/ StoreCert(o)
    BY <1>6, Zenon DEF OrderLogStep, IssuePrecert, BuildLogEntryForOrder, IssueWithProof, IssueMTCCert
  <2>2. DOMAIN proof' = Procs
    BY <1>1, <2>1, StartLeaves, StoreLeaves, Zenon
  <2>3. \A q \in Orders : OrderInv(q)'
    BY <1>6, PrecertBuilt, LogEntryBuilt, EmbeddedStored, MTCStored, Zenon DEF OrderLogStep
  <2> QED BY <2>2, <2>3
<1> QED
  BY <1>4, <1>5, <1>6, Zenon DEF CertNext

LEMMA StepCert == CertIInv /\ [CertNext]_allVars => CertIInv'
<1> SUFFICES ASSUME CertIInv, [CertNext]_allVars PROVE CertIInv'
  OBVIOUS
<1>1. IInv /\ turns \in BOOLEAN /\ (turns => SerialInv) /\ config.validity \in Nat /\ LandmarksSaved
  BY Zenon DEF CertIInv
<1>2. [Next]_vars
  BY StepOfLog
<1>3. IInv'
  BY <1>1, <1>2, NextIInv
<1>4. turns' \in BOOLEAN /\ (turns' => turns /\ [Next /\ Serialized]_vars)
  BY <1>1, TurnsStep
<1>5. turns' => SerialInv'
  BY <1>1, <1>4, NextSerial, Zenon
<1>6. /\ config' = config /\ clock' \in 0..MaxClock
      /\ DOMAIN subjects' = Orders /\ DOMAIN entry' = Orders /\ DOMAIN certs' = Orders
      /\ landmarks' = landmarks \/ DesignateLandmark
  BY BesideStep
<1>7. LandmarksSaved'
  <2>1. CheckpointsStay
    BY <1>1, <1>2, CheckpointsGrow
  <2> QED BY <1>1, <1>6, <2>1, LandmarksKept, LandmarkMade, Zenon
<1>8. DOMAIN proof' = Procs /\ \A o \in Orders : OrderInv(o)'
  BY OrdersStep
<1> QED
  BY <1>1, <1>3, <1>4, <1>5, <1>6, <1>7, <1>8, Zenon DEF CertIInv

\* Whatever the writers of the log do and whatever fails, an order has the entry that
\* it built, and the certificate that was made of that entry and of what the log gave
\* it, and a landmark has the root of a checkpoint.
THEOREM CertInvariant == CertSpec => []CertIInv
<1>1. CertInit => CertIInv
  BY InitCert
<1>2. CertIInv /\ [CertNext]_allVars => CertIInv'
  BY StepCert
<1> QED
  BY <1>1, <1>2, PTL DEF CertSpec

-----------------------------------------------------------------------------
(* What follows for the certificates.                                      *)

\* The invariant gives the types,
LEMMA CertTypes == CertIInv => CertTypeOK
<1> SUFFICES ASSUME CertIInv PROVE CertTypeOK
  OBVIOUS
<1>1. ASSUME NEW s \in DOMAIN landmarks PROVE s \in Nat \ {0}
  <2>1. PICK i \in 1..Len(checkpoints) : checkpoints[i].tree_size = s
    BY Zenon DEF CertIInv, LandmarksSaved
  <2>2. checkpoints[i].tree_size \in Nat \ {0}
    BY Zenon DEF CertIInv, IInv, TypeOK
  <2> QED BY <2>1, <2>2
<1>2. ASSUME NEW o \in Orders PROVE pc[o] # "start" <=> entry[o] # NoEntry
  BY Zenon DEF CertIInv, OrderInv
<1> QED
  BY <1>1, <1>2, Zenon DEF CertIInv, CertTypeOK

\* what an order has that is done,
LEMMA DoneIs ==
    ASSUME CertIInv, NEW o \in DOMAIN issued
    PROVE  LET r == issued[o]
           IN  /\ o \in Orders /\ Built(o)
               /\ PathIn(r.proof, r.leaf_index, r.checkpoint.tree_size)
               /\ IF config.mtc THEN MTCMade(o, r) ELSE EmbeddedMade(o, r)
               /\ r.leaf_index \in DOMAIN log_entries /\ log_entries[r.leaf_index] = DirectEntry(o)
               /\ r.checkpoint \in Saved /\ r.checkpoint.tree_size \in Nat \ {0}
               /\ r.leaf_index \in 0..(r.checkpoint.tree_size - 1) /\ r.leaf_index \in Nat
<1> DEFINE r == issued[o]
<1>1. IInv
  BY Zenon DEF CertIInv
<1>2. o \in Orders
  BY <1>1, Zenon DEF IInv, TypeOK
<1>3. OrderInv(o)
  BY <1>2, Zenon DEF CertIInv
<1>4. /\ pc[o] = "done" /\ PathIn(r.proof, r.leaf_index, r.checkpoint.tree_size)
      /\ IF config.mtc THEN MTCMade(o, r) ELSE EmbeddedMade(o, r)
  BY <1>3, Zenon DEF OrderInv
<1>5. pc[o] # "start"
  BY <1>4
<1>6. Built(o)
  BY <1>3, <1>5, Zenon DEF OrderInv
<1>7. /\ r.leaf_index \in DOMAIN log_entries /\ log_entries[r.leaf_index] = DirectEntry(o)
      /\ r.leaf_index < r.checkpoint.tree_size
      /\ \E j \in 1..Len(checkpoints) : checkpoints[j] = r.checkpoint
  BY <1>1, Zenon DEF IInv, TableInv, IssuedOwnEntry
<1>8. PICK j \in 1..Len(checkpoints) : checkpoints[j] = r.checkpoint
  BY <1>7, Zenon
<1>9. r.checkpoint \in Saved
  BY <1>8, Zenon DEF Saved
<1>10. r.checkpoint.tree_size \in Nat \ {0} /\ r.leaf_index \in Nat
  BY <1>1, <1>7, <1>8, Zenon DEF IInv, TypeOK
<1> DEFINE i == r.leaf_index
           s == r.checkpoint.tree_size
<1>11. i \in 0..(s - 1)
  <2>1. i \in Nat /\ s \in Nat /\ i < s
    BY <1>7, <1>10
  <2> HIDE DEF i, s
  <2> QED BY <2>1
<1> QED
  BY <1>2, <1>4, <1>6, <1>7, <1>9, <1>10, <1>11, Zenon

\* and that the entry of an order is told from those of the others.
LEMMA Marshals ==
    ASSUME CertIInv, NEW o \in Orders, Built(o)
    PROVE  MarshalEntry(entry[o]) = DirectEntry(o).entry_data
<1>1. entry[o] # NoEntry /\ entry[o].spki = o
  BY BuiltOwn, Zenon
<1>2. ASSUME NEW q \in Orders, entry[q] = entry[o] PROVE q = o
  <2>1. OrderInv(q)
    BY Zenon DEF CertIInv
  <2>2. Built(q)
    BY <1>1, <1>2, <2>1, Zenon DEF OrderInv
  <2>3. entry[q].spki = q
    BY <2>2, BuiltOwn, Zenon
  <2> QED BY <1>1, <1>2, <2>3, Zenon
<1> DEFINE q == CHOOSE q \in Orders : entry[q] = entry[o]
<1>3. q \in Orders /\ entry[q] = entry[o]
  BY Zenon
<1>4. q = o
  BY <1>2, <1>3, Zenon
<1> QED
  BY <1>4, Zenon DEF MarshalEntry

LEMMA OwnEntryLogged ==
    ASSUME CertIInv, NEW o \in DOMAIN issued, NEW e
    PROVE  /\ e = entry[o] => LoggedAt(e, issued[o].leaf_index)
           /\ LoggedAt(e, issued[o].leaf_index) => MarshalEntry(e) = DirectEntry(o).entry_data
<1>1. /\ o \in Orders /\ Built(o) /\ issued[o].leaf_index \in DOMAIN log_entries
      /\ log_entries[issued[o].leaf_index] = DirectEntry(o)
  BY DoneIs, Zenon
<1>2. MarshalEntry(entry[o]) = DirectEntry(o).entry_data
  BY <1>1, Marshals, Zenon
<1> QED
  BY <1>1, <1>2, Zenon DEF LoggedAt

\* The certificate of a finished order with an embedded proof.
LEMMA EmbeddedCert ==
    ASSUME CertIInv, NEW o \in Issued(FALSE)
    PROVE  LET cert == certs[o]
               ext  == proofExt(cert)
               r    == issued[o]
           IN  /\ o \in DOMAIN issued /\ cert.alg = "ecdsa"
               /\ StripMTCExtension(cert) = entry[o]
               /\ ext.leafIndex = r.leaf_index /\ ext.treeSize = r.checkpoint.tree_size
               /\ ext.rootHash = r.checkpoint.root_hash
               /\ ext.checkpoint = SignCheckpoint(LogKey, r.checkpoint.tree_size, r.checkpoint.root_hash)
<1> DEFINE r == issued[o]
           c == r.checkpoint
<1>1. o \in DOMAIN issued /\ ~config.mtc
  BY Zenon DEF Issued
<1>2. Built(o) /\ EmbeddedMade(o, r)
  BY <1>1, DoneIs, Zenon
<1>3. PICK t \in 0..clock : entry[o] = PrecertAt(o, t)
  BY <1>1, <1>2, Zenon DEF Built
<1>4. PICK sorted \in orderings(r.proof) :
        certs[o] = localTBS(csr(o), entry[o].serial, entry[o].notBefore, entry[o].notAfter,
                            MarshalExtension(r.leaf_index, c, sorted))
  BY <1>2, Zenon DEF EmbeddedMade
<1>5. entry[o].serial = o /\ entry[o].notBefore = t /\ entry[o].notAfter = t + config.validity
  <2>1. /\ PrecertAt(o, t).serial = o /\ PrecertAt(o, t).notBefore = t
        /\ PrecertAt(o, t).notAfter = t + config.validity
    BY EntryFields
  <2> QED BY <1>3, <2>1, Zenon
<1> DEFINE content == [leafIndex |-> r.leaf_index, treeSize |-> c.tree_size,
                       rootHash |-> c.root_hash, proofHashes |-> sorted,
                       checkpoint |-> SignCheckpoint(LogKey, c.tree_size, c.root_hash)]
<1>6. MarshalExtension(r.leaf_index, c, sorted) = <<[id |-> proofOID, value |-> <<content>>]>>
  BY Zenon DEF MarshalExtension
<1>7. /\ content.leafIndex = r.leaf_index /\ content.treeSize = c.tree_size
      /\ content.rootHash = c.root_hash
      /\ content.checkpoint = SignCheckpoint(LogKey, c.tree_size, c.root_hash)
  OBVIOUS
<1> HIDE DEF content
<1> DEFINE n == t + config.validity
<1>8. LET cert == localTBS(csr(o), o, t, n, <<[id |-> proofOID, value |-> <<content>>]>>)
      IN  /\ StripMTCExtension(cert) = localTBS(csr(o), o, t, n, <<>>)
          /\ proofExt(cert) = content
          /\ cert.alg = "ecdsa"
  BY EmbeddedIs
<1>9. /\ StripMTCExtension(certs[o]) = localTBS(csr(o), o, t, n, <<>>)
      /\ proofExt(certs[o]) = content
      /\ certs[o].alg = "ecdsa"
  BY <1>4, <1>5, <1>6, <1>8, Zenon
<1>10. StripMTCExtension(certs[o]) = entry[o]
  BY <1>3, <1>9, Zenon DEF PrecertAt
<1> QED
  BY <1>1, <1>7, <1>9, <1>10, Zenon

\* A note of the log is valid and has what was signed.
LEMMA NoteVerifies ==
    ASSUME NEW s, NEW root
    PROVE  VerifyCheckpoint(LogKey, SignCheckpoint(LogKey, s, root)) = [treeSize |-> s, rootHash |-> root]
<1> DEFINE body == <<LogID, s, root>>
           note == [body |-> body, sigs |-> <<Sign(LogKey, body)>>]
<1>1. SignCheckpoint(LogKey, s, root) = note
  BY Zenon DEF SignCheckpoint
<1>2. body[2] = s /\ body[3] = root
  OBVIOUS
<1> HIDE DEF body
<1>3. note.body = body /\ note.sigs = <<Sign(LogKey, body)>>
  OBVIOUS
<1> HIDE DEF note
<1>4. 1 \in 1..Len(note.sigs) /\ note.sigs[1] = Sign(LogKey, note.body)
  BY <1>3
<1>5. VerifyCheckpoint(LogKey, note) = [treeSize |-> note.body[2], rootHash |-> note.body[3]]
  BY <1>4, Zenon DEF VerifyCheckpoint, Verify
<1> QED
  BY <1>1, <1>2, <1>3, <1>5, Zenon

\* A certificate without its proof is the logged entry.
LEMMA Canonical == CertIInv => EmbeddedCanonical
<1> SUFFICES ASSUME CertIInv PROVE EmbeddedCanonical
  OBVIOUS
<1>1. ASSUME NEW o \in Issued(FALSE)
      PROVE  LET ext == proofExt(certs[o])
             IN  /\ LoggedAt(StripMTCExtension(certs[o]), ext.leafIndex)
                 /\ \E i \in 1..Len(checkpoints) :
                       /\ checkpoints[i].tree_size = ext.treeSize /\ checkpoints[i].root_hash = ext.rootHash
                       /\ VerifyCheckpoint(LogKey, ext.checkpoint) =
                              [treeSize |-> ext.treeSize, rootHash |-> ext.rootHash]
  <2> DEFINE ext == proofExt(certs[o])
             r == issued[o]
             c == r.checkpoint
  <2>1. /\ o \in DOMAIN issued /\ StripMTCExtension(certs[o]) = entry[o]
        /\ ext.leafIndex = r.leaf_index /\ ext.treeSize = c.tree_size /\ ext.rootHash = c.root_hash
        /\ ext.checkpoint = SignCheckpoint(LogKey, c.tree_size, c.root_hash)
    BY EmbeddedCert, Zenon
  <2>2. VerifyCheckpoint(LogKey, SignCheckpoint(LogKey, c.tree_size, c.root_hash))
            = [treeSize |-> c.tree_size, rootHash |-> c.root_hash]
    BY NoteVerifies
  <2>3. LoggedAt(entry[o], r.leaf_index)
    BY <2>1, OwnEntryLogged, Zenon
  <2>4. c \in Saved
    BY <2>1, DoneIs, Zenon
  <2>5. PICK i \in 1..Len(checkpoints) : checkpoints[i] = c
    BY <2>4, Zenon DEF Saved
  <2> HIDE DEF ext, c, r
  <2>6. VerifyCheckpoint(LogKey, ext.checkpoint) = [treeSize |-> ext.treeSize, rootHash |-> ext.rootHash]
    BY <2>1, <2>2, Zenon
  <2>7. checkpoints[i].tree_size = ext.treeSize /\ checkpoints[i].root_hash = ext.rootHash
    BY <2>1, <2>5, Zenon
  <2>8. LoggedAt(StripMTCExtension(certs[o]), ext.leafIndex)
    BY <2>1, <2>3, Zenon
  <2> QED BY <2>6, <2>7, <2>8, Zenon DEF ext
<1> QED
  BY <1>1, CertTypes, Zenon DEF EmbeddedCanonical

-----------------------------------------------------------------------------
(* What follows while the log's writers take turns and nothing fails.      *)

\* The proof that an order has got is the path of its entry to the root of its
\* checkpoint, which fits its length prefix.
LEMMA CalmIs ==
    ASSUME CertIInv, Calm
    PROVE  IInv /\ SerialInv /\ faults = 0 /\ TreeSize < 2^(MaxLevel + 1) /\ IssuedProofVerifies
<1>1. turns /\ faults = 0 /\ TreeSize < 2^(MaxLevel + 1)
  BY Zenon DEF Calm
<1>2. IInv /\ SerialInv
  BY <1>1, Zenon DEF CertIInv
<1>3. IssuedProofVerifies
  BY <1>1, <1>2, Zenon DEF SerialInv, CalmInv, ProofsRight
<1> QED
  BY <1>1, <1>2, <1>3

LEMMA IssuedIs ==
    ASSUME CertIInv, Calm, NEW o \in DOMAIN issued
    PROVE  LET r == issued[o]
               i == r.leaf_index
               s == r.checkpoint.tree_size
           IN  /\ AllHashes[i] = LeafHash(DirectEntry(o).entry_data)
               /\ r.proof = InclusionProof(i, s, AllHashes)
               /\ r.checkpoint.root_hash = MTH(s, AllHashes)
               /\ RootFromInclusionProof(i, s, LeafHash(DirectEntry(o).entry_data), r.proof)
                      = r.checkpoint.root_hash
<1> DEFINE r == issued[o]
           c == r.checkpoint
           i == r.leaf_index
           s == c.tree_size
           leaf == LeafHash(DirectEntry(o).entry_data)
<1>1. IInv /\ SerialInv /\ faults = 0 /\ TreeSize < 2^(MaxLevel + 1) /\ IssuedProofVerifies
  BY CalmIs
<1>2. PathIn(r.proof, i, s) /\ c \in Saved /\ s \in Nat \ {0} /\ i \in 0..(s - 1)
  BY DoneIs, Zenon
<1>3. c.root_hash = MTH(s, AllHashes)
  BY <1>1, <1>2, SavedRows
<1>4. RootFromInclusionProof(i, s, leaf, r.proof) = c.root_hash
  BY <1>1, Zenon DEF IssuedProofVerifies
<1> DEFINE S == {r.proof[k] : k \in 1..Len(r.proof)}
<1>5. r.proof \in Seq(S) /\ Len(r.proof) = pathLen(i, <<0, s>>)
  BY <1>2, Zenon DEF PathIn
<1>6. RootFromInclusionProof(i, s, leaf, r.proof) = MTH(s, AllHashes)
  BY <1>3, <1>4, Zenon
<1> DEFINE path == r.proof
<1> HIDE DEF i, s, c, leaf, S, path
<1>7. /\ path \in Seq(S) /\ Len(path) = pathLen(i, <<0, s>>)
      /\ RootFromInclusionProof(i, s, leaf, path) = MTH(s, AllHashes)
  BY <1>5, <1>6 DEF path
<1>8. leaf = AllHashes[i] /\ path = InclusionProof(i, s, AllHashes)
  BY <1>2, <1>7, InclusionProofBinds
<1> QED
  BY <1>3, <1>4, <1>8, Zenon DEF i, s, c, leaf, path

\* The bits of the index lead to the root of a tree whose size is a power of two.
LEMMA Verifies == CertIInv => EmbeddedVerifies
<1> SUFFICES ASSUME CertIInv, Calm, NEW o \in Issued(FALSE),
                    proofExt(certs[o]).proofHashes = issued[o].proof,
                    IsPowerOfTwo(proofExt(certs[o]).treeSize)
             PROVE  verifyCert(certs[o])
  BY Zenon DEF EmbeddedVerifies
<1> DEFINE cert == certs[o]
           ext == proofExt(cert)
           r == issued[o]
           i == r.leaf_index
           s == r.checkpoint.tree_size
<1>1. /\ o \in DOMAIN issued /\ cert.alg = "ecdsa" /\ StripMTCExtension(cert) = entry[o]
      /\ ext.leafIndex = i /\ ext.treeSize = s /\ ext.rootHash = r.checkpoint.root_hash
  BY EmbeddedCert, Zenon
<1>2. o \in Orders /\ Built(o) /\ s \in Nat \ {0} /\ i \in 0..(s - 1)
  BY <1>1, DoneIs, Zenon
<1>3. /\ AllHashes[i] = LeafHash(DirectEntry(o).entry_data) /\ r.proof = InclusionProof(i, s, AllHashes)
      /\ r.checkpoint.root_hash = MTH(s, AllHashes)
  BY <1>1, IssuedIs, Zenon
<1>4. MarshalEntry(StripMTCExtension(cert)) = DirectEntry(o).entry_data
  BY <1>1, <1>2, Marshals, Zenon
<1>5. PICK h \in 0..s : s = 2^h
  BY <1>1, Zenon DEF IsPowerOfTwo
<1>6. VerifyInclusion(AllHashes[i], i, s, InclusionProof(i, s, AllHashes), MTH(s, AllHashes))
  <2>1. h \in Nat /\ i \in 0..(2^h - 1)
    <3> HIDE DEF i, s
    <3> QED BY <1>2, <1>5
  <2>2. VerifyInclusion(AllHashes[i], i, 2^h, InclusionProof(i, 2^h, AllHashes), MTH(2^h, AllHashes))
    <3> HIDE DEF i
    <3> QED BY <2>1, VerifyInclusionCompleteTrees
  <2> QED BY <1>5, <2>2, Zenon
<1>7. VerifyEmbeddedProof(cert)
  <2>1. VerifyInclusion(LeafHash(MarshalEntry(StripMTCExtension(cert))), ext.leafIndex, ext.treeSize,
                        ext.proofHashes, ext.rootHash)
    BY <1>1, <1>3, <1>4, <1>6, Zenon
  <2> QED BY <2>1, Zenon DEF VerifyEmbeddedProof
<1>8. ~IsMTCCertificate(cert)
  BY <1>1 DEF IsMTCCertificate
<1> QED
  BY <1>7, <1>8, Zenon DEF verifyCert

\* The path of a leaf fits its length prefix, whatever the size of the tree.
LEMMA PathFits ==
    ASSUME NEW hashAt, NEW size \in Nat \ {0}, size <= TreeSize, TreeSize \in Nat,
           TreeSize < 2^(MaxLevel + 1), NEW index
    PROVE  /\ Len(InclusionProof(index, size, hashAt)) * HashSize < LenBound
           /\ \E H : InclusionProof(index, size, hashAt) \in Seq(H)
<1> DEFINE p == InclusionProof(index, size, hashAt)
           h == MaxLevel + 1
<1>1. h \in Nat /\ HashSize \in Nat \ {0} /\ LenBound \in Nat \ {0}
  BY BoundsAssumption, FormatAssumption
<1>2. h * HashSize < LenBound
  BY PathAssumption
<1>3. 2^h \in Nat /\ TreeSize < 2^h
  BY <1>1, PowNat
<1> HIDE DEF h
<1>4. size <= 2^h
  BY <1>3
<1>5. Len(p) \in 0..h /\ \E H : p \in Seq(H)
  BY <1>1, <1>4, InclusionProofShort
<1> HIDE DEF p
<1> DEFINE n == Len(p)
<1>6. n \in 0..h
  BY <1>5
<1> HIDE DEF n
<1>7. n * HashSize <= h * HashSize
  BY ONLY <1>1, <1>6
<1>8. n * HashSize \in Int /\ h * HashSize \in Int
  BY ONLY <1>1, <1>6
<1>9. n * HashSize < LenBound
  BY ONLY <1>1, <1>2, <1>7, <1>8
<1> QED
  BY <1>5, <1>9, Zenon DEF n, p

\* No signatures take no bytes.
LEMMA NoSignatures == Len(marshalSignatures(<<>>)) = 0
<1> DEFINE s == [i \in 1..Len(<<>>) |-> sigBytes(<<>>[i])]
<1>1. s \in Seq(Seq({})) /\ Len(s) = 0 /\ \A i \in 1..Len(s) : Len(s[i]) = 0
  <2>1. Len(<<>>) = 0
    OBVIOUS
  <2>2. s = <<>>
    BY <2>1
  <2> HIDE DEF s
  <2> QED BY <2>2
<1>2. marshalSignatures(<<>>) = FlattenSeq(s)
  BY Zenon DEF marshalSignatures, sigBytes
<1> HIDE DEF s
<1>3. Len(FlattenSeq(s)) = Len(s) * 0
  <2> DEFINE S == {}
             K == 0
  <2>1. s \in Seq(Seq(S)) /\ K \in Nat /\ \A i \in 1..Len(s) : Len(s[i]) = K
    BY <1>1
  <2> HIDE DEF S, K
  <2>2. Len(FlattenSeq(s)) = Len(s) * K
    BY <2>1, FlattenUniform
  <2> QED BY <2>2 DEF K
<1> QED
  BY <1>1, <1>2, <1>3

\* The fields of a proof that was read.
LEMMA ReadFields ==
    ASSUME NEW r, NEW ok, NEW start, NEW end, NEW path, NEW sigs,
           r = [ok |-> ok, Start |-> start, End |-> end, InclusionProof |-> path, Signatures |-> sigs]
    PROVE  r.ok = ok /\ r.Start = start /\ r.End = end /\ r.InclusionProof = path /\ r.Signatures = sigs
  BY Zenon

\* The fields of a verifier's result.
LEMMA ResultFields ==
    ASSUME NEW r, NEW valid, NEW root, NEW mode, r = [ProofValid |-> valid, root |-> root, Mode |-> mode]
    PROVE  r.ProofValid = valid /\ r.root = root
  BY Zenon

\* The certificate of a finished order with id-alg-mtcProof.
LEMMA MTCCertIs ==
    ASSUME CertIInv, NEW o \in Issued(TRUE)
    PROVE  LET r == issued[o]
               p == signatureless(r.checkpoint.tree_size, r.proof)
           IN  /\ o \in DOMAIN issued /\ config.mtc
               /\ \E t \in 0..clock : \E u \in t..clock : \E v \in u..clock :
                     /\ entry[o] = MTCEntryAt(o, t, u)
                     /\ certs[o] = BuildMTCCertificate(csr(o), v, v + config.validity, r.leaf_index, p)
               /\ IsMTCCertificate(certs[o]) /\ certs[o].serial = r.leaf_index
               /\ certs[o].proof = MarshalProof(p)
               /\ \A read : [certs[o] EXCEPT !.proof = read].proof = read
               /\ \A read : ReconstructLogEntry([certs[o] EXCEPT !.proof = read]) = ReconstructLogEntry(certs[o])
<1> DEFINE r == issued[o]
           p == signatureless(r.checkpoint.tree_size, r.proof)
           i == r.leaf_index
<1>1. o \in DOMAIN issued /\ config.mtc
  BY Zenon DEF Issued
<1>2. MTCMade(o, r)
  BY <1>1, DoneIs, Zenon
<1>3. \E t \in 0..clock : \E u \in t..clock : \E v \in u..clock :
          /\ entry[o] = MTCEntryAt(o, t, u)
          /\ certs[o] = BuildMTCCertificate(csr(o), v, v + config.validity, i, p)
  BY <1>2, Zenon DEF MTCMade
<1>4. PICK v : certs[o] = BuildMTCCertificate(csr(o), v, v + config.validity, i, p)
  BY <1>3, Zenon
<1> DEFINE cert == certs[o]
           m == MarshalProof(p)
           s == certSubject(csr(o))
           k == csr(o).key
           x == BuildCertExtensions(csr(o).dnsNames)
           n == v + config.validity
<1>5. cert = [alg |-> "id-alg-mtcProof", serial |-> i, issuer |-> LogID, subject |-> s, notBefore |-> v,
              notAfter |-> n, spki |-> k, extensions |-> x, proof |-> m]
  BY <1>4, Zenon DEF BuildMTCCertificate
<1> HIDE DEF cert, m, s, k, x, n, i
<1>6. cert.alg = "id-alg-mtcProof" /\ cert.serial = i /\ cert.proof = m
  BY <1>5
<1>7. ASSUME NEW read
      PROVE  /\ [cert EXCEPT !.proof = read].proof = read
             /\ ReconstructLogEntry([cert EXCEPT !.proof = read]) = ReconstructLogEntry(cert)
  <2> DEFINE f == [cert EXCEPT !.proof = read]
  <2>1. /\ f.proof = read /\ f.subject = cert.subject /\ f.notBefore = cert.notBefore
        /\ f.notAfter = cert.notAfter /\ f.spki = cert.spki /\ f.extensions = cert.extensions
    BY <1>5
  <2> HIDE DEF f
  <2>2. f.proof = read /\ ReconstructLogEntry(f) = ReconstructLogEntry(cert)
    BY <2>1, Zenon DEF ReconstructLogEntry
  <2> QED BY <2>2, Zenon DEF f
<1> QED
  BY <1>1, <1>3, <1>6, <1>7, Zenon DEF IsMTCCertificate, cert, m, i

\* What is read from the certificate that an order gets.
LEMMA MTCProofIs ==
    ASSUME CertIInv, Calm, NEW o \in Issued(TRUE)
    PROVE  UnmarshalProof(certs[o].proof) =
               [ok |-> TRUE, Start |-> 0, End |-> issued[o].checkpoint.tree_size,
                InclusionProof |-> issued[o].proof, Signatures |-> <<>>]
<1> DEFINE r == issued[o]
           i == r.leaf_index
           s == r.checkpoint.tree_size
           path == r.proof
           p == signatureless(s, path)
<1>1. o \in DOMAIN issued /\ certs[o].proof = MarshalProof(p)
  BY MTCCertIs, Zenon
<1>2. r.checkpoint \in Saved /\ path = InclusionProof(i, s, AllHashes)
  BY <1>1, DoneIs, IssuedIs, Zenon
<1>3. s \in Nat \ {0} /\ s <= TreeSize /\ TreeSize \in Nat /\ TreeSize < 2^(MaxLevel + 1)
  BY <1>2, CalmIs, SavedRows
<1>4. p = [Start |-> 0, End |-> s, InclusionProof |-> path, Signatures |-> <<>>]
  BY Zenon DEF signatureless
<1> HIDE DEF s, i, path, p
<1>5. Len(path) * HashSize < LenBound /\ \E H : path \in Seq(H)
  BY <1>2, <1>3, PathFits, Zenon
<1>6. PICK H : path \in Seq(H)
  BY <1>5, Zenon
<1>7. p.Start = 0 /\ p.End = s /\ p.InclusionProof = path /\ p.Signatures = <<>>
  BY <1>4
<1>8. 0 \in Nat /\ s \in Nat /\ 0 < s /\ Nat \subseteq Nat /\ <<>> \in Seq(MTCSignatures(Nat)) /\ 0 < LenBound
  BY <1>3, FormatAssumption
<1>9. /\ p.Start \in Nat /\ p.End \in Nat /\ p.Start < p.End /\ p.InclusionProof \in Seq(H)
      /\ Len(p.InclusionProof) * HashSize < LenBound /\ p.Signatures \in Seq(MTCSignatures(Nat))
      /\ Len(marshalSignatures(p.Signatures)) < LenBound
  BY <1>5, <1>6, <1>7, <1>8, NoSignatures, Zenon
<1>10. UnmarshalProof(MarshalProof(p)) =
          [ok |-> TRUE, Start |-> p.Start, End |-> p.End,
           InclusionProof |-> p.InclusionProof, Signatures |-> p.Signatures]
  BY <1>8, <1>9, ProofReadBack, Zenon
<1> QED
  BY <1>1, <1>7, <1>10, Zenon DEF s, path

\* A certificate is within the range of its proof, and if it stands for its log entry,
\* it leads to the root of its checkpoint.
LEMMA MTCRootIs ==
    ASSUME CertIInv, Calm, NEW o \in Issued(TRUE)
    PROVE  /\ VerifyMTCCert(certs[o]).ProofValid
           /\ LoggedAt(ReconstructLogEntry(certs[o]), certs[o].serial) =>
                 VerifyMTCCert(certs[o]).root = issued[o].checkpoint.root_hash
<1> DEFINE cert == certs[o]
           r == issued[o]
           i == r.leaf_index
           s == r.checkpoint.tree_size
           P == r.proof
           read == UnmarshalProof(cert.proof)
           fields == [cert EXCEPT !.proof = read]
           parsed == ParseMTCCertificate(cert)
           mode == IF read.Signatures = <<>> THEN "signatureless" ELSE "signed"
<1>1. /\ o \in DOMAIN issued /\ IsMTCCertificate(cert) /\ cert.serial = i
      /\ fields.proof = read /\ ReconstructLogEntry(fields) = ReconstructLogEntry(cert)
  BY MTCCertIs, Zenon
<1>2. s \in Nat \ {0} /\ i \in 0..(s - 1) /\ i \in Nat
  BY <1>1, DoneIs, Zenon
<1>3. read.ok = TRUE /\ read.Start = 0 /\ read.End = s /\ read.InclusionProof = P
  <2>1. read = [ok |-> TRUE, Start |-> 0, End |-> s, InclusionProof |-> P, Signatures |-> <<>>]
    BY MTCProofIs, Zenon
  <2> HIDE DEF s, P, read
  <2> QED BY <2>1, ReadFields, Zenon
<1>4. read.ok
  BY <1>3, Zenon
<1>6. parsed = [ok |-> TRUE, fields |-> fields]
  BY <1>1, <1>4, Zenon DEF ParseMTCCertificate
<1>7. parsed.ok /\ parsed.fields = fields
  <2> HIDE DEF fields, parsed
  <2> QED BY <1>6, Zenon
<1> DEFINE root == subtreeRoot(LeafHash(MarshalEntry(ReconstructLogEntry(cert))), i, read)
           within == i \in read.Start..(read.End - 1)
<1>10. VerifyMTCCert(cert) = [ProofValid |-> within, root |-> root, Mode |-> mode]
  <2> HIDE DEF fields, parsed, read, i
  <2> QED BY <1>1, <1>7, Zenon DEF VerifyMTCCert, parsed
<1>11. VerifyMTCCert(cert).ProofValid = within /\ VerifyMTCCert(cert).root = root
  <2> HIDE DEF within, root, mode, cert
  <2> QED BY <1>10, ResultFields, Zenon
<1>12. within
  BY <1>2, <1>3, Zenon
<1>13. ASSUME LoggedAt(ReconstructLogEntry(cert), cert.serial) PROVE root = r.checkpoint.root_hash
  <2>1. i - 0 = i /\ s - 0 = s
    <3> HIDE DEF i, s
    <3> QED BY <1>2
  <2>2. MarshalEntry(ReconstructLogEntry(cert)) = DirectEntry(o).entry_data
    <3> HIDE DEF cert
    <3> QED BY <1>1, <1>13, OwnEntryLogged, Zenon
  <2>3. root = RootFromInclusionProof(i, s, LeafHash(DirectEntry(o).entry_data), P)
    <3> HIDE DEF read, cert, P
    <3> QED BY <1>3, <2>1, <2>2, Zenon DEF subtreeRoot
  <2>4. RootFromInclusionProof(i, s, LeafHash(DirectEntry(o).entry_data), P) = r.checkpoint.root_hash
    BY <1>1, IssuedIs, Zenon
  <2> QED BY <2>3, <2>4, Zenon
<1> HIDE DEF cert, root, within
<1> QED
  BY <1>11, <1>12, <1>13, Zenon DEF cert

\* A landmark has the root of its size.
LEMMA Agrees == CertIInv => LandmarkAgrees
<1> SUFFICES ASSUME CertIInv, Calm, NEW o \in Issued(TRUE), NEW size \in DOMAIN landmarks,
                    LoggedAt(ReconstructLogEntry(certs[o]), certs[o].serial),
                    UnmarshalProof(certs[o].proof).End = size
             PROVE  VerifyMTCCert(certs[o]).root = landmarks[size]
  BY Zenon DEF LandmarkAgrees
<1> DEFINE c == issued[o].checkpoint
<1>1. o \in DOMAIN issued
  BY MTCCertIs, Zenon
<1>2. c.tree_size = size
  <2> DEFINE read == UnmarshalProof(certs[o].proof)
  <2>1. read = [ok |-> TRUE, Start |-> 0, End |-> c.tree_size,
                InclusionProof |-> issued[o].proof, Signatures |-> <<>>]
    BY MTCProofIs, Zenon
  <2> HIDE DEF read
  <2>2. read.End = c.tree_size
    BY <2>1, ReadFields, Zenon
  <2> QED BY <2>2, Zenon DEF read
<1>3. VerifyMTCCert(certs[o]).root = c.root_hash
  BY MTCRootIs, Zenon
<1>4. PICK j \in 1..Len(checkpoints) : checkpoints[j].tree_size = size /\ checkpoints[j].root_hash = landmarks[size]
  BY Zenon DEF CertIInv, LandmarksSaved
<1>5. checkpoints[j] \in Saved /\ c \in Saved
  BY <1>1, DoneIs, Zenon DEF Saved
<1>6. \A d \in Saved : d.root_hash = MTH(d.tree_size, AllHashes)
  BY CalmIs, SavedRows
<1>7. c.root_hash = MTH(size, AllHashes) /\ landmarks[size] = MTH(size, AllHashes)
  BY <1>2, <1>4, <1>5, <1>6, Zenon
<1> QED
  BY <1>3, <1>7, Zenon

\* With the same second, subject and validity the two structures have equal fields.
LEMMA Reconstructs == CertIInv => MTCReconstructs
<1> SUFFICES ASSUME CertIInv, NEW o \in Issued(TRUE),
                    "CN" \in csr(o).subject, csr(o).subject \subseteq {"CN", "O", "C"},
                    config.validity = NinetyDays, certs[o].notBefore = entry[o].notBefore
             PROVE  /\ LoggedAt(ReconstructLogEntry(certs[o]), certs[o].serial)
                    /\ Calm => /\ verifyCert(certs[o])
                               /\ VerifyMTCCert(certs[o]).root = issued[o].checkpoint.root_hash
  BY Zenon DEF MTCReconstructs
<1> DEFINE cert == certs[o]
           r == issued[o]
           p == signatureless(r.checkpoint.tree_size, r.proof)
<1>1. /\ o \in DOMAIN issued /\ IsMTCCertificate(cert) /\ cert.serial = r.leaf_index
      /\ \E t \in 0..clock : \E u \in t..clock : \E v \in u..clock :
            /\ entry[o] = MTCEntryAt(o, t, u)
            /\ cert = BuildMTCCertificate(csr(o), v, v + config.validity, r.leaf_index, p)
  BY MTCCertIs, Zenon
<1>2. PICK t \in 0..clock : \E u \in t..clock : \E v \in u..clock :
            /\ entry[o] = MTCEntryAt(o, t, u)
            /\ cert = BuildMTCCertificate(csr(o), v, v + config.validity, r.leaf_index, p)
  BY <1>1, Zenon
<1>3. PICK u \in t..clock : \E v \in u..clock :
            /\ entry[o] = MTCEntryAt(o, t, u)
            /\ cert = BuildMTCCertificate(csr(o), v, v + config.validity, r.leaf_index, p)
  BY <1>2, Zenon
<1>4. PICK v \in u..clock :
            /\ entry[o] = MTCEntryAt(o, t, u)
            /\ cert = BuildMTCCertificate(csr(o), v, v + config.validity, r.leaf_index, p)
  BY <1>3, Zenon
<1> DEFINE c == csr(o)
           e == BuildCertExtensions(c.dnsNames)
           m == MarshalProof(p)
           i == r.leaf_index
           n == v + NinetyDays
           s == certSubject(c)
           k == c.key
<1>5. cert = [alg |-> "id-alg-mtcProof", serial |-> i, issuer |-> LogID, subject |-> s,
              notBefore |-> v, notAfter |-> n, spki |-> k, extensions |-> e, proof |-> m]
  BY <1>4, Zenon DEF BuildMTCCertificate
<1>6. cert.subject = s /\ cert.notBefore = v /\ cert.notAfter = n /\ cert.spki = k /\ cert.extensions = e
  <2> HIDE DEF cert, s, k, e, m, i, n
  <2> QED BY <1>5
<1>7. entry[o].notBefore = t
  <2>1. MTCEntryAt(o, t, u).notBefore = t
    BY EntryFields
  <2> QED BY <1>4, <2>1, Zenon
<1>8. v = t /\ u = t
  <2>1. v = t
    BY <1>6, <1>7, Zenon
  <2>2. clock \in Nat
    <3>1. clock \in 0..MaxClock /\ MaxClock \in Nat
      BY CertAssumption, Zenon DEF CertIInv
    <3> QED BY <3>1
  <2>3. t \in Nat /\ u \in Nat /\ v \in Nat /\ t <= u /\ u <= v
    <3> HIDE DEF cert
    <3> QED BY <1>2, <1>3, <1>4, <2>2
  <2> QED BY <2>1, <2>3
<1>9. s = c.subject
  <2>1. commonNameFromCSR(c) = {"CN"}
    BY Zenon DEF commonNameFromCSR
  <2>2. s = {"CN"} \cup (c.subject \cap {"O", "C"})
    BY <2>1, Zenon DEF certSubject
  <2> DEFINE subj == c.subject
  <2>3. "CN" \in subj /\ subj \subseteq {"CN", "O", "C"}
    OBVIOUS
  <2> HIDE DEF subj
  <2>4. {"CN"} \cup (subj \cap {"O", "C"}) = subj
    BY ONLY <2>3
  <2> QED BY <2>2, <2>4, Zenon DEF subj
<1>10. e = logExtensions(c.dnsNames)
  BY Zenon DEF logExtensions, BuildCertExtensions
<1>11. entry[o] = BuildLogEntry(c.subject, v, n, k, logExtensions(c.dnsNames))
  BY <1>4, <1>8, Zenon DEF MTCEntryAt, BuildLogEntryFromCSR
<1>12. ReconstructLogEntry(cert) = entry[o]
  <2> HIDE DEF cert, s, c, e, k, n
  <2> QED BY <1>6, <1>9, <1>10, <1>11, Zenon DEF ReconstructLogEntry
<1>13. LoggedAt(ReconstructLogEntry(cert), cert.serial)
  <2> HIDE DEF cert
  <2> QED BY <1>1, <1>12, OwnEntryLogged, Zenon
<1>14. ASSUME Calm PROVE verifyCert(cert) /\ VerifyMTCCert(cert).root = r.checkpoint.root_hash
  <2>1. VerifyMTCCert(cert).ProofValid /\ VerifyMTCCert(cert).root = r.checkpoint.root_hash
    BY <1>13, <1>14, MTCRootIs, Zenon
  <2> QED BY <1>1, <2>1, Zenon DEF verifyCert
<1> QED
  BY <1>13, <1>14, Zenon

-----------------------------------------------------------------------------
(* The batcher.                                                            *)

\* The cosigners of a batch, in some order.
LEMMA SetToSeqIs ==
    ASSUME NEW S, IsFiniteSet(S)
    PROVE  SetToSeq(S) \in Seq(S)
<1> DEFINE n == Cardinality(S)
           F == [1..n -> S]
<1>1. n \in Nat /\ ExistsBijection(1..n, S)
  BY FS_CardinalityType
<1> HIDE DEF n
<1>2. PICK f \in Bijection(1..n, S) : TRUE
  BY <1>1 DEF ExistsBijection
<1>3. f \in F /\ IsInjective(f)
  BY <1>2 DEF Bijection, Injection, Surjection, IsInjective
<1>4. SetToSeq(S) \in F
  <2> HIDE DEF F
  <2>1. (CHOOSE g \in F : IsInjective(g)) \in F
    BY <1>3
  <2> QED BY <2>1 DEF SetToSeq, F, n
<1> QED
  BY <1>1, <1>4

\* The signatures of a batch, each of a cosigner, over the hash of the batch.
SignedBatch(b, start, size, hash) ==
    /\ b.Start = start /\ b.End = size
    /\ \E S : Nat \subseteq S /\ b.Signatures \in Seq(MTCSignatures(S))
    /\ \A i \in 1..Len(b.Signatures) : \E c \in Cosigners :
          b.Signatures[i] = SignSubtreeMTC(c, start, size, hash)

\* ProcessBatch makes such a batch.
LEMMA BatchSignatures ==
    ASSUME NEW signers \in SUBSET Cosigners, NEW start, NEW size
    PROVE  SignedBatch(ProcessBatch(start, size, signers), start, size,
                       computeSubtreeHash(start, size, leafRows))
<1> DEFINE b     == ProcessBatch(start, size, signers)
           hash  == computeSubtreeHash(start, size, leafRows)
           list  == SetToSeq(signers)
           sigs  == [i \in 1..Len(list) |-> SignSubtreeMTC(list[i], start, size, hash)]
           msg(c) == BuildSubtreeSignatureInput(<<c>>, LogID, start, size, hash)
           term(c) == [key |-> c, msg |-> msg(c)]
           S == Nat \cup Cosigners \cup {term(c) : c \in Cosigners}
<1>1. b = [Start |-> start, End |-> size, SubtreeHash |-> hash, Signatures |-> sigs]
  BY Zenon DEF ProcessBatch
<1>2. b.Start = start /\ b.End = size /\ b.Signatures = sigs
  <2> HIDE DEF b, hash, sigs
  <2> QED BY <1>1, Zenon
<1>3. list \in Seq(signers)
  <2>1. IsFiniteSet(signers)
    BY CertAssumption, FS_Subset
  <2> QED BY <2>1, SetToSeqIs
<1> HIDE DEF list
<1>4. ASSUME NEW c \in Cosigners PROVE SignSubtreeMTC(c, start, size, hash) \in MTCSignatures(S)
  <2>1. c \in S /\ term(c) \in S
    OBVIOUS
  <2>2. SignSubtreeMTC(c, start, size, hash) = [CosignerID |-> <<c>>, Signature |-> <<term(c)>>]
    BY Zenon DEF SignSubtreeMTC, Sign
  <2> HIDE DEF S, term
  <2>3. <<c>> \in Seq(S) \ {<<>>} /\ <<term(c)>> \in Seq(S)
    BY <2>1
  <2>4. [CosignerID |-> <<c>>, Signature |-> <<term(c)>>] \in MTCSignatures(S)
    BY <2>3 DEF MTCSignatures
  <2> QED BY <2>2, <2>4, Zenon
<1>5. Nat \subseteq S
  OBVIOUS
<1>6. Len(list) \in Nat /\ \A i \in 1..Len(list) : list[i] \in Cosigners
  BY <1>3
<1>7. Len(sigs) = Len(list) /\ \A i \in 1..Len(list) : sigs[i] = SignSubtreeMTC(list[i], start, size, hash)
  <2> HIDE DEF hash
  <2> QED BY <1>6
<1>8. sigs \in Seq(MTCSignatures(S))
  <2>1. \A i \in 1..Len(list) : SignSubtreeMTC(list[i], start, size, hash) \in MTCSignatures(S)
    BY <1>4, <1>6, Zenon
  <2> DEFINE f(i) == SignSubtreeMTC(list[i], start, size, hash)
             M == MTCSignatures(S)
             n == Len(list)
  <2>2. n \in Nat /\ \A i \in 1..n : f(i) \in M
    BY <1>6, <2>1, Zenon
  <2>3. sigs = [i \in 1..n |-> f(i)]
    BY Zenon
  <2> HIDE DEF f, M, n, sigs
  <2>4. [i \in 1..n |-> f(i)] \in Seq(M)
    BY ONLY <2>2
  <2> QED BY <2>3, <2>4, Zenon DEF M
<1> HIDE DEF sigs, S, hash
<1>9. \A i \in 1..Len(sigs) : \E c \in Cosigners : sigs[i] = SignSubtreeMTC(c, start, size, hash)
  BY <1>6, <1>7, Zenon
<1>10. SignedBatch(b, start, size, hash)
  <2> HIDE DEF b
  <2>1. \E T : Nat \subseteq T /\ b.Signatures \in Seq(MTCSignatures(T))
    BY <1>2, <1>5, <1>8, Zenon
  <2>2. \A i \in 1..Len(b.Signatures) : \E c \in Cosigners :
             b.Signatures[i] = SignSubtreeMTC(c, start, size, hash)
    BY <1>2, <1>9, Zenon
  <2> QED BY <1>2, <2>1, <2>2, Zenon DEF SignedBatch
<1> QED
  BY <1>10, Zenon DEF hash

\* A signature of a cosigner is valid for what it signs.
LEMMA CosignatureVerifies ==
    ASSUME NEW c, NEW start, NEW size, NEW hash
    PROVE  LET sig == SignSubtreeMTC(c, start, size, hash)
           IN  VerifySubtreeMTC(sig.CosignerID[1], start, size, hash, sig)
<1> DEFINE sig == SignSubtreeMTC(c, start, size, hash)
           term == Sign(c, BuildSubtreeSignatureInput(<<c>>, LogID, start, size, hash))
<1>1. sig = [CosignerID |-> <<c>>, Signature |-> term]
  BY Zenon DEF SignSubtreeMTC
<1> HIDE DEF sig, term
<1>2. sig.CosignerID = <<c>> /\ sig.Signature = term /\ <<c>>[1] = c
  BY <1>1
<1>3. VerifySubtreeMTC(sig.CosignerID[1], start, size, hash, sig)
  BY <1>2, Zenon DEF VerifySubtreeMTC, Verify, term
<1> QED
  BY <1>3 DEF sig

\* The rows of a settled tree are read, its leaves too.
LEMMA SettledRows ==
    ASSUME CertIInv, Calm, NEW size \in Nat \ {0}, size <= TreeSize, Settled(size)
    PROVE  /\ RowsHold(tree_nodes, AllHashes, size)
           /\ \A i \in 0..(size - 1) : leafRows[i] = AllHashes[i]
<1>1. IInv /\ SerialInv /\ faults = 0 /\ TreeSize < 2^(MaxLevel + 1)
  BY CalmIs
<1>2. PICK p \in Procs : Alone(p)
  BY <1>1, SomeoneAlone, Zenon DEF SerialInv
<1>3. Own(p)
  BY <1>1, <1>2, OwnFromCalm, Zenon DEF SerialInv
<1>4. pc[p] \in Writing => size <= base[p]
  BY Zenon DEF Settled, Writing
<1>5. RowsHold(tree_nodes, AllHashes, size)
  BY <1>1, <1>3, <1>4, StoredRows
<1>6. TreeSize \in Nat /\ DOMAIN log_entries = 0..(TreeSize - 1) /\ base[p] \in Nat /\ MaxLevel \in Nat
  BY <1>1, BoundsAssumption DEF IInv, TypeOK, TableInv, LogShape
<1> DEFINE m == Written(p, 0)
<1>7. m \in Nat /\ size <= m
  BY <1>4, <1>6 DEF Written, Behind, Writing
<1>8. LevelIs(tree_nodes, 0, m, AllHashes)
  <2>1. 0 \in 0..MaxLevel
    BY <1>6
  <2> QED BY <1>3, <2>1, Zenon DEF Own
<1> HIDE DEF m
<1>9. ASSUME NEW i \in 0..(size - 1) PROVE leafRows[i] = AllHashes[i]
  <2>1. i \in 0..(m - 1) /\ i \in 0..(TreeSize - 1) /\ i \in Nat
    BY <1>6, <1>7
  <2>2. HasRow(0, i, m)
    BY <1>7, <2>1 DEF HasRow
  <2>3. <<0, i>> \in DOMAIN tree_nodes
    BY <1>8, <2>1, <2>2, Zenon DEF LevelIs
  <2>4. <<0, i>>[1] = 0 /\ <<0, i>>[2] = i
    OBVIOUS
  <2>5. tree_nodes[<<0, i>>] = LeafHash(log_entries[i].entry_data)
    BY <1>1, <2>3, <2>4, Zenon DEF IInv, TableInv, LeavesMatchEntries
  <2>6. AllHashes[i] = LeafHash(log_entries[i].entry_data)
    BY <2>1 DEF AllHashes, Hashes
  <2>7. leafRows[i] = tree_nodes[<<0, i>>]
    <3>1. i \in {j \in DOMAIN log_entries : <<0, j>> \in DOMAIN tree_nodes}
      BY <1>6, <2>1, <2>3, Zenon
    <3> QED BY <3>1, Zenon DEF leafRows
  <2> QED BY <2>5, <2>6, <2>7, Zenon
<1> QED
  BY <1>5, <1>9

\* What is read back from the proof of a leaf of a batch.
LEMMA BatchProofIs ==
    ASSUME CertIInv, Calm, NEW size \in Nat \ {0}, size <= TreeSize, Settled(size),
           NEW start \in 0..(size - 1), NEW leaf \in 0..(size - 1), NEW signers \in SUBSET Cosigners
    PROVE  LET b == ProcessBatch(start, size, signers)
           IN  UnmarshalProof(MarshalProof(BuildBatchProof(leaf, b))) =
                   IF Len(marshalSignatures(b.Signatures)) < LenBound
                   THEN [ok |-> TRUE, Start |-> start, End |-> size,
                         InclusionProof |-> InclusionProof(leaf, size, AllHashes),
                         Signatures |-> b.Signatures]
                   ELSE [ok |-> FALSE]
<1> DEFINE b == ProcessBatch(start, size, signers)
           P == InclusionProof(leaf, size, AllHashes)
           sigs == b.Signatures
           p == BuildBatchProof(leaf, b)
<1>0. SignedBatch(b, start, size, computeSubtreeHash(start, size, leafRows))
  BY BatchSignatures
<1>1. b.Start = start /\ b.End = size
  BY <1>0, Zenon DEF SignedBatch
<1>2. PICK S : Nat \subseteq S /\ sigs \in Seq(MTCSignatures(S))
  BY <1>0, Zenon DEF SignedBatch
<1>3. TreeSize \in Nat /\ TreeSize < 2^(MaxLevel + 1)
  <2>1. IInv /\ TreeSize < 2^(MaxLevel + 1)
    BY CalmIs
  <2> QED BY <2>1, Zenon DEF IInv, TableInv, LogShape
<1>4. Len(P) * HashSize < LenBound /\ \E H : P \in Seq(H)
  BY <1>3, PathFits
<1>5. PICK H : P \in Seq(H)
  BY <1>4, Zenon
<1>6. InclusionProofFromNodes(leaf, size, tree_nodes) = P
  <2>1. RowsHold(tree_nodes, AllHashes, size)
    BY SettledRows
  <2>2. size \in Nat /\ size \in 1..size
    OBVIOUS
  <2> QED BY <2>1, <2>2, ProofFromRows
<1>7. p = [Start |-> start, End |-> size, InclusionProof |-> P, Signatures |-> sigs]
  <2> HIDE DEF b, P
  <2> QED BY <1>1, <1>6, Zenon DEF BuildBatchProof
<1> HIDE DEF b, P, sigs, p
<1>8. p.Start = start /\ p.End = size /\ p.InclusionProof = P /\ p.Signatures = sigs
  BY <1>7, Zenon
<1>9. start \in Nat /\ size \in Nat /\ start < size
  OBVIOUS
<1>10. /\ p.Start \in Nat /\ p.End \in Nat /\ p.Start < p.End /\ p.InclusionProof \in Seq(H)
       /\ Len(p.InclusionProof) * HashSize < LenBound /\ p.Signatures \in Seq(MTCSignatures(S))
  BY <1>2, <1>4, <1>5, <1>8, <1>9, Zenon
<1>11. UnmarshalProof(MarshalProof(p)) =
          IF Len(marshalSignatures(p.Signatures)) < LenBound
          THEN [ok |-> TRUE, Start |-> p.Start, End |-> p.End,
                InclusionProof |-> p.InclusionProof, Signatures |-> p.Signatures]
          ELSE [ok |-> FALSE]
  BY <1>2, <1>10, ProofReadBack, Zenon
<1>12. UnmarshalProof(MarshalProof(p)) =
          IF Len(marshalSignatures(sigs)) < LenBound
          THEN [ok |-> TRUE, Start |-> start, End |-> size, InclusionProof |-> P, Signatures |-> sigs]
          ELSE [ok |-> FALSE]
  BY <1>8, <1>11, Zenon
<1> QED
  BY <1>12, Zenon DEF p, sigs, P, b

\* The only field of a proof that was rejected.
LEMMA RejectedIs == ASSUME NEW r, NEW ok, r = [ok |-> ok] PROVE r.ok = ok
  BY Zenon

\* The root of a proof is the hash that the cosigners of its batch signed.
LEMMA BatchSigned == CertIInv => BatchProofSigned
<1> SUFFICES ASSUME CertIInv, Calm, NEW start \in DOMAIN log_entries, NEW size \in {TreeSize - 1, TreeSize},
                    NEW signers \in SUBSET Cosigners \ {{}}, Settled(size), NEW leaf \in start..(size - 1)
             PROVE  LET b     == ProcessBatch(start, size, signers)
                        fits  == Len(marshalSignatures(b.Signatures)) < LenBound
                        read  == UnmarshalProof(MarshalProof(BuildBatchProof(leaf, b)))
                        root  == subtreeRoot(leafRows[leaf], leaf, read)
                    IN  /\ read.ok <=> fits
                        /\ read.ok => read.Signatures = b.Signatures
                        /\ (read.ok /\ start = 0) =>
                              \A i \in 1..Len(read.Signatures) :
                                  VerifySubtreeMTC(read.Signatures[i].CosignerID[1], read.Start, read.End, root,
                                                   read.Signatures[i])
  BY Zenon DEF BatchProofSigned
<1> DEFINE b     == ProcessBatch(start, size, signers)
           sigs  == b.Signatures
           fits  == Len(marshalSignatures(sigs)) < LenBound
           read  == UnmarshalProof(MarshalProof(BuildBatchProof(leaf, b)))
           root  == subtreeRoot(leafRows[leaf], leaf, read)
           P     == InclusionProof(leaf, size, AllHashes)
<1>1. /\ size \in Nat \ {0} /\ size <= TreeSize /\ start \in 0..(size - 1)
      /\ leaf \in 0..(size - 1) /\ signers \in SUBSET Cosigners
  <2>1. TreeSize \in Nat /\ DOMAIN log_entries = 0..(TreeSize - 1)
    BY CalmIs, Zenon DEF IInv, TableInv, LogShape
  <2> QED BY <2>1
<1>2. read = IF fits THEN [ok |-> TRUE, Start |-> start, End |-> size, InclusionProof |-> P, Signatures |-> sigs]
             ELSE [ok |-> FALSE]
  BY <1>1, BatchProofIs, Zenon
<1>3. \A i \in 1..Len(sigs) : \E c \in Cosigners :
          sigs[i] = SignSubtreeMTC(c, start, size, computeSubtreeHash(start, size, leafRows))
  <2>1. SignedBatch(b, start, size, computeSubtreeHash(start, size, leafRows))
    BY <1>1, BatchSignatures
  <2> QED BY <2>1, Zenon DEF SignedBatch
<1>0. \A i \in 0..(size - 1) : leafRows[i] = AllHashes[i]
  BY <1>1, SettledRows
<1> HIDE DEF fits, read, P, sigs
<1>4. CASE ~fits
  <2>1. read = [ok |-> FALSE]
    BY <1>2, <1>4, Zenon
  <2>2. read.ok = FALSE
    BY <2>1, RejectedIs, Zenon
  <2> QED BY <1>4, <2>2, Zenon DEF read, fits, sigs
<1>5. CASE fits
  <2>1. read = [ok |-> TRUE, Start |-> start, End |-> size, InclusionProof |-> P, Signatures |-> sigs]
    BY <1>2, <1>5, Zenon
  <2>2. read.ok = TRUE /\ read.Start = start /\ read.End = size /\ read.InclusionProof = P /\ read.Signatures = sigs
    BY <2>1, ReadFields, Zenon
  <2>3. ASSUME start = 0, NEW i \in 1..Len(sigs)
        PROVE  VerifySubtreeMTC(sigs[i].CosignerID[1], start, size, root, sigs[i])
    <3>1. root = MTH(size, AllHashes)
      <4>1. leaf - 0 = leaf /\ size - 0 = size
        BY <1>1
      <4>2. root = RootFromInclusionProof(leaf, size, AllHashes[leaf], P)
        BY <1>0, <1>1, <2>2, <2>3, <4>1, Zenon DEF subtreeRoot
      <4>3. RootFromInclusionProof(leaf, size, AllHashes[leaf], P) = MTH(size, AllHashes)
        BY <1>1, InclusionProofVerifies DEF P
      <4> QED BY <4>2, <4>3, Zenon
    <3>2. MTH(size, AllHashes) = computeSubtreeHash(start, size, leafRows)
      <4>1. MTH(size, AllHashes) = computeSubtreeHash(0, size, AllHashes)
        BY <1>1 DEF MTH
      <4>2. 0 \in Nat /\ size \in Nat /\ 0 < size
        BY <1>1
      <4>3. computeSubtreeHash(0, size, leafRows) = computeSubtreeHash(0, size, AllHashes)
        BY ONLY <1>0, <4>2, HashOfLeaves
      <4> QED BY <2>3, <4>1, <4>3, Zenon
    <3>3. PICK c \in Cosigners : sigs[i] = SignSubtreeMTC(c, start, size, root)
      BY <1>3, <3>1, <3>2, Zenon
    <3> HIDE DEF root
    <3>4. LET sig == SignSubtreeMTC(c, start, size, root)
          IN  VerifySubtreeMTC(sig.CosignerID[1], start, size, root, sig)
      BY CosignatureVerifies
    <3> QED BY <3>3, <3>4, Zenon
  <2>4. read.ok
    BY <2>2, Zenon
  <2> QED BY <1>5, <2>2, <2>3, <2>4, Zenon DEF read, fits, sigs
<1> QED
  BY <1>4, <1>5

-----------------------------------------------------------------------------
(* The theorems.                                                           *)

\* A certificate with an embedded proof is, without the proof, the entry that
\* AppendDirectEntry logged, and carries the log's note of a saved checkpoint: for
\* every interleaving of the log's writers, every failed call and every clock.
THEOREM EmbeddedCanonicalHolds == CertSpec => []EmbeddedCanonical
  BY CertInvariant, Canonical, PTL

\* mtc-verify-cert accepts a certificate with an embedded proof in a tree whose size is
\* a power of two, if DER's sort left the path as it was, as long as the log's writers
\* have taken turns and no call has failed.
THEOREM EmbeddedVerifiesHolds == CertSpec => []EmbeddedVerifies
  BY CertInvariant, Verifies, PTL

\* What VerifyMTCCert rebuilds from a certificate is what BuildLogEntryForOrder
\* logged, under the conditions that MTCReconstructs names, whatever other writers do
\* and calls fail; and its proof leads to the root of the checkpoint, as long as the
\* log's writers have taken turns and no call has failed.
THEOREM MTCReconstructsHolds == CertSpec => []MTCReconstructs
  BY CertInvariant, Reconstructs, PTL

\* A certificate of the size of a landmark leads to the root of the landmark,
\* whichever checkpoint DesignateLandmark found, as long as the log's writers have
\* taken turns and no call has failed.
THEOREM LandmarkAgreesHolds == CertSpec => []LandmarkAgrees
  BY CertInvariant, Agrees, PTL

\* The proof of a leaf of a batch survives MarshalProof and UnmarshalProof with the
\* batch's signatures, or is rejected; a batch from the first leaf on is signed for the
\* root that its proofs lead to, as long as the log's writers have taken turns and no
\* call has failed.
THEOREM BatchProofSignedHolds == CertSpec => []BatchProofSigned
  BY CertInvariant, BatchSigned, PTL
=============================================================================
