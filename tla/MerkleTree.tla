----------------------------- MODULE MerkleTree -----------------------------
(***************************************************************************)
(* The pure algorithms of internal/merkle/merkle.go.                       *)
(*                                                                         *)
(* A hash is the term it was computed from: SHA-256 is taken to be         *)
(* collision free, so two hashes are equal exactly when they were computed *)
(* from the same leaf data or the same pair of children.  A proof is a     *)
(* sequence of hashes, from the leaf to the root.  hashAt is the function  *)
(* from leaf indices to leaf hashes that the code passes as a callback,    *)
(* nodes the stored rows of tree_nodes, a function from <<level, idx>>.    *)
(***************************************************************************)
EXTENDS Integers, Sequences

LeafHash(data) == <<"leaf", data>>

InteriorHash(left, right) == <<"node", left, right>>

\* SHA-256 of nothing: the root of the empty tree.
EmptyRoot == <<"sha256">>

\* The zero value of merkle.Hash, which a failed lookup leaves behind.
EmptyHash == <<"zero">>

IsPowerOfTwo(n) == \E i \in 0..n : n = 2^i

\* n >> level
Shift(n, level) == n \div 2^level

\* The h with 2^h = n (bits.TrailingZeros64 of a power of two).
Log2(n) == CHOOSE h \in 0..n : n = 2^h

\* The largest power of two smaller than n, for n >= 2.
splitPoint(n) == CHOOSE k \in 1..(n - 1) : n <= 2 * k /\ IsPowerOfTwo(k)

-----------------------------------------------------------------------------
(* Hashes of ranges of leaves.                                             *)

\* A range of leaves from start to end, end excluded, and where it is split.
Ranges == {r \in Nat \X Nat : r[1] < r[2]}

mid(r) == r[1] + splitPoint(r[2] - r[1])

computeSubtreeHash(start, end, hashAt) ==
    LET h[r \in Ranges] ==
            IF r[2] - r[1] = 1
            THEN hashAt[r[1]]
            ELSE LET k == mid(r) IN InteriorHash(h[<<r[1], k>>], h[<<k, r[2]>>])
    IN  h[<<start, end>>]

\* The Merkle Tree Hash of the first n leaves.
MTH(n, hashAt) == IF n = 0 THEN EmptyRoot ELSE computeSubtreeHash(0, n, hashAt)

\* nodeAt of the callers: a row that is missing reads as the zero hash.
nodeAt(nodes, level, idx) ==
    IF <<level, idx>> \in DOMAIN nodes THEN nodes[<<level, idx>>] ELSE EmptyHash

\* Wrong: an incomplete subtree is read as one stored row too, which changes
\* as the log grows.
subtreeHashStored(start, end, nodes) ==
    LET h == CHOOSE l \in 0..(end - start) : 2^l >= end - start /\ \A k \in 0..(l - 1) : 2^k < end - start
    IN  nodeAt(nodes, h, Shift(start, h))

\* Wrong: the index is not shifted to the level of the row.
subtreeHashUnshifted(start, end, nodes) ==
    LET h[r \in Ranges] ==
            IF IsPowerOfTwo(r[2] - r[1])
            THEN nodeAt(nodes, Log2(r[2] - r[1]), r[1])
            ELSE LET k == mid(r) IN InteriorHash(h[<<r[1], k>>], h[<<k, r[2]>>])
    IN  h[<<start, end>>]

\* Complete subtrees are one stored row; the right edge is split recursively.
subtreeHashFromNodes(start, end, nodes) ==
    LET h[r \in Ranges] ==
            IF IsPowerOfTwo(r[2] - r[1])
            THEN LET level == Log2(r[2] - r[1]) IN nodeAt(nodes, level, Shift(r[1], level))
            ELSE LET k == mid(r) IN InteriorHash(h[<<r[1], k>>], h[<<k, r[2]>>])
    IN  h[<<start, end>>]

RootFromNodes(size, nodes) ==
    IF size <= 0 THEN EmptyRoot ELSE subtreeHashFromNodes(0, size, nodes)

-----------------------------------------------------------------------------
(* Inclusion proofs.                                                       *)

\* The part of a range that holds a leaf, and the other one.
partOf(leaf, r)  == LET k == mid(r) IN IF leaf < k THEN <<r[1], k>> ELSE <<k, r[2]>>
sibling(leaf, r) == LET k == mid(r) IN IF leaf < k THEN <<k, r[2]>> ELSE <<r[1], k>>

InclusionProof(index, size, hashAt) ==
    LET proof[r \in Ranges] ==
            IF r[2] - r[1] = 1 THEN <<>>
            ELSE LET other == sibling(index, r)
                 IN  Append(proof[partOf(index, r)], computeSubtreeHash(other[1], other[2], hashAt))
    IN  proof[<<0, size>>]

InclusionProofFromNodes(index, size, nodes) ==
    LET proof[r \in Ranges] ==
            IF r[2] - r[1] = 1 THEN <<>>
            ELSE LET other == sibling(index, r)
                 IN  Append(proof[partOf(index, r)], subtreeHashFromNodes(other[1], other[2], nodes))
    IN  proof[<<0, size>>]

\* Walks up by the bits of index alone: size is only a range check.
VerifyInclusion(leafHash, index, size, proof, root) ==
    LET hash[i \in 0..Len(proof)] ==
            IF i = 0 THEN leafHash
            ELSE IF Shift(index, i - 1) % 2 = 0
                 THEN InteriorHash(hash[i - 1], proof[i])
                 ELSE InteriorHash(proof[i], hash[i - 1])
    IN  index \in 0..(size - 1) /\ hash[Len(proof)] = root

\* The number of siblings of leaf index in the tree of a range.
pathLen(index, range) ==
    LET len[r \in Ranges] == IF r[2] - r[1] = 1 THEN 0 ELSE 1 + len[partOf(index, r)]
    IN  len[range]

\* Follows the shape of a tree of the given size; a proof that is too short
\* stops the recursion early and leaves the hash reached so far.
RootFromInclusionProof(index, size, leafHash, proof) ==
    LET root[r \in Ranges] ==
            IF r[2] - r[1] = 1 \/ Len(proof) = 0
            THEN leafHash
            ELSE LET below == root[partOf(index, r)]
                     used  == pathLen(index, partOf(index, r))
                 IN  IF used >= Len(proof) THEN below
                     ELSE IF index < mid(r) THEN InteriorHash(below, proof[used + 1])
                                            ELSE InteriorHash(proof[used + 1], below)
    IN  root[<<0, size>>]

-----------------------------------------------------------------------------
(* Consistency proofs.  The code's m and n are the leaves of the old and   *)
(* of the new tree in a range, and its openRight says that the range       *)
(* starts at the first leaf, where the old tree is known by its root.      *)

\* The ranges that hold the last leaf of the old tree.
Spanning(oldSize) == {r \in Ranges : r[1] < oldSize /\ oldSize <= r[2]}

\* Wrong: leaves the last complete subtree of the old tree out.
ConsistencyProofShort(oldSize, newSize, nodes) ==
    LET proof[r \in Spanning(oldSize)] ==
            IF r[2] = oldSize THEN <<>>
            ELSE LET other == sibling(oldSize - 1, r)
                 IN  Append(proof[partOf(oldSize - 1, r)], subtreeHashFromNodes(other[1], other[2], nodes))
    IN  IF oldSize = 0 \/ oldSize = newSize THEN <<>> ELSE proof[<<0, newSize>>]

ConsistencyProofFromNodes(oldSize, newSize, nodes) ==
    LET proof[r \in Spanning(oldSize)] ==
            IF r[2] = oldSize
            THEN IF r[1] = 0 THEN <<>> ELSE <<subtreeHashFromNodes(r[1], r[2], nodes)>>
            ELSE LET other == sibling(oldSize - 1, r)
                 IN  Append(proof[partOf(oldSize - 1, r)], subtreeHashFromNodes(other[1], other[2], nodes))
    IN  IF oldSize = 0 \/ oldSize = newSize THEN <<>> ELSE proof[<<0, newSize>>]

\* verifyConsistencyRec returns the two subtree hashes, whether the proof
\* sufficed, and (pIdx) how many of its elements were used.
VerifyConsistency(oldSize, newSize, proof, oldRoot, newRoot) ==
    LET failed == [old |-> EmptyHash, new |-> EmptyHash, ok |-> FALSE, used |-> 0]
        rec[r \in Spanning(oldSize)] ==
            IF r[2] = oldSize
            THEN IF r[1] = 0
                 THEN [old |-> oldRoot, new |-> oldRoot, ok |-> TRUE, used |-> 0]
                 ELSE IF Len(proof) = 0 THEN failed
                 ELSE [old |-> proof[1], new |-> proof[1], ok |-> TRUE, used |-> 1]
            ELSE LET below == rec[partOf(oldSize - 1, r)]
                 IN  IF ~below.ok \/ below.used >= Len(proof) THEN failed
                     ELSE LET p == proof[below.used + 1]
                          IN  IF oldSize <= mid(r)
                              THEN [below EXCEPT !.new = InteriorHash(@, p), !.used = @ + 1]
                              ELSE [below EXCEPT !.old = InteriorHash(p, @), !.new = InteriorHash(p, @),
                                                 !.used = @ + 1]
    IN  IF oldSize > newSize \/ oldSize < 0 THEN FALSE
        ELSE IF oldSize = newSize THEN proof = <<>> /\ oldRoot = newRoot
        ELSE IF oldSize = 0 THEN proof = <<>>
        ELSE IF proof = <<>> THEN FALSE
        ELSE LET top == rec[<<0, newSize>>]
             IN  top.ok /\ top.used = Len(proof) /\ top.old = oldRoot /\ top.new = newRoot
=============================================================================
