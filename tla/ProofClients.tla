---------------------------- MODULE ProofClients ----------------------------
(***************************************************************************)
(* What others make of the answers of ProofServer: the conformance suite   *)
(* (cmd/mtc-conformance) and the interoperability tests (cmd/mtc-interop), *)
(* which verify proofs with code of their own, and the dashboard's views   *)
(* of the tree (internal/admin/handler.go).                                *)
(*                                                                         *)
(* The suite remembers the checkpoint that it read first (cached below)    *)
(* and goes on while the log grows: it may be any that was ever saved.     *)
(***************************************************************************)
EXTENDS ProofServer

-----------------------------------------------------------------------------
(* The verifiers of the clients.                                           *)

\* At each level the side of the sibling is the parity of the index.
walkByParity(leafHash, leafIndex, path) ==
    LET current[i \in 0..Len(path)] ==
            IF i = 0 THEN leafHash
            ELSE IF Shift(leafIndex, i - 1) % 2 = 0
                 THEN InteriorHash(current[i - 1], path[i])
                 ELSE InteriorHash(path[i], current[i - 1])
    IN  current[Len(path)]

\* The loop doubles k while k * 2 < n.
consistencySplitPoint(n) ==
    IF n < 2 THEN 0 ELSE CHOOSE k \in 1..n : IsPowerOfTwo(k) /\ k < n /\ 2 * k >= n

\* The old and the new hash of a subtree, whether the proof sufficed for it, and
\* how many of its elements were taken (see VerifyConsistency).
verifyConsistencyRec(oldSize, newSize, oldRoot, path) ==
    LET failed == [old |-> EmptyHash, new |-> EmptyHash, ok |-> FALSE, used |-> 0]
        sub[r \in Spanning(oldSize)] ==
            IF r[2] = oldSize
            THEN IF r[1] = 0
                 THEN [old |-> oldRoot, new |-> oldRoot, ok |-> TRUE, used |-> 0]
                 ELSE IF Len(path) = 0 THEN failed
                 ELSE [old |-> path[1], new |-> path[1], ok |-> TRUE, used |-> 1]
            ELSE LET k     == r[1] + consistencySplitPoint(r[2] - r[1])
                     below == IF oldSize <= k THEN sub[<<r[1], k>>] ELSE sub[<<k, r[2]>>]
                     h     == path[below.used + 1]
                 IN  IF ~below.ok \/ below.used >= Len(path) THEN failed
                     ELSE IF oldSize <= k
                     THEN [below EXCEPT !.new = InteriorHash(@, h), !.used = @ + 1]
                     ELSE [below EXCEPT !.old = InteriorHash(h, @), !.new = InteriorHash(h, @), !.used = @ + 1]
    IN  sub[<<0, newSize>>]

\* Wrong: only the old root is compared.
verifyConsistencyOldOnly(oldSize, newSize, path, oldRoot, newRoot) ==
    oldSize = newSize \/ verifyConsistencyRec(oldSize, newSize, oldRoot, path).old = oldRoot

verifyConsistencyProof(oldSize, newSize, path, oldRoot, newRoot) ==
    IF oldSize = newSize THEN path = <<>> /\ oldRoot = newRoot
    ELSE IF oldSize = 0 THEN path = <<>>
    ELSE LET top == verifyConsistencyRec(oldSize, newSize, oldRoot, path)
         IN  /\ path # <<>>
             /\ top.ok /\ top.used = Len(path) /\ top.old = oldRoot /\ top.new = newRoot

\* walkProofRecursive: the tree of the given size from the top down; the hash
\* that is reached, and how many elements of the proof were taken.
walkProofRecursive(index, size, leafHash, path) ==
    LET walk[r \in Ranges] ==
            IF r[2] - r[1] = 1 THEN <<leafHash, 0>>
            ELSE LET k     == r[1] + consistencySplitPoint(r[2] - r[1])
                     below == IF index < k THEN walk[<<r[1], k>>] ELSE walk[<<k, r[2]>>]
                     h     == path[below[2] + 1]
                 IN  <<IF index < k THEN InteriorHash(below[1], h) ELSE InteriorHash(h, below[1]), below[2] + 1>>
    IN  walk[<<0, size>>]

-----------------------------------------------------------------------------
(* The tests of the suite.                                                 *)

testTileHashSize(cached) ==
    Len(handleHashTile(0, 0).body) = IF cached.tree_size > TileWidth THEN TileWidth ELSE cached.tree_size

testInclusionProof ==
    LeafHash(handleEntryTile(0).body[1]) = handleHashTile(0, 0).body[1]

\* /proof/inclusion?index=1
testProofAPIInclusion(c) ==
    LET r == handleInclusionProof(1, c)
    IN  r.proof # <<>> /\ walkByParity(r.leaf_hash, 1, r.proof) = r.root_hash

\* /assertion/1, whose bundle has the same proof (BuildByIndex); /assertion/0 is
\* refused, as the null entry.
testAssertionVerifyProof(c) ==
    LET b == handleInclusionProof(1, c)
    IN  /\ walkByParity(b.leaf_hash, 1, b.proof) = b.root_hash
        /\ log_entries[0] = NullEntry

\* /proof/consistency?old=1&new=<size of the cached checkpoint>
testConsistencyProofVerify(cached) ==
    LET r == handleConsistencyProof(1, cached.tree_size)
    IN  /\ r.new_root = cached.root_hash
        /\ verifyConsistencyProof(1, cached.tree_size, r.proof, r.old_root, r.new_root)

-----------------------------------------------------------------------------
(* The dashboard.                                                          *)

\* The proof, and for each hash of it the side that the page draws it on.
handleVizProof(idx, c) ==
    LET hashes == InclusionProofFromNodes(idx, c.tree_size, tree_nodes)
    IN  [proofPath  |-> hashes,
         proofSides |-> [i \in 1..Len(hashes) |-> IF Shift(idx, i - 1) % 2 = 0 THEN "right" ELSE "left"],
         rootHash   |-> c.root_hash]

\* For any two sizes up to the number of entries, under a checkpoint or not.
handleVizConsistency(oldSize, newSize) ==
    LET r == handleConsistencyProof(oldSize, newSize)
    IN  [oldRoot |-> r.old_root, newRoot |-> r.new_root,
         verified |-> VerifyConsistency(oldSize, newSize, r.proof, r.old_root, r.new_root)]

\* The size of the subtree that is asked for: one of three, 8 without one of them.
subtreeSizeOf(sizeParam) == IF sizeParam \in {4, 8, 16} THEN sizeParam ELSE 8

\* Wrong: the start is not aligned.
handleVizSubtreeUnaligned(from, sizeParam, c) ==
    LET subtreeSize == subtreeSizeOf(sizeParam)
        start == IF from >= c.tree_size THEN c.tree_size - 1 ELSE from
    IN  [start |-> start,
         levels |-> [level \in 0..Log2(subtreeSize) |->
                        GetTileHashes(level, Shift(start, level), Shift(subtreeSize, level))]]

\* The rows of an aligned subtree of `subtreeSize' leaves, by level; start is
\* brought into the tree of the checkpoint, the rows are those of today.
handleVizSubtree(from, sizeParam, c) ==
    LET subtreeSize == subtreeSizeOf(sizeParam)
        aligned(n) == (n \div subtreeSize) * subtreeSize
        start == IF aligned(from) >= c.tree_size THEN aligned(c.tree_size - 1) ELSE aligned(from)
    IN  [start |-> start,
         levels |-> [level \in 0..Log2(subtreeSize) |->
                        GetTileHashes(level, Shift(start, level), Shift(subtreeSize, level))]]

-----------------------------------------------------------------------------
(* Properties.                                                             *)

\* A bridge passes the suite at any time, whichever checkpoint the suite read
\* first and however far a later batch has got: the walk by parity is right for
\* the entry that the suite asks for in trees of any size, and its verifier
\* accepts a consistency proof for the signed roots and for no others.
\* (testTileHashSize expects in addition that the log has not grown.)
SuitePasses ==
    \A c \in Saved :
        /\ testInclusionProof
        /\ c.tree_size >= 2 => testProofAPIInclusion(c) /\ testAssertionVerifyProof(c)
        /\ c.tree_size >= 3 => testConsistencyProofVerify(c)
        /\ (TreeSize = c.tree_size \/ c.tree_size >= TileWidth) => testTileHashSize(c)
        /\ \A d \in Saved : c.tree_size <= d.tree_size =>
              LET r == handleConsistencyProof(c.tree_size, d.tree_size)
              IN  \A e \in Saved :
                  verifyConsistencyProof(c.tree_size, d.tree_size, r.proof, c.root_hash, e.root_hash)
                      <=> e.root_hash = d.root_hash

\* Where the drawing leads from a leaf.
followSides(leafHash, view) ==
    LET up[i \in 0..Len(view.proofPath)] ==
            IF i = 0 THEN leafHash
            ELSE IF view.proofSides[i] = "right" THEN InteriorHash(up[i - 1], view.proofPath[i])
                                                 ELSE InteriorHash(view.proofPath[i], up[i - 1])
    IN  up[Len(view.proofPath)]

\* What the dashboard shows of the tree under a checkpoint is right at any time:
\* between any two sizes, saved or not, a verified proof with the roots of the
\* log; in a subtree, every node whose leaves are all under the checkpoint is
\* the hash of the two below it; and the sides of a proof lead to the root in
\* a tree whose size is a power of two.
DashboardShowsTree ==
    LET covered == {n \in 1..TreeSize : \E c \in Saved : n <= c.tree_size}
    IN
    /\ \A n \in covered : \A m \in 1..n :
          LET r == handleVizConsistency(m, n)
          IN  r.verified /\ r.oldRoot = MTH(m, Hashes(m)) /\ r.newRoot = MTH(n, Hashes(n))
    /\ \A c \in Saved :
        /\ \A from \in 0..c.tree_size, param \in {0, 4, 8, 16} :
              LET view == handleVizSubtree(from, param, c)
                  size == subtreeSizeOf(param)
              IN  \A level \in 1..Log2(size), i \in 1..size :
                     (i <= Shift(size, level) /\ view.start + i * 2^level <= c.tree_size) =>
                         view.levels[level][i] =
                             InteriorHash(view.levels[level - 1][2 * i - 1], view.levels[level - 1][2 * i])
        /\ \A idx \in 0..(c.tree_size - 1) :
              LET v    == handleVizProof(idx, c)
                  leaf == LeafHash(log_entries[idx].entry_data)
              IN  /\ walkProofRecursive(idx, c.tree_size, leaf, v.proofPath) = <<v.rootHash, Len(v.proofPath)>>
                  /\ IsPowerOfTwo(c.tree_size) => followSides(leaf, v) = v.rootHash
=============================================================================
