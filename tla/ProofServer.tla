---------------------------- MODULE ProofServer -----------------------------
(***************************************************************************)
(* What the read API (internal/tlogtiles/handler.go) serves of the issuance *)
(* log while goroutines append to it.  The handlers only read: an answer is *)
(* a function of the tables at the time of the reads.  The checkpoint of an *)
(* answer is read first and may be an old one by the time the nodes are     *)
(* read, so the proofs below are for any checkpoint that was ever saved.    *)
(***************************************************************************)
EXTENDS IssuanceLog

CONSTANT TileWidth    \* hashes in a full tile (merkle.TileWidth, 256)

ASSUME TileAssumption == TileWidth \in Nat \ {0}

NotFound == [body |-> <<>>, immutable |-> FALSE]

-----------------------------------------------------------------------------
(* Tiles.                                                                  *)

\* The hashes that are found, in a slice that is cut to their number: after a
\* missing row the others keep their places and the last ones are cut off.
GetTileHashes(level, nodeStart, count) ==
    LET found == {i \in 1..count : <<level, nodeStart + i - 1>> \in DOMAIN tree_nodes}
    IN  [i \in 1..Cardinality(found) |-> nodeAt(tree_nodes, level, nodeStart + i - 1)]

\* Tiles of tree level `level', not of every eighth level.
handleHashTile(level, tileIdx) ==
    LET nodeStart    == tileIdx * TileWidth
        nodesAtLevel == Shift(TreeSize + 2^level - 1, level)
        count        == IF nodeStart + TileWidth > nodesAtLevel
                        THEN nodesAtLevel - nodeStart ELSE TileWidth
        hashes       == GetTileHashes(level, nodeStart, count)
    IN  IF nodeStart >= nodesAtLevel THEN NotFound
        ELSE [body |-> hashes, immutable |-> Len(hashes) = TileWidth]

\* Wrong: every entry tile is served as immutable.
handleEntryTileCached(tileIdx) ==
    LET start == tileIdx * TileWidth
        end   == IF start + TileWidth > TreeSize THEN TreeSize ELSE start + TileWidth
    IN  IF start >= TreeSize THEN NotFound
        ELSE [body      |-> [i \in 1..(end - start) |-> log_entries[start + i - 1].entry_data],
              immutable |-> TRUE]

handleEntryTile(tileIdx) ==
    LET start == tileIdx * TileWidth
        end   == IF start + TileWidth > TreeSize THEN TreeSize ELSE start + TileWidth
    IN  IF start >= TreeSize THEN NotFound
        ELSE [body      |-> [i \in 1..(end - start) |-> log_entries[start + i - 1].entry_data],
              immutable |-> end - start = TileWidth]

-----------------------------------------------------------------------------
(* Proofs.                                                                 *)

\* For a request that read checkpoint c, with leafIdx < c.tree_size.
handleInclusionProof(leafIdx, c) ==
    [leaf_hash |-> LeafHash(log_entries[leafIdx].entry_data),
     proof     |-> InclusionProofFromNodes(leafIdx, c.tree_size, tree_nodes),
     root_hash |-> c.root_hash]

handleConsistencyProof(oldSize, newSize) ==
    [proof    |-> ConsistencyProofFromNodes(oldSize, newSize, tree_nodes),
     old_root |-> RootFromNodes(oldSize, tree_nodes),
     new_root |-> RootFromNodes(newSize, tree_nodes)]

-----------------------------------------------------------------------------
(* Properties.                                                             *)

Saved == {checkpoints[i] : i \in 1..Len(checkpoints)}

\* At any moment, also while recomputeInterior is halfway through the rows of a
\* later batch, the inclusion proof served for an entry under any checkpoint
\* that was saved leads from the entry to the root that was signed, and it is
\* the one InclusionProof computes from the leaves alone.
InclusionProofsVerify ==
    \A c \in Saved : \A i \in 0..(c.tree_size - 1) :
        LET r == handleInclusionProof(i, c)
        IN  /\ RootFromInclusionProof(i, c.tree_size, r.leaf_hash, r.proof) = r.root_hash
            /\ r.proof = InclusionProof(i, c.tree_size, Hashes(c.tree_size))

\* At any moment the consistency proof served between two saved checkpoints is
\* accepted by VerifyConsistency for the roots that were signed, and the roots
\* that are served with it are those.
ConsistencyProofsVerify ==
    \A c, d \in Saved : c.tree_size <= d.tree_size =>
        LET r == handleConsistencyProof(c.tree_size, d.tree_size)
        IN  /\ VerifyConsistency(c.tree_size, d.tree_size, r.proof, c.root_hash, d.root_hash)
            /\ r.old_root = c.root_hash /\ r.new_root = d.root_hash

\* An entry tile or a leaf tile that is served as immutable is served the same
\* for ever, whoever appends and whatever fails.
LeafTilesImmutable ==
    [][\A n \in 0..TreeSize :
        /\ handleEntryTile(n).immutable => handleEntryTile(n)' = handleEntryTile(n)
        /\ handleHashTile(0, n).immutable => handleHashTile(0, n)' = handleHashTile(0, n)]_vars

=============================================================================
