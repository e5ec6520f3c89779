----------------------------- MODULE SerialLog ------------------------------
(***************************************************************************)
(* The issuance log as the package comment of internal/store promises it:  *)
(* "All writes are serialized through the watcher".  The watcher may be    *)
(* the only writer, as without a local CA, or finalizations take turns     *)
(* with it: a goroutine only moves while the others are between two        *)
(* operations.                                                             *)
(***************************************************************************)
EXTENDS IssuanceLog

\* Where a goroutine is between two operations.
Quiet == {"idle", "start", "done", "failed"}

Serialized ==
    \A p \in Procs : pc'[p] # pc[p] => \A q \in Procs \ {p} : pc[q] \in Quiet

SerialSpec == Init /\ [][Next /\ Serialized]_vars /\ Fairness

-----------------------------------------------------------------------------
(* What holds besides IInv while nothing has failed.  recomputeInterior    *)
(* brings the rows of tree_nodes from the tree of the first base entries   *)
(* to that of all entries, one level after the other.                      *)

OneWriter == \A p, q \in Procs : (pc[p] \notin Quiet /\ pc[q] \notin Quiet) => p = q

\* Row j of level l is in the tree of m entries.  Initialize writes the leaf of
\* the first entry only.
HasRow(l, j, m) == j * 2^l < m /\ (l > 0 => m > 1)

\* The hash of row j of level l: of 2^l leaves, or of those that there are.
RowHash(l, j, m, hashAt) ==
    computeSubtreeHash(j * 2^l, IF (j + 1) * 2^l < m THEN (j + 1) * 2^l ELSE m, hashAt)

\* The rows of level l are those of the tree of m entries.
LevelIs(nodes, l, m, hashAt) ==
    /\ \A x \in DOMAIN nodes : x[1] = l => x[2] \in Nat /\ HasRow(l, x[2], m)
    /\ \A j \in 0..(m - 1) : HasRow(l, j, m) => /\ <<l, j>> \in DOMAIN nodes
                                                /\ nodes[<<l, j>>] = RowHash(l, j, m, hashAt)

AllHashes == Hashes(TreeSize)

\* Goroutine p has appended its batch and has not written its rows of level l.
Behind(p, l) ==
    \/ pc[p] \in {"init_leaf", "leaf"}
    \/ pc[p] \in {"left", "right", "write"} /\ l >= rec[p].level

LevelsUpToDate ==
    \A l \in 0..MaxLevel :
        /\ \A p \in Procs : Behind(p, l) => LevelIs(tree_nodes, l, base[p], AllHashes)
        /\ (\A p \in Procs : ~Behind(p, l)) => LevelIs(tree_nodes, l, TreeSize, AllHashes)

\* The rows of the level that recomputeInterior has computed so far.
RowsComputed(p) ==
    pc[p] \in {"left", "right", "write"} =>
        LET l == rec[p].level
            last == IF pc[p] = "write" THEN rec[p].idx ELSE rec[p].idx - 1
        IN  /\ rec[p].idx \in Shift(base[p], l)..endIdx(p)
            /\ DOMAIN rec[p].nodes = {l} \X (Shift(base[p], l)..last)
            /\ \A j \in Shift(base[p], l)..last :
                  rec[p].nodes[<<l, j>>] = RowHash(l, j, TreeSize, AllHashes)
            /\ pc[p] = "write" => rec[p].idx = endIdx(p)
            /\ pc[p] = "right" => rec[p].left = tree_nodes[<<l - 1, 2 * rec[p].idx>>]

\* The sizes that a goroutine has read are still those of the log.
SizesRead(p) ==
    /\ pc[p] = "append" => base[p] = TreeSize
    /\ pc[p] \in {"append", "leaf", "left", "right", "write"} => base[p] >= 1
    /\ pc[p] \in {"leaf", "left", "right", "write"} => TreeSize = base[p] + Len(batch[p])
    /\ pc[p] \in {"cp_root", "cp_leaves"} => cp[p].tree_size = TreeSize

\* Initialize comes first.
NullFirst ==
    /\ pc[Watcher] \notin {"init_size", "init_append"} => TreeSize >= 1
    /\ pc[Watcher] \in {"init_size", "init_append", "init_leaf"} => base[Watcher] = 0
    /\ pc[Watcher] = "init_leaf" => TreeSize = 1

\* Checkpoints are of trees whose rows are all written.
CheckpointsRight ==
    /\ CheckpointRootIsMTH
    /\ \A i \in 1..Len(checkpoints) :
          /\ checkpoints[i].tree_size <= TreeSize
          /\ \A p \in Procs : pc[p] \in {"init_leaf", "leaf", "left", "right", "write"} =>
                                  checkpoints[i].tree_size <= base[p]
    /\ \A p \in Procs : pc[p] = "cp_save" =>
          /\ cp[p].tree_size \in 1..TreeSize
          /\ cp[p].root_hash = MTH(cp[p].tree_size, Hashes(cp[p].tree_size))

\* The proof that a finalization has built leads to the root of its checkpoint.
ProofsRight ==
    /\ IssuedProofVerifies
    /\ \A o \in Orders : pc[o] = "store" =>
          RootFromInclusionProof(base[o], cp[o].tree_size, LeafHash(DirectEntry(o).entry_data), proof[o])
              = cp[o].root_hash

\* While nothing has failed.
CalmInv ==
    /\ LevelsUpToDate
    /\ \A p \in Procs : RowsComputed(p) /\ SizesRead(p)
    /\ NullFirst
    /\ CheckpointsRight
    /\ TreeSize < 2^(MaxLevel + 1) => ProofsRight

\* The inductive invariant of the log whose writers take turns, on top of IInv:
\* between two operations the rows that SetTreeNodes has written are exactly those
\* of the tree of all entries, and inside recomputeInterior those of the levels that
\* it has passed are, which is why CreateCheckpoint signs the tree hash and a
\* finalization builds a proof that leads to it.
SerialInv ==
    /\ OneWriter
    /\ DOMAIN proof = Procs
    /\ faults = 0 => CalmInv
=============================================================================
