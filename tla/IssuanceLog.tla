---------------------------- MODULE IssuanceLog -----------------------------
(***************************************************************************)
(* The issuance log of mtc-bridge (internal/issuancelog) over its tables   *)
(* in PostgreSQL (internal/store), with everything that writes to it: the  *)
(* watcher goroutine (internal/watcher) and one goroutine per ACME order   *)
(* that is finalized by the local CA (internal/acme/finalize.go).          *)
(*                                                                         *)
(* No lock or transaction spans two store calls, so every store call is a  *)
(* step of its own and the goroutines interleave between them.  A store    *)
(* call may fail (Fault, LostRead and the lost argument of the reads), and *)
(* the process may die and start again (Crash); faults counts both.        *)
(***************************************************************************)
EXTENDS MerkleTree, FiniteSets

CONSTANTS
    Watcher,     \* the goroutine that runs Watcher.Run
    Orders,      \* the goroutines that finalize one ACME order each
    NumCerts,    \* bound: certificates the CA issues, numbered in cursor order
    BatchSize,   \* watcher.batch_size, the LIMIT of FetchNewCertificates
    MaxLevel,    \* bound: levels of tree_nodes that are kept (63 in the code)
    MaxIdleCps,  \* bound: checkpoints the watcher takes of an unchanged log
    MaxFaults    \* bound: failed store calls and crashes in a behaviour

Procs == {Watcher} \cup Orders

\* The store calls, or waits, at which a goroutine can be.
Steps == {"init_size", "init_append", "init_leaf", "poll", "idle", "dead",
          "start", "size", "append", "leaf", "left", "right", "write", "cursor",
          "cp_size", "cp_root", "cp_leaves", "cp_save", "proof", "store", "done", "failed"}

ASSUME ProcsAssumption == Watcher \notin Orders
ASSUME BoundsAssumption ==
    /\ NumCerts \in Nat
    /\ BatchSize \in Nat \ {0}
    /\ MaxLevel \in Nat \ {0}
    /\ MaxIdleCps \in Nat
    /\ MaxFaults \in Nat

VARIABLES
    log_entries,  \* table: idx -> [entry_type, entry_data]
    tree_nodes,   \* table: <<level, idx>> -> hash
    checkpoints,  \* table, in the order of its BIGSERIAL id, before any pruning
    cursor,       \* watcher_cursors: the last certificate handled, 0 if no row
    caCerts,      \* how many certificates the CA database holds
    issued,       \* order -> the MTC proof in the certificate stored for it
    pc,           \* the store call each goroutine makes next
    batch,        \* the entries it is appending
    base,         \* the tree size it read
    rec,          \* where it is in recomputeInterior
    cp,           \* the checkpoint it is creating or has created
    proof,        \* the inclusion proof an order's goroutine has built
    faults

tables == <<log_entries, tree_nodes, checkpoints, cursor, issued>>
locals == <<pc, batch, base, rec, cp, proof>>
vars   == <<log_entries, tree_nodes, checkpoints, cursor, issued, caCerts,
            pc, batch, base, rec, cp, proof, faults>>

-----------------------------------------------------------------------------
(* Entries (BuildEntry, BuildPrecertEntry, BuildMTCEntry) and rows.        *)

NullEntry      == [entry_type |-> 0, entry_data |-> <<"null">>]
CertEntry(k)   == [entry_type |-> 1, entry_data |-> <<"cert", k>>]
DirectEntry(o) == [entry_type |-> 3, entry_data |-> <<"order", o>>]

NoRec   == [level |-> 0, idx |-> 0, left |-> EmptyHash, nodes |-> <<>>]
NoCp    == [tree_size |-> 0, root_hash |-> EmptyHash]
NoBatch == <<>>
NoProof == <<>>

\* INSERT ... ON CONFLICT DO UPDATE of rows into table.
Upsert(table, rows) ==
    [x \in DOMAIN table \cup DOMAIN rows |->
        IF x \in DOMAIN rows THEN rows[x] ELSE table[x]]

Without(table, keys) == [x \in DOMAIN table \ keys |-> table[x]]

\* The consecutive rows that hold a batch read at tree size s.
RowsAt(s, b) == [i \in s..(s + Len(b) - 1) |-> b[i - s + 1]]

LeavesAt(s, b) ==
    [x \in {0} \X (s..(s + Len(b) - 1)) |-> LeafHash(b[x[2] - s + 1].entry_data)]

\* SELECT COALESCE(MAX(idx) + 1, 0) FROM log_entries
sizeOf(rows) ==
    IF DOMAIN rows = {} THEN 0
    ELSE 1 + CHOOSE m \in DOMAIN rows : \A i \in DOMAIN rows : i <= m

TreeSize == sizeOf(log_entries)

LatestCheckpoint ==
    IF checkpoints = <<>> THEN NoCp ELSE checkpoints[Len(checkpoints)]

-----------------------------------------------------------------------------
Init ==
    /\ log_entries = <<>>
    /\ tree_nodes = <<>>
    /\ checkpoints = <<>>
    /\ cursor = 0
    /\ caCerts = 0
    /\ issued = <<>>
    /\ pc = [p \in Procs |-> IF p = Watcher THEN "init_size" ELSE "start"]
    /\ batch = [p \in Procs |-> NoBatch]
    /\ base = [p \in Procs |-> 0]
    /\ rec = [p \in Procs |-> NoRec]
    /\ cp = [p \in Procs |-> NoCp]
    /\ proof = [p \in Procs |-> NoProof]
    /\ faults = 0

\* Goroutine p makes the store call named by `to' next.
Goto(p, to) == pc' = [pc EXCEPT ![p] = to]

\* Where goroutine p goes when the operation it is in returns an error: the
\* watcher logs it and waits for the next tick, except that Run returns when
\* Initialize fails; a finalization gives the order up.
OnError(p) ==
    IF p # Watcher THEN "failed"
    ELSE IF pc[p] \in {"init_size", "init_append", "init_leaf"} THEN "dead"
    ELSE "idle"

\* The locals of goroutine p once it leaves an operation.
Reset(p) ==
    /\ batch' = [batch EXCEPT ![p] = NoBatch]
    /\ base' = [base EXCEPT ![p] = 0]
    /\ rec' = [rec EXCEPT ![p] = NoRec]
    /\ cp' = [cp EXCEPT ![p] = NoCp]
    /\ proof' = [proof EXCEPT ![p] = NoProof]

Return(p, to) == Goto(p, to) /\ Reset(p)

\* The CA inserts its next certificate.
CAIssue ==
    /\ caCerts < NumCerts
    /\ caCerts' = caCerts + 1
    /\ UNCHANGED <<tables, locals, faults>>

-----------------------------------------------------------------------------
(* Log.Initialize, run once when the watcher starts.                       *)

InitializeSize ==
    /\ pc[Watcher] = "init_size"
    /\ Goto(Watcher, IF TreeSize > 0 THEN "poll" ELSE "init_append")
    /\ UNCHANGED <<tables, caCerts, batch, base, rec, cp, proof, faults>>

\* Wrong: the null entry replaces whatever is at index 0.
InitializeOverwrites ==
    /\ pc[Watcher] = "init_append"
    /\ log_entries' = Upsert(log_entries, RowsAt(0, <<NullEntry>>))
    /\ Goto(Watcher, "init_leaf")
    /\ UNCHANGED <<tree_nodes, checkpoints, cursor, issued, caCerts,
                   batch, base, rec, cp, proof, faults>>

InitializeAppend ==
    /\ pc[Watcher] = "init_append"
    /\ IF 0 \in DOMAIN log_entries
       THEN /\ Goto(Watcher, OnError(Watcher))
            /\ UNCHANGED log_entries
       ELSE /\ log_entries' = Upsert(log_entries, RowsAt(0, <<NullEntry>>))
            /\ Goto(Watcher, "init_leaf")
    /\ UNCHANGED <<tree_nodes, checkpoints, cursor, issued, caCerts,
                   batch, base, rec, cp, proof, faults>>

InitializeLeaf ==
    /\ pc[Watcher] = "init_leaf"
    /\ tree_nodes' = Upsert(tree_nodes, LeavesAt(0, <<NullEntry>>))
    /\ Goto(Watcher, "poll")
    /\ UNCHANGED <<log_entries, checkpoints, cursor, issued, caCerts,
                   batch, base, rec, cp, proof, faults>>

-----------------------------------------------------------------------------
(* Watcher.pollCertificates up to its call of AppendCertificates.  The     *)
(* cursor read is from a row, or 0 when there is none or the read failed.  *)

\* Wrong: from the cursor on instead of after it.
FetchFromCursor(after) ==
    LET first == IF after = 0 THEN 0 ELSE after - 1
        last  == IF first + BatchSize < caCerts THEN first + BatchSize ELSE caCerts
    IN  [i \in 1..(last - first) |-> CertEntry(first + i)]

FetchNewCertificates(after) ==
    LET last == IF after + BatchSize < caCerts THEN after + BatchSize ELSE caCerts
    IN  [i \in 1..(last - after) |-> CertEntry(after + i)]

\* Wrong: the cursor moves when certificates are fetched.
PollMovesCursor ==
    LET certs == FetchNewCertificates(cursor)
    IN  /\ pc[Watcher] \in {"poll", "idle"}
        /\ IF certs = <<>>
           THEN Goto(Watcher, "idle") /\ UNCHANGED <<batch, cursor>>
           ELSE /\ batch' = [batch EXCEPT ![Watcher] = certs]
                /\ cursor' = cursor + Len(certs)
                /\ Goto(Watcher, "size")
        /\ UNCHANGED <<log_entries, tree_nodes, checkpoints, issued, caCerts,
                       base, rec, cp, proof, faults>>

PollCertificates ==
    /\ pc[Watcher] \in {"poll", "idle"}
    /\ \E lost \in BOOLEAN :
        /\ lost => faults < MaxFaults
        /\ LET certs == FetchNewCertificates(IF lost THEN 0 ELSE cursor)
           IN  IF certs = <<>>
               THEN Goto(Watcher, "idle") /\ UNCHANGED batch
               ELSE /\ batch' = [batch EXCEPT ![Watcher] = certs]
                    /\ Goto(Watcher, "size")
        /\ faults' = IF lost THEN faults + 1 ELSE faults
    /\ UNCHANGED <<tables, caCerts, base, rec, cp, proof>>

\* handleFinalize accepted the order and started its goroutine.
StartFinalize(o) ==
    /\ pc[o] = "start"
    /\ batch' = [batch EXCEPT ![o] = <<DirectEntry(o)>>]
    /\ Goto(o, "size")
    /\ UNCHANGED <<tables, caCerts, base, rec, cp, proof, faults>>

-----------------------------------------------------------------------------
(* AppendCertificates and AppendDirectEntry: the same four store calls for *)
(* a batch and for a single entry.                                         *)

ReadSize(p) ==
    /\ pc[p] = "size"
    /\ base' = [base EXCEPT ![p] = TreeSize]
    /\ Goto(p, "append")
    /\ UNCHANGED <<tables, caCerts, batch, rec, cp, proof, faults>>

\* Wrong: ON CONFLICT DO NOTHING.
AppendIgnoresConflict(p) ==
    /\ pc[p] = "append"
    /\ log_entries' = Upsert(RowsAt(base[p], batch[p]), log_entries)
    /\ Goto(p, "leaf")
    /\ UNCHANGED <<tree_nodes, checkpoints, cursor, issued, caCerts,
                   batch, base, rec, cp, proof, faults>>

\* One transaction: all rows, or none when idx is taken (primary key).
AppendEntries(p) ==
    /\ pc[p] = "append"
    /\ DOMAIN RowsAt(base[p], batch[p]) \cap DOMAIN log_entries = {}
    /\ log_entries' = Upsert(log_entries, RowsAt(base[p], batch[p]))
    /\ Goto(p, "leaf")
    /\ UNCHANGED <<tree_nodes, checkpoints, cursor, issued, caCerts,
                   batch, base, rec, cp, proof, faults>>

\* Wrong: pollCertificates goes on to the cursor when the append failed.
ConflictUnnoticed(p) ==
    /\ pc[p] = "append"
    /\ DOMAIN RowsAt(base[p], batch[p]) \cap DOMAIN log_entries # {}
    /\ Goto(p, IF p = Watcher THEN "cursor" ELSE "failed")
    /\ UNCHANGED <<tables, caCerts, batch, base, rec, cp, proof, faults>>

AppendConflict(p) ==
    /\ pc[p] = "append"
    /\ DOMAIN RowsAt(base[p], batch[p]) \cap DOMAIN log_entries # {}
    /\ Return(p, OnError(p))
    /\ UNCHANGED <<tables, caCerts, faults>>

\* Enter the loop of recomputeInterior at a level.
AtLevel(p, level) ==
    [level |-> level, idx |-> Shift(base[p], level), left |-> EmptyHash, nodes |-> <<>>]

SetLeaves(p) ==
    /\ pc[p] = "leaf"
    /\ tree_nodes' = Upsert(tree_nodes, LeavesAt(base[p], batch[p]))
    /\ rec' = [rec EXCEPT ![p] = AtLevel(p, 1)]
    /\ Goto(p, "left")
    /\ UNCHANGED <<log_entries, checkpoints, cursor, issued, caCerts,
                   batch, base, cp, proof, faults>>

-----------------------------------------------------------------------------
(* recomputeInterior: for each level, read the children of each node above *)
(* the new leaves one by one, then write the level in one transaction.     *)

endIdx(p) == Shift(base[p] + Len(batch[p]) - 1, rec[p].level)

\* Done with node idx, with the given rows to write at the end of the level.
NextIdx(p, rows) ==
    IF rec[p].idx < endIdx(p)
    THEN /\ rec' = [rec EXCEPT ![p].idx = @ + 1, ![p].left = EmptyHash, ![p].nodes = rows]
         /\ Goto(p, "left")
    ELSE /\ rec' = [rec EXCEPT ![p].left = EmptyHash, ![p].nodes = rows]
         /\ Goto(p, "write")

\* A failed read and a missing row are the same to the code.
ReadLeft(p, lost) ==
    LET child == <<rec[p].level - 1, 2 * rec[p].idx>>
    IN  /\ pc[p] = "left"
        /\ IF child \in DOMAIN tree_nodes /\ ~lost
           THEN /\ rec' = [rec EXCEPT ![p].left = tree_nodes[child]]
                /\ Goto(p, "right")
           ELSE NextIdx(p, rec[p].nodes)
        /\ UNCHANGED <<tables, caCerts, batch, base, cp, proof>>

ReadRight(p, lost) ==
    LET child == <<rec[p].level - 1, 2 * rec[p].idx + 1>>
        hash  == IF child \in DOMAIN tree_nodes /\ ~lost
                 THEN InteriorHash(rec[p].left, tree_nodes[child])
                 ELSE rec[p].left
        row   == [x \in {<<rec[p].level, rec[p].idx>>} |-> hash]
    IN  /\ pc[p] = "right"
        /\ NextIdx(p, Upsert(rec[p].nodes, row))
        /\ UNCHANGED <<tables, caCerts, batch, base, cp, proof>>

ReadChild(p) == (ReadLeft(p, FALSE) \/ ReadRight(p, FALSE)) /\ UNCHANGED faults

LostRead(p) ==
    /\ faults < MaxFaults
    /\ faults' = faults + 1
    /\ ReadLeft(p, TRUE) \/ ReadRight(p, TRUE)

\* Wrong: the same level over and over.
SetLevelAgain(p) ==
    /\ pc[p] = "write"
    /\ tree_nodes' = Upsert(tree_nodes, rec[p].nodes)
    /\ rec' = [rec EXCEPT ![p] = AtLevel(p, rec[p].level)]
    /\ Goto(p, "left")
    /\ UNCHANGED <<log_entries, checkpoints, cursor, issued, caCerts,
                   batch, base, cp, proof, faults>>

\* The loop ends at the last level, or at a level with nothing to write.
SetLevel(p) ==
    LET last == rec[p].level = MaxLevel \/ DOMAIN rec[p].nodes = {}
    IN  /\ pc[p] = "write"
        /\ tree_nodes' = Upsert(tree_nodes, rec[p].nodes)
        /\ rec' = [rec EXCEPT ![p] = IF last THEN NoRec ELSE AtLevel(p, rec[p].level + 1)]
        /\ Goto(p, IF ~last THEN "left" ELSE IF p = Watcher THEN "cursor" ELSE "cp_size")
        /\ UNCHANGED <<log_entries, checkpoints, cursor, issued, caCerts,
                       batch, base, cp, proof, faults>>

\* Wrong: to the last certificate there is by now.
CursorToNow ==
    /\ pc[Watcher] = "cursor"
    /\ cursor' = caCerts
    /\ Return(Watcher, "idle")
    /\ UNCHANGED <<log_entries, tree_nodes, checkpoints, issued, caCerts, faults>>

\* pollCertificates after a successful append.
UpdateWatcherCursor ==
    /\ pc[Watcher] = "cursor"
    /\ cursor' = batch[Watcher][Len(batch[Watcher])].entry_data[2]
    /\ Return(Watcher, "idle")
    /\ UNCHANGED <<log_entries, tree_nodes, checkpoints, issued, caCerts, faults>>

-----------------------------------------------------------------------------
(* Log.CreateCheckpoint, on the watcher's ticker and in a finalization.    *)

\* The ticker fires whether or not the log has changed; the guard bounds how
\* often it does for an unchanged log.
CheckpointTick ==
    /\ pc[Watcher] = "idle"
    /\ TreeSize # LatestCheckpoint.tree_size \/ Len(checkpoints) < MaxIdleCps
    /\ Goto(Watcher, "cp_size")
    /\ UNCHANGED <<tables, caCerts, batch, base, rec, cp, proof, faults>>

CheckpointSize(p) ==
    /\ pc[p] = "cp_size"
    /\ IF TreeSize = 0
       THEN Return(p, OnError(p))
       ELSE /\ cp' = [cp EXCEPT ![p] = [tree_size |-> TreeSize, root_hash |-> EmptyHash]]
            /\ Goto(p, "cp_root")
            /\ UNCHANGED <<batch, base, rec, proof>>
    /\ UNCHANGED <<tables, caCerts, faults>>

\* Wrong: floor(log2(n)).
rootLevelFloor(n) == CHOOSE l \in 0..n : 2^l <= n /\ 2^(l + 1) > n

\* ceil(log2(n)): the level whose node 0 is the root of a tree of size n.
rootLevel(n) == CHOOSE l \in 0..n : 2^l >= n /\ \A k \in 0..(l - 1) : 2^k < n

\* Wrong: gives up when the row is missing.
CheckpointRootStored(p) ==
    LET top == <<rootLevel(cp[p].tree_size), 0>>
    IN  /\ pc[p] = "cp_root"
        /\ IF top \in DOMAIN tree_nodes
           THEN /\ cp' = [cp EXCEPT ![p].root_hash = tree_nodes[top]]
                /\ Goto(p, "cp_save")
                /\ UNCHANGED <<batch, base, rec, proof>>
           ELSE Return(p, OnError(p))
        /\ UNCHANGED <<tables, caCerts, faults>>

\* computeRootHash reads the stored root; when that row is missing, or its read
\* fails, a tree of more than one leaf is hashed from its leaves.
CheckpointRoot(p) ==
    LET top == <<rootLevel(cp[p].tree_size), 0>>
    IN  /\ pc[p] = "cp_root"
        /\ \E lost \in BOOLEAN :
            /\ lost => faults < MaxFaults
            /\ IF top \in DOMAIN tree_nodes /\ ~lost
               THEN /\ cp' = [cp EXCEPT ![p].root_hash = tree_nodes[top]]
                    /\ Goto(p, "cp_save")
                    /\ UNCHANGED <<batch, base, rec, proof>>
               ELSE IF cp[p].tree_size > 1
               THEN Goto(p, "cp_leaves") /\ UNCHANGED <<batch, base, rec, cp, proof>>
               ELSE Return(p, OnError(p))
            /\ faults' = IF lost THEN faults + 1 ELSE faults
        /\ UNCHANGED <<tables, caCerts>>

\* computeMTH.  A leaf does not change once it is written, so reading them one
\* by one and reading them all at the end of the call give the same hash.
CheckpointLeaves(p) ==
    LET n == cp[p].tree_size
    IN  /\ pc[p] = "cp_leaves"
        /\ IF \A i \in 0..(n - 1) : <<0, i>> \in DOMAIN tree_nodes
           THEN /\ cp' = [cp EXCEPT ![p].root_hash =
                          computeSubtreeHash(0, n, [i \in 0..(n - 1) |-> tree_nodes[<<0, i>>]])]
                /\ Goto(p, "cp_save")
                /\ UNCHANGED <<batch, base, rec, proof>>
           ELSE Return(p, OnError(p))
        /\ UNCHANGED <<tables, caCerts, faults>>

\* SaveCheckpoint; the watcher then starts the assertion issuer and is idle.
SaveCheckpoint(p) ==
    /\ pc[p] = "cp_save"
    /\ checkpoints' = Append(checkpoints, cp[p])
    /\ IF p = Watcher
       THEN Return(p, "idle")
       ELSE Goto(p, "proof") /\ UNCHANGED <<batch, base, rec, cp, proof>>
    /\ UNCHANGED <<log_entries, tree_nodes, cursor, issued, caCerts, faults>>

-----------------------------------------------------------------------------
(* processFinalizeMTC and processFinalizeLocalCA after the checkpoint.     *)

\* The rows a proof is built without: none, or one whose read failed.
Unread == {{}} \cup (IF faults < MaxFaults THEN {{x} : x \in DOMAIN tree_nodes} ELSE {})

\* A row that is missing, or whose read fails, is the zero hash in the proof.
\* The reads are one step.
BuildProof(o) ==
    /\ pc[o] = "proof"
    /\ \E lost \in Unread :
        /\ proof' = [proof EXCEPT ![o] =
              InclusionProofFromNodes(base[o], cp[o].tree_size, Without(tree_nodes, lost))]
        /\ faults' = faults + Cardinality(lost)
    /\ Goto(o, "store")
    /\ UNCHANGED <<tables, caCerts, batch, base, rec, cp>>

\* Wrong: takes the last entry of the checkpoint for its own.
StoreCertLast(o) ==
    /\ pc[o] = "store"
    /\ issued' = Upsert(issued, [x \in {o} |->
          [leaf_index |-> cp[o].tree_size - 1, checkpoint |-> cp[o], proof |-> proof[o]]])
    /\ Return(o, "done")
    /\ UNCHANGED <<log_entries, tree_nodes, checkpoints, cursor, caCerts, faults>>

\* IssueWithProof or IssueMTCCert, then SetOrderFinalCertDER.
StoreCert(o) ==
    /\ pc[o] = "store"
    /\ issued' = Upsert(issued, [x \in {o} |->
          [leaf_index |-> base[o], checkpoint |-> cp[o], proof |-> proof[o]]])
    /\ Return(o, "done")
    /\ UNCHANGED <<log_entries, tree_nodes, checkpoints, cursor, caCerts, faults>>

-----------------------------------------------------------------------------
(* Failures.                                                               *)

\* The store call that goroutine p is making returns an error, and the error
\* is returned to the caller.  Whether the call took effect before it failed
\* is covered: the step that makes the call may or may not precede.
Fault(p) ==
    /\ pc[p] \notin {"idle", "dead", "start", "left", "right", "cp_root", "done", "failed"}
    /\ pc[p] = "write" => DOMAIN rec[p].nodes # {}
    /\ faults < MaxFaults
    /\ faults' = faults + 1
    /\ Return(p, OnError(p))
    /\ UNCHANGED <<tables, caCerts>>

\* The process dies: its goroutines are gone, and the watcher starts again.
Crash ==
    /\ faults < MaxFaults
    /\ faults' = faults + 1
    /\ pc' = [p \in Procs |-> IF p = Watcher THEN "init_size"
                              ELSE IF pc[p] \in {"start", "done"} THEN pc[p] ELSE "failed"]
    /\ batch' = [p \in Procs |-> NoBatch]
    /\ base' = [p \in Procs |-> 0]
    /\ rec' = [p \in Procs |-> NoRec]
    /\ cp' = [p \in Procs |-> NoCp]
    /\ proof' = [p \in Procs |-> NoProof]
    /\ UNCHANGED <<tables, caCerts>>

-----------------------------------------------------------------------------
\* The steps of an append and of a checkpoint, by whichever goroutine.
LogStep(p) ==
    \/ ReadSize(p) \/ AppendEntries(p) \/ AppendConflict(p) \/ SetLeaves(p)
    \/ ReadChild(p) \/ SetLevel(p)
    \/ CheckpointSize(p) \/ CheckpointRoot(p) \/ CheckpointLeaves(p) \/ SaveCheckpoint(p)

Initialize == InitializeSize \/ InitializeAppend \/ InitializeLeaf

WatcherStep == Initialize \/ UpdateWatcherCursor \/ LogStep(Watcher)

OrderStep(o) == LogStep(o) \/ BuildProof(o) \/ StoreCert(o)

Next ==
    \/ CAIssue
    \/ WatcherStep \/ PollCertificates \/ CheckpointTick
    \/ \E o \in Orders : StartFinalize(o) \/ OrderStep(o)
    \/ \E p \in Procs : LostRead(p) \/ Fault(p)
    \/ Crash

Spec == Init /\ [][Next]_vars

(***************************************************************************)
(* Store calls return, so a goroutine inside an operation goes on.  The    *)
(* select in Watcher.Run picks among the tickers that are ready at random, *)
(* and each ticker keeps firing: neither is passed over for ever.          *)
(***************************************************************************)
Fairness ==
    /\ WF_vars(WatcherStep)
    /\ SF_vars(PollCertificates)
    /\ SF_vars(CheckpointTick)
    /\ \A o \in Orders : WF_vars(OrderStep(o))

FairSpec == Spec /\ Fairness
-----------------------------------------------------------------------------
(* Properties.                                                             *)

Hashes(n) == [i \in 0..(n - 1) |-> LeafHash(log_entries[i].entry_data)]

Logged(entry) == \E i \in DOMAIN log_entries : log_entries[i] = entry

Entry ==
    [entry_type : {0, 1, 3},
     entry_data : {<<"null">>} \cup ({"cert"} \X (1..NumCerts)) \cup ({"order"} \X Orders)]

\* Type correctness of the tables and of the goroutines' locals.
TypeOK ==
    /\ \A i \in DOMAIN log_entries : i \in Nat /\ log_entries[i] \in Entry
    /\ \A x \in DOMAIN tree_nodes : x[1] \in 0..MaxLevel
    /\ checkpoints \in Seq({checkpoints[i] : i \in 1..Len(checkpoints)})
    /\ \A i \in 1..Len(checkpoints) : checkpoints[i].tree_size \in Nat \ {0}
    /\ cursor \in 0..NumCerts
    /\ caCerts \in 0..NumCerts
    /\ DOMAIN issued \subseteq Orders
    /\ pc \in [Procs -> Steps]
    /\ batch \in [Procs -> Seq(Entry)]
    /\ base \in [Procs -> Nat]
    /\ DOMAIN rec = Procs /\ DOMAIN cp = Procs
    /\ \A p \in Procs : /\ DOMAIN rec[p] = {"level", "idx", "left", "nodes"}
                        /\ DOMAIN cp[p] = {"tree_size", "root_hash"}
    /\ faults \in 0..MaxFaults

Abstract == INSTANCE AppendOnlyLog WITH log <- log_entries

\* The log is append-only (README.md:12) and has no holes, whatever number of
\* goroutines append to it with a tree size they read earlier, whatever fails
\* and wherever the process dies: of the goroutines that read the same size
\* only one can insert (primary key of log_entries), and AppendEntries inserts
\* a batch in one transaction.
AppendOnly == Abstract!Spec

\* A leaf hash in tree_nodes is the hash of the entry in log_entries at the
\* same index: SetTreeNode and SetTreeNodes at level 0 never overwrite the leaf
\* of an entry that another goroutine inserted.
LeavesMatchEntries ==
    \A x \in DOMAIN tree_nodes :
        x[1] = 0 => /\ x[2] \in DOMAIN log_entries
                    /\ tree_nodes[x] = LeafHash(log_entries[x[2]].entry_data)

\* No certificate is skipped: everything up to the cursor is in the log, also
\* when pollCertificates failed or was cut off anywhere and ran again.
CursorCovered == \A k \in 1..cursor : Logged(CertEntry(k))

\* A certificate that was issued with an inclusion proof names the index at
\* which its own entry is in the log, and a checkpoint that covers that index:
\* the size AppendDirectEntry read stays the index of its entry although other
\* goroutines append before CreateCheckpoint reads the size again.
IssuedOwnEntry ==
    \A o \in DOMAIN issued :
        /\ issued[o].leaf_index \in DOMAIN log_entries
        /\ log_entries[issued[o].leaf_index] = DirectEntry(o)
        /\ issued[o].leaf_index < issued[o].checkpoint.tree_size
        /\ \E i \in 1..Len(checkpoints) : checkpoints[i] = issued[o].checkpoint

\* The watcher handles no certificate twice: pollCertificates does not append
\* a batch again that it has appended and moved the cursor past, also when
\* other goroutines' appends made its own fail in between.
LoggedOnce ==
    \A i, j \in DOMAIN log_entries : log_entries[i] = log_entries[j] => i = j

\* The root that CreateCheckpoint signs for a size is the Merkle tree hash of
\* the first that many entries.
CheckpointRootIsMTH ==
    \A i \in 1..Len(checkpoints) :
        checkpoints[i].root_hash = MTH(checkpoints[i].tree_size, Hashes(checkpoints[i].tree_size))

\* The proof in an issued certificate leads from its own entry to the root of
\* the checkpoint it was issued under.
IssuedProofVerifies ==
    \A o \in DOMAIN issued :
        LET c == issued[o].checkpoint
        IN  RootFromInclusionProof(issued[o].leaf_index, c.tree_size,
                LeafHash(DirectEntry(o).entry_data), issued[o].proof) = c.root_hash

\* A certificate in the CA database is eventually covered by a checkpoint.
CertsCheckpointed ==
    \A k \in 1..NumCerts :
        caCerts >= k ~> \E i \in DOMAIN log_entries :
                            /\ log_entries[i] = CertEntry(k)
                            /\ LatestCheckpoint.tree_size > i

LeafMissing == \E i \in DOMAIN log_entries : <<0, i>> \notin DOMAIN tree_nodes

\* The same, unless Watcher.Run has returned or the leaf of an entry is missing
\* for good: interior nodes that are missing or wrong, because a call failed or
\* the process died in recomputeInterior, never stop CreateCheckpoint, and what
\* pollCertificates had not finished is done again.
CertsRecovered ==
    \A k \in 1..NumCerts :
        [](caCerts >= k => \/ <>(pc[Watcher] = "dead")
                           \/ <>[]LeafMissing
                           \/ <>(\E i \in DOMAIN log_entries :
                                     /\ log_entries[i] = CertEntry(k)
                                     /\ LatestCheckpoint.tree_size > i))

\* A finalization ends: the order gets its certificate or is given up.
FinalizeEnds == \A o \in Orders : pc[o] # "start" ~> pc[o] \in {"done", "failed"}
-----------------------------------------------------------------------------
(* The inductive invariant from which the safety properties above follow:  *)
(* facts about the tables, and about what each goroutine knows of them.    *)

\* The index AppendEntries is given after ReadSize is the first free one.
LogShape == TreeSize \in Nat /\ DOMAIN log_entries = 0..(TreeSize - 1)

TableInv == LogShape /\ LeavesMatchEntries /\ CursorCovered /\ IssuedOwnEntry

\* A goroutine has called AppendEntry or AppendEntries and is not done yet.
Appended(p) ==
    \/ pc[p] \in {"leaf", "left", "right", "write", "cursor"}
    \/ p # Watcher /\ pc[p] \in {"cp_size", "cp_root", "cp_leaves", "cp_save",
                                "proof", "store"}

Appending(p) == pc[p] \in {"size", "append"} \/ Appended(p)

\* A size that was read never exceeds the size of the log.
SizeRead(p) == pc[p] = "append" => 0..(base[p] - 1) \subseteq DOMAIN log_entries

\* What a goroutine has appended stays where it put it.
BatchInLog(p) ==
    Appended(p) => \A i \in 1..Len(batch[p]) :
                       /\ base[p] + i - 1 \in DOMAIN log_entries
                       /\ log_entries[base[p] + i - 1] = batch[p][i]

NullInLog ==
    pc[Watcher] = "init_leaf" => 0 \in DOMAIN log_entries /\ log_entries[0] = NullEntry

\* The watcher appends certificates that follow ones that are in the log, a
\* finalization its own entry.
BatchKind(p) ==
    Appending(p) =>
        IF p = Watcher
        THEN \E a \in 0..NumCerts, n \in 1..NumCerts :
                 /\ batch[p] = [i \in 1..n |-> CertEntry(a + i)]
                 /\ a + n <= NumCerts
                 /\ \A k \in 1..a : Logged(CertEntry(k))
        ELSE batch[p] = <<DirectEntry(p)>>

\* recomputeInterior writes rows of the level it is at, above the leaves.
RecLevel(p) ==
    pc[p] \in {"left", "right", "write"} =>
        /\ rec[p].level \in 1..MaxLevel
        /\ \A x \in DOMAIN rec[p].nodes : x[1] = rec[p].level

\* A finalization's checkpoint covers the entry it appended, and is saved
\* before the proof is built.
CheckpointCovers(p) ==
    /\ pc[p] \in {"cp_root", "cp_leaves", "cp_save"} => cp[p].tree_size \in Nat \ {0}
    /\ p # Watcher /\ pc[p] \in {"cp_root", "cp_leaves", "cp_save", "proof", "store"} =>
           base[p] < cp[p].tree_size
    /\ pc[p] \in {"proof", "store"} =>
           \E i \in 1..Len(checkpoints) : checkpoints[i] = cp[p]

LocalInv(p) ==
    SizeRead(p) /\ BatchInLog(p) /\ BatchKind(p) /\ RecLevel(p) /\ CheckpointCovers(p)

IInv == TypeOK /\ TableInv /\ NullInLog /\ \A p \in Procs : LocalInv(p)

\* While nothing fails, an order's entry is not in the log before the order appends
\* it, and of the certificates after the cursor only those of the batch that the
\* watcher has appended are.
OnceInv ==
    faults = 0 =>
        /\ LoggedOnce
        /\ \A o \in Orders : pc[o] \in {"start", "size", "append"} => ~Logged(DirectEntry(o))
        /\ Appending(Watcher) => \A i \in 1..Len(batch[Watcher]) : batch[Watcher][i] = CertEntry(cursor + i)
        /\ \A k \in 1..NumCerts : (Logged(CertEntry(k)) /\ k > cursor)
                             => Appended(Watcher) /\ k <= cursor + Len(batch[Watcher])
=============================================================================
