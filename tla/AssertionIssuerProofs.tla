------------------------ MODULE AssertionIssuerProofs -----------------------
(***************************************************************************)
(* Proofs about AssertionIssuer, for any number of overlapping runs, of    *)
(* finalizations and of failures.  IssuerInv is inductive: the log only    *)
(* grows, so that what a run listed and built stays good (GrownRuns), and  *)
(* no step deletes a checkpoint that a bundle refers to.                   *)
(***************************************************************************)
EXTENDS AssertionIssuer, MerkleTreeProofs

-----------------------------------------------------------------------------
(* The latest checkpoint.                                                  *)

\* The checkpoint with the greatest id is a row of the table (LatestCheckpoint),
\* so that the size a bundle is built with is that of a tree of the log.
LEMMA LatestSizeType ==
    ASSUME TypeOK
    PROVE  LatestSize \in 0..TreeSize
<1> DEFINE D == DOMAIN checkpoints
           id == Max0(D)
<1>1. TreeSize \in Nat /\ lastId \in Nat /\ D \subseteq 1..lastId
  BY DEF TypeOK, TreeSize
<1>2. CASE D = {}
  BY <1>1, <1>2 DEF LatestSize, Max0
<1>3. CASE D # {}
  <2>1. D \subseteq 0..lastId
    BY <1>1
  <2>2. \E m \in D : \A n \in D : n <= m
    <3> HIDE DEF D
    <3> QED BY <1>1, <1>3, <2>1, GreatestNatural
  <2>3. id \in D
    BY <1>3, <2>2 DEF Max0
  <2>4. checkpoints[id] \in 1..TreeSize
    BY <2>3 DEF TypeOK
  <2> HIDE DEF D, id
  <2>5. LatestSize = IF id = 0 THEN 0 ELSE checkpoints[id]
    BY DEF LatestSize, id, D
  <2> QED
    BY <1>1, <2>4, <2>5
<1> QED
  BY <1>2, <1>3

-----------------------------------------------------------------------------
(* What a growing log keeps.                                               *)

\* The log is as it was or has one more entry.
Grown ==
    /\ TreeSize \in Nat /\ TreeSize' \in Nat /\ TreeSize <= TreeSize'
    /\ Certs \subseteq Certs'
    /\ lastId \in Nat /\ lastId' \in Nat /\ lastId <= lastId'

LEMMA LogUnchanged ==
    ASSUME TypeOK, UNCHANGED entry_type, lastId' \in Nat, lastId <= lastId'
    PROVE  Grown
  BY DEF TypeOK, Grown, TreeSize, Certs

LEMMA LogAppended ==
    ASSUME TypeOK, NEW t \in {0, 1, 3}, entry_type' = Append(entry_type, t), UNCHANGED lastId
    PROVE  Grown /\ TreeSize' = TreeSize + 1 /\ entry_type' \in Seq({0, 1, 3})
<1>1. entry_type \in Seq({0, 1, 3})
  BY DEF TypeOK
<1>2. /\ Len(entry_type) \in Nat /\ entry_type' \in Seq({0, 1, 3})
      /\ Len(entry_type') = Len(entry_type) + 1
      /\ \A i \in 1..Len(entry_type) : entry_type'[i] = entry_type[i]
  BY <1>1
<1>3. Certs \subseteq Certs'
  <2> SUFFICES ASSUME NEW i \in Certs PROVE i \in Certs'
    OBVIOUS
  <2>1. i \in 0..(Len(entry_type) - 1) /\ entry_type[i + 1] = 1
    BY DEF Certs, TreeSize
  <2>2. i + 1 \in 1..Len(entry_type)
    BY <1>2, <2>1
  <2>3. entry_type'[i + 1] = 1 /\ i \in 0..(Len(entry_type') - 1)
    BY <1>2, <2>1, <2>2
  <2> QED
    BY <2>3 DEF Certs, TreeSize
<1> QED
  BY <1>2, <1>3 DEF Grown, TreeSize, TypeOK

\* What a run holds in memory stays good as the log grows.
LEMMA GrownRun ==
    ASSUME Grown, NEW r \in Runs, RunTypeOK(runs'[r]), RunInv(runs'[r])
    PROVE  (RunTypeOK(runs[r]) /\ RunInv(runs[r]))'
<1> DEFINE run == runs'[r]
<1>1. RunTypeOK(runs[r])'
  BY DEF Grown, RunTypeOK, NoRun
<1>2. RunInv(runs[r])'
  <2>1. \A i \in DOMAIN run.built : run.built[i] \in (i + 1)..TreeSize'
    BY DEF Grown, RunInv, Certs
  <2> QED
    BY <2>1 DEF Grown, RunInv
<1> QED
  BY <1>1, <1>2

LEMMA NoRunGood ==
    ASSUME lastId \in Nat
    PROVE  RunTypeOK(NoRun) /\ RunInv(NoRun)
  BY IssuerAssumption DEF RunTypeOK, RunInv, NoRun

\* At the end of generatePending or refreshStale a run holds nothing new.
LEMMA NextPhaseGood ==
    ASSUME lastId \in Nat, NEW run, RunTypeOK(run), RunInv(run)
    PROVE  RunTypeOK(NextPhase(run)) /\ RunInv(NextPhase(run))
<1>1. CASE ~run.refresh
  BY <1>1 DEF NextPhase, RunTypeOK, RunInv, NoRun
<1>2. CASE run.refresh /\ run.stored
  BY <1>2, IssuerAssumption DEF NextPhase, RunTypeOK, RunInv, NoRun
<1>3. CASE run.refresh /\ ~run.stored
  BY <1>3, NoRunGood DEF NextPhase
<1> QED
  BY <1>1, <1>2, <1>3

-----------------------------------------------------------------------------
(* The bundles.                                                            *)

BundleType ==
    \A i \in DOMAIN bundles :
        bundles[i] \in [checkpoint_id : 1..lastId, tree_size : 1..TreeSize, stale : BOOLEAN]

\* Bundles that are not touched stay provable when the log and the checkpoints grow.
LEMMA KeptBundles ==
    ASSUME Grown, BundleType, BundleProvable,
           \A i \in DOMAIN bundles' : i \in DOMAIN bundles /\ bundles'[i] = bundles[i],
           \A i \in DOMAIN bundles' : bundles[i].checkpoint_id \in DOMAIN checkpoints'
    PROVE  (BundleType /\ BundleProvable)'
<1>1. \A i \in DOMAIN bundles' :
          bundles'[i] \in [checkpoint_id : 1..lastId', tree_size : 1..TreeSize', stale : BOOLEAN]
  BY DEF Grown, BundleType
<1> QED
  BY <1>1 DEF Grown, BundleType, BundleProvable

-----------------------------------------------------------------------------
(* The steps.                                                              *)

LEMMA InitIssuerInv == Init => IssuerInv
<1> SUFFICES ASSUME Init PROVE IssuerInv
  OBVIOUS
<1>1. /\ TreeSize = 1 /\ entry_type \in Seq({0, 1, 3}) /\ lastId \in Nat /\ lastId = 0
      /\ DOMAIN checkpoints = {} /\ DOMAIN bundles = {}
  BY DEF Init, TreeSize
<1>2. \A r \in Runs : RunTypeOK(runs[r]) /\ RunInv(runs[r])
  BY <1>1, NoRunGood DEF Init
<1>3. TypeOK
  BY <1>1, <1>2, IssuerAssumption DEF Init, TypeOK
<1>4. SizesRead
  BY <1>1 DEF Init, SizesRead
<1>5. BundleProvable
  BY <1>1 DEF BundleProvable
<1> QED
  BY <1>2, <1>3, <1>4, <1>5 DEF IssuerInv

\* A step of a run, or of its webhook, with the tables of the log as they were:
\* the other runs do not notice.
LEMMA RunStep ==
    ASSUME IssuerInv, NEW r \in Runs,
           UNCHANGED <<entry_type, checkpoints, lastId, idle, watcher, finalize>>,
           faults' \in 0..MaxFaults,
           DOMAIN runs' = Runs, \A q \in Runs \ {r} : runs'[q] = runs[q],
           RunTypeOK(runs'[r]), RunInv(runs'[r]),
           (BundleType /\ BundleProvable)'
    PROVE  IssuerInv'
<1>1. Grown
  BY LogUnchanged DEF IssuerInv, TypeOK
<1>2. \A q \in Runs : (RunTypeOK(runs[q]) /\ RunInv(runs[q]))'
  <2>1. \A q \in Runs : RunTypeOK(runs'[q]) /\ RunInv(runs'[q])
    BY DEF IssuerInv, TypeOK
  <2> QED
    BY <1>1, <2>1, GrownRun
<1>3. TypeOK'
  BY <1>2 DEF IssuerInv, TypeOK, BundleType, TreeSize
<1>4. SizesRead'
  BY DEF IssuerInv, SizesRead, TreeSize
<1> QED
  BY <1>2, <1>3, <1>4 DEF IssuerInv

\* The same when no bundle is written.
LEMMA RunStepKeeps ==
    ASSUME IssuerInv, NEW r \in Runs,
           UNCHANGED <<entry_type, checkpoints, lastId, idle, bundles, watcher, finalize>>,
           faults' \in 0..MaxFaults,
           DOMAIN runs' = Runs, \A q \in Runs \ {r} : runs'[q] = runs[q],
           RunTypeOK(runs'[r]), RunInv(runs'[r])
    PROVE  IssuerInv'
<1>1. Grown
  BY LogUnchanged DEF IssuerInv, TypeOK
<1>2. BundleType /\ BundleProvable
  BY DEF IssuerInv, TypeOK, BundleType
<1>3. (BundleType /\ BundleProvable)'
  BY <1>1, <1>2, KeptBundles DEF BundleProvable
<1> QED
  BY <1>3, RunStep

\* UPDATE ... SET stale = TRUE changes nothing else of a bundle.
LEMMA MarkStaleStep ==
    ASSUME IssuerInv, NEW r \in Runs, NEW failed \in BOOLEAN, MarkStale(r, failed),
           faults' \in 0..MaxFaults
    PROVE  IssuerInv'
<1>1. BundleType /\ BundleProvable
  BY DEF IssuerInv, TypeOK, BundleType
<1>2. /\ DOMAIN bundles' = DOMAIN bundles
      /\ \A i \in DOMAIN bundles :
            /\ bundles'[i].checkpoint_id = bundles[i].checkpoint_id
            /\ bundles'[i].tree_size = bundles[i].tree_size
            /\ bundles'[i] \in [checkpoint_id : 1..lastId, tree_size : 1..TreeSize, stale : BOOLEAN]
  BY <1>1 DEF MarkStale, MarkStaleBundles, BundleType
<1>3. UNCHANGED <<entry_type, checkpoints, lastId, idle, watcher, finalize>>
  BY DEF MarkStale
<1>4. (BundleType /\ BundleProvable)'
  BY <1>1, <1>2, <1>3 DEF BundleType, BundleProvable, TreeSize, Certs
<1>5. RunTypeOK(runs[r]) /\ RunInv(runs[r]) /\ DOMAIN runs = Runs
  BY DEF IssuerInv, TypeOK
<1>6. /\ DOMAIN runs' = Runs /\ \A q \in Runs \ {r} : runs'[q] = runs[q]
      /\ runs'[r] = [runs[r] EXCEPT !.at = "list", !.size = 0]
  BY <1>5 DEF MarkStale
<1>7. RunTypeOK(runs'[r]) /\ RunInv(runs'[r])
  BY <1>5, <1>6 DEF RunTypeOK, RunInv, NoRun
<1> QED
  BY <1>3, <1>4, <1>6, <1>7, RunStep

\* Only certificates have bundles and only they are listed (ListPendingEntries,
\* ListStaleBundles).
LEMMA ListStep ==
    ASSUME IssuerInv, NEW r \in Runs, NEW failed \in BOOLEAN, List(r, failed),
           faults' \in 0..MaxFaults
    PROVE  IssuerInv'
<1> DEFINE indices == IF runs[r].refresh THEN ListStaleBundles ELSE ListPendingEntries
<1>1. indices \subseteq Certs
  BY DEF ListStaleBundles, ListPendingEntries, Newest, Stale, Pending, Certs, IssuerInv, BundleProvable
<1>2. RunTypeOK(runs[r]) /\ RunInv(runs[r]) /\ DOMAIN runs = Runs /\ lastId \in Nat
  BY DEF IssuerInv, TypeOK
<1> HIDE DEF indices
<1>3. /\ DOMAIN runs' = Runs /\ \A q \in Runs \ {r} : runs'[q] = runs[q]
      /\ runs'[r] = IF failed \/ indices = {} THEN NextPhase(runs[r])
                    ELSE [runs[r] EXCEPT !.at = "build", !.todo = indices, !.built = <<>>]
  BY <1>2 DEF List, indices
<1>4. UNCHANGED <<entry_type, checkpoints, lastId, idle, bundles, watcher, finalize>>
  BY DEF List, dbVars
<1>5. CASE failed \/ indices = {}
  BY <1>2, <1>3, <1>4, <1>5, NextPhaseGood, RunStepKeeps
<1>6. CASE ~(failed \/ indices = {})
  <2>1. RunTypeOK(runs'[r]) /\ RunInv(runs'[r])
    BY <1>1, <1>2, <1>3, <1>6 DEF RunTypeOK, RunInv, NoRun
  <2> QED
    BY <2>1, <1>3, <1>4, RunStepKeeps
<1> QED
  BY <1>5, <1>6

\* BuildByIndex refuses an entry that the latest checkpoint does not cover.
LEMMA BuildOneStep ==
    ASSUME IssuerInv, NEW r \in Runs, NEW failed \in BOOLEAN,
           NEW i \in runs[r].todo, BuildOne(r, i, failed), faults' \in 0..MaxFaults
    PROVE  IssuerInv'
<1> DEFINE b == BuildByIndex(i)
           new == IF b.ok /\ ~failed THEN Upsert(runs[r].built, Row(i, b.tree_size))
                  ELSE runs[r].built
<1>1. RunTypeOK(runs[r]) /\ RunInv(runs[r]) /\ DOMAIN runs = Runs
  BY DEF IssuerInv, TypeOK
<1>2. /\ DOMAIN runs' = Runs /\ \A q \in Runs \ {r} : runs'[q] = runs[q]
      /\ runs'[r] = [runs[r] EXCEPT !.todo = @ \ {i}, !.built = new]
  BY <1>1 DEF BuildOne
<1>3. UNCHANGED <<entry_type, checkpoints, lastId, idle, bundles, watcher, finalize>>
  BY DEF BuildOne, dbVars
<1>4. LatestSize \in 0..TreeSize /\ TreeSize \in Nat
  BY LatestSizeType DEF IssuerInv, TypeOK, TreeSize
<1>5. i \in Certs /\ i \in Nat
  BY <1>1 DEF RunInv, Certs
<1>6. \A j \in DOMAIN new : j \in Certs /\ new[j] \in (j + 1)..TreeSize
  <2>1. CASE b.ok /\ ~failed
    <3>1. b.tree_size \in (i + 1)..TreeSize
      BY <1>4, <1>5, <2>1 DEF BuildByIndex
    <3>2. new = Upsert(runs[r].built, Row(i, b.tree_size))
      BY <2>1
    <3> HIDE DEF b, new
    <3>3. DOMAIN new = DOMAIN runs[r].built \cup {i}
      BY <3>2 DEF Upsert, Row
    <3>4. \A j \in DOMAIN new : new[j] = IF j = i THEN b.tree_size ELSE runs[r].built[j]
      BY <3>2 DEF Upsert, Row
    <3> QED
      BY <3>1, <3>3, <3>4, <1>1, <1>5 DEF RunInv
  <2>2. CASE ~(b.ok /\ ~failed)
    BY <2>2, <1>1 DEF RunInv
  <2> QED
    BY <2>1, <2>2
<1> HIDE DEF b, new
<1>7. RunTypeOK(runs'[r]) /\ RunInv(runs'[r])
  BY <1>1, <1>2, <1>6, SMTT(30) DEF RunTypeOK, RunInv, NoRun
<1> QED
  BY <1>2, <1>3, <1>7, RunStepKeeps

\* The rows a run stores are good: the foreign key says that the checkpoint
\* they refer to is there, and RunInv the rest.
LEMMA UpsertStep ==
    ASSUME IssuerInv, NEW r \in Runs, NEW failed \in BOOLEAN,
           UpsertAssertionBundles(r, failed), faults' \in 0..MaxFaults
    PROVE  IssuerInv'
<1> DEFINE run  == runs[r]
           rows == [i \in DOMAIN run.built |-> BundleRow(run, i)]
           ok   == DOMAIN rows # {} /\ run.cp \in DOMAIN checkpoints /\ ~failed
           left == [run EXCEPT !.built = <<>>, !.stored = @ \/ ok]
<1>1. RunTypeOK(run) /\ RunInv(run) /\ DOMAIN runs = Runs /\ lastId \in Nat
  BY DEF IssuerInv, TypeOK
<1>2. BundleType /\ BundleProvable /\ DOMAIN checkpoints \subseteq 1..lastId
  BY DEF IssuerInv, TypeOK, BundleType
<1>3. /\ UNCHANGED <<entry_type, checkpoints, lastId, idle, watcher, finalize>>
      /\ bundles' = IF ok THEN Upsert(bundles, rows) ELSE bundles
      /\ runs' = [runs EXCEPT ![r] = NextPhase(left)]
  BY Zenon DEF UpsertAssertionBundles
<1>4. RunTypeOK(left) /\ RunInv(left)
  <2> HIDE DEF ok
  <2> QED
    BY <1>1 DEF RunTypeOK, RunInv, NoRun
<1>5. RunTypeOK(NextPhase(left)) /\ RunInv(NextPhase(left))
  <2> HIDE DEF left
  <2> QED
    BY <1>1, <1>4, NextPhaseGood
<1>6. /\ DOMAIN runs' = Runs /\ \A q \in Runs \ {r} : runs'[q] = runs[q]
      /\ RunTypeOK(runs'[r]) /\ RunInv(runs'[r])
  <2> HIDE DEF left
  <2> QED
    BY <1>1, <1>3, <1>5
<1>7. (BundleType /\ BundleProvable)'
  <2>1. CASE ok
    <3>1. \A i \in DOMAIN rows :
             /\ i \in Certs /\ i < rows[i].tree_size
             /\ rows[i].checkpoint_id \in DOMAIN checkpoints
             /\ rows[i] \in [checkpoint_id : 1..lastId, tree_size : 1..TreeSize, stale : BOOLEAN]
      BY <1>1, <1>2, <2>1 DEF RunInv, BundleRow, Certs
    <3> HIDE DEF rows
    <3>2. bundles' = Upsert(bundles, rows)
      BY <1>3, <2>1
    <3>3. /\ DOMAIN bundles' = DOMAIN bundles \cup DOMAIN rows
          /\ \A i \in DOMAIN bundles' : bundles'[i] = IF i \in DOMAIN rows THEN rows[i] ELSE bundles[i]
      BY <3>2 DEF Upsert
    <3> QED
      BY <1>2, <1>3, <3>1, <3>3, ZenonT(30) DEF BundleType, BundleProvable, TreeSize, Certs
  <2>2. CASE ~ok
    BY <1>2, <1>3, <2>2 DEF BundleType, BundleProvable, TreeSize, Certs
  <2> QED
    BY <2>1, <2>2
<1> QED
  BY <1>3, <1>6, <1>7, RunStep

LEMMA SendWebhookStep ==
    ASSUME IssuerInv, NEW r \in Runs, NEW answer, SendWebhook(r, answer)
    PROVE  IssuerInv'
<1> DEFINE run == IF answer = "2xx" \/ runs[r].attempt = MaxRetries THEN NoRun
                  ELSE [runs[r] EXCEPT !.attempt = @ + 1]
<1>1. RunTypeOK(runs[r]) /\ RunInv(runs[r]) /\ DOMAIN runs = Runs /\ lastId \in Nat
  BY DEF IssuerInv, TypeOK
<1>2. /\ DOMAIN runs' = Runs /\ \A q \in Runs \ {r} : runs'[q] = runs[q]
      /\ runs'[r] = run
  <2>1. runs' = [runs EXCEPT ![r] = run]
    BY Zenon DEF SendWebhook
  <2> HIDE DEF run
  <2> QED
    BY <1>1, <2>1
<1>3. RunTypeOK(runs'[r]) /\ RunInv(runs'[r])
  <2>1. CASE answer = "2xx" \/ runs[r].attempt = MaxRetries
    BY <1>1, <1>2, <2>1, NoRunGood
  <2>2. CASE ~(answer = "2xx" \/ runs[r].attempt = MaxRetries)
    BY <1>1, <1>2, <2>2, IssuerAssumption DEF RunTypeOK, RunInv, NoRun
  <2> QED
    BY <2>1, <2>2
<1> QED
  BY <1>2, <1>3, RunStepKeeps DEF SendWebhook, dbVars, IssuerInv, TypeOK

WatcherType == watcher \in [at : {"idle", "save"}, size : 0..TreeSize]

FinalizeType == finalize \in [Orders -> [at : {"start", "save", "done"}, size : 0..TreeSize]]

CheckpointType ==
    /\ DOMAIN checkpoints \subseteq 1..lastId
    /\ \A id \in DOMAIN checkpoints : checkpoints[id] \in 1..TreeSize

\* A step of a writer of the log or of checkpoints: rows are only added.
LEMMA WriterStep ==
    ASSUME IssuerInv, Grown, entry_type' \in Seq({0, 1, 3}), idle' \in 0..MaxIdle,
           (CheckpointType /\ WatcherType /\ FinalizeType /\ SizesRead)',
           DOMAIN checkpoints \subseteq DOMAIN checkpoints',
           UNCHANGED <<bundles, faults>>,
           DOMAIN runs' = Runs, \A r \in Runs : (RunTypeOK(runs[r]) /\ RunInv(runs[r]))'
    PROVE  IssuerInv'
<1>1. BundleType /\ BundleProvable
  BY DEF IssuerInv, TypeOK, BundleType
<1>2. (BundleType /\ BundleProvable)'
  BY <1>1, KeptBundles DEF BundleProvable
<1>3. TypeOK'
  BY <1>2 DEF IssuerInv, TypeOK, Grown, BundleType, CheckpointType, WatcherType, FinalizeType
<1> QED
  BY <1>2, <1>3 DEF IssuerInv

LEMMA KeptRuns ==
    ASSUME IssuerInv, Grown, UNCHANGED runs
    PROVE  DOMAIN runs' = Runs /\ \A r \in Runs : (RunTypeOK(runs[r]) /\ RunInv(runs[r]))'
<1>1. \A r \in Runs : RunTypeOK(runs'[r]) /\ RunInv(runs'[r])
  BY DEF IssuerInv, TypeOK
<1> QED
  BY <1>1, GrownRun DEF IssuerInv, TypeOK

\* What the writers know of the tree size stays true as the log grows.
LEMMA KeptWriters ==
    ASSUME IssuerInv, Grown
    PROVE  /\ UNCHANGED checkpoints => CheckpointType'
           /\ UNCHANGED watcher => WatcherType'
           /\ UNCHANGED finalize => FinalizeType'
<1>1. ASSUME UNCHANGED finalize PROVE FinalizeType'
  <2>1. \A o \in Orders : finalize[o] \in [at : {"start", "save", "done"}, size : 0..TreeSize']
    BY DEF IssuerInv, TypeOK, Grown
  <2> QED
    BY <1>1, <2>1 DEF IssuerInv, TypeOK, FinalizeType
<1>2. ASSUME UNCHANGED watcher PROVE WatcherType'
  BY <1>2 DEF IssuerInv, TypeOK, WatcherType, Grown
<1>3. ASSUME UNCHANGED checkpoints PROVE CheckpointType'
  BY <1>3 DEF IssuerInv, TypeOK, CheckpointType, Grown
<1> QED
  BY <1>1, <1>2, <1>3

LEMMA AppendCertificateStep == ASSUME IssuerInv, AppendCertificate PROVE IssuerInv'
<1>1. Grown /\ TreeSize' = TreeSize + 1 /\ entry_type' \in Seq({0, 1, 3})
  BY LogAppended DEF AppendCertificate, IssuerInv
<1>2. (CheckpointType /\ WatcherType /\ FinalizeType)'
  BY <1>1, KeptWriters DEF AppendCertificate
<1>3. SizesRead'
  BY <1>1 DEF IssuerInv, SizesRead, Grown, AppendCertificate
<1> QED
  BY <1>1, <1>2, <1>3, KeptRuns, WriterStep DEF AppendCertificate, IssuerInv, TypeOK

LEMMA FinalizeAppendStep ==
    ASSUME IssuerInv, NEW o \in Orders, FinalizeAppend(o)
    PROVE  IssuerInv'
<1>1. Grown /\ TreeSize' = TreeSize + 1 /\ entry_type' \in Seq({0, 1, 3})
  BY LogAppended DEF FinalizeAppend, IssuerInv
<1>2. (CheckpointType /\ WatcherType)'
  BY <1>1, KeptWriters DEF FinalizeAppend
<1>3. finalize \in [Orders -> [at : {"start", "save", "done"}, size : 0..TreeSize']]
  <2>1. \A q \in Orders : finalize[q] \in [at : {"start", "save", "done"}, size : 0..TreeSize']
    BY <1>1 DEF IssuerInv, TypeOK, Grown
  <2> QED
    BY <2>1 DEF IssuerInv, TypeOK
<1>4. FinalizeType'
  BY <1>1, <1>3 DEF FinalizeAppend, FinalizeType, Grown
<1>5. SizesRead'
  BY <1>1, <1>3 DEF IssuerInv, SizesRead, Grown, FinalizeAppend
<1> QED
  BY <1>1, <1>2, <1>4, <1>5, KeptRuns, WriterStep DEF FinalizeAppend, IssuerInv, TypeOK

LEMMA CheckpointTickStep == ASSUME IssuerInv, CheckpointTick PROVE IssuerInv'
<1>1. Grown
  BY LogUnchanged DEF IssuerInv, TypeOK, CheckpointTick, dbVars
<1>2. (CheckpointType /\ FinalizeType)'
  BY <1>1, KeptWriters DEF CheckpointTick, dbVars
<1>3. WatcherType'
  BY <1>1 DEF CheckpointTick, dbVars, WatcherType, Grown, TreeSize
<1>4. SizesRead'
  BY <1>1 DEF IssuerInv, SizesRead, Grown, CheckpointTick, dbVars, TreeSize
<1> QED
  BY <1>1, <1>2, <1>3, <1>4, KeptRuns, WriterStep DEF CheckpointTick, dbVars, IssuerInv, TypeOK

\* The new row is of a tree with an entry, and no other row goes.
LEMMA SaveCheckpointRows ==
    ASSUME IssuerInv, UNCHANGED entry_type, NEW size \in 1..TreeSize, SaveCheckpoint(size)
    PROVE  /\ Grown /\ idle' \in 0..MaxIdle /\ CheckpointType'
           /\ DOMAIN checkpoints \subseteq DOMAIN checkpoints'
<1> DEFINE repeats == lastId > 0 /\ LatestSize = size
<1>1. TypeOK /\ TreeSize' = TreeSize /\ CheckpointType /\ lastId \in Nat /\ idle \in 0..MaxIdle
  BY DEF IssuerInv, TypeOK, CheckpointType, TreeSize
<1>2. CASE repeats /\ idle = MaxIdle
  <2>1. UNCHANGED <<checkpoints, lastId, idle>>
    BY <1>2 DEF SaveCheckpoint
  <2> QED
    BY <1>1, <2>1, LogUnchanged DEF CheckpointType
<1>3. CASE ~(repeats /\ idle = MaxIdle)
  <2>1. /\ lastId' = lastId + 1
        /\ checkpoints' = Upsert(checkpoints, Row(lastId + 1, size))
        /\ idle' = IF repeats THEN idle + 1 ELSE 0
    BY <1>3 DEF SaveCheckpoint
  <2>2. /\ DOMAIN checkpoints' = DOMAIN checkpoints \cup {lastId + 1}
        /\ \A id \in DOMAIN checkpoints' :
              checkpoints'[id] = IF id = lastId + 1 THEN size ELSE checkpoints[id]
    BY <2>1 DEF Upsert, Row
  <2>3. idle' \in 0..MaxIdle
    <3> HIDE DEF repeats
    <3> QED
      BY <1>1, <1>3, <2>1, IssuerAssumption
  <2>4. CheckpointType'
    BY <1>1, <2>1, <2>2 DEF CheckpointType
  <2> QED
    BY <1>1, <2>1, <2>2, <2>3, <2>4, LogUnchanged
<1> QED
  BY <1>2, <1>3

LEMMA FinalizeCheckpointStep ==
    ASSUME IssuerInv, NEW o \in Orders, FinalizeCheckpoint(o)
    PROVE  IssuerInv'
<1>1. finalize \in [Orders -> [at : {"start", "save", "done"}, size : 0..TreeSize]] /\ TreeSize \in Nat
  BY DEF IssuerInv, TypeOK, TreeSize
<1>2. finalize[o].size \in 1..TreeSize
  BY <1>1 DEF IssuerInv, SizesRead, FinalizeCheckpoint
<1>3. /\ Grown /\ idle' \in 0..MaxIdle /\ CheckpointType'
      /\ DOMAIN checkpoints \subseteq DOMAIN checkpoints'
  BY <1>2, SaveCheckpointRows DEF FinalizeCheckpoint
<1>4. TreeSize' = TreeSize
  BY DEF FinalizeCheckpoint, TreeSize
<1>5. FinalizeType'
  BY <1>1, <1>4 DEF FinalizeCheckpoint, FinalizeType
<1>6. SizesRead'
  BY <1>1, <1>4 DEF IssuerInv, SizesRead, FinalizeCheckpoint
<1> QED
  BY <1>3, <1>5, <1>6, KeptWriters, KeptRuns, WriterStep DEF FinalizeCheckpoint, IssuerInv, TypeOK

\* The new run refers to the checkpoint that was just saved.
LEMMA CreateCheckpointStep ==
    ASSUME IssuerInv, NEW r \in Runs, CreateCheckpoint(r)
    PROVE  IssuerInv'
<1>1. watcher \in [at : {"idle", "save"}, size : 0..TreeSize] /\ TreeSize \in Nat
  BY DEF IssuerInv, TypeOK, TreeSize
<1>2. watcher.size \in 1..TreeSize
  BY <1>1 DEF IssuerInv, SizesRead, CreateCheckpoint
<1>3. /\ Grown /\ idle' \in 0..MaxIdle /\ CheckpointType'
      /\ DOMAIN checkpoints \subseteq DOMAIN checkpoints'
  BY <1>2, SaveCheckpointRows DEF CreateCheckpoint
<1>4. TreeSize' = TreeSize
  BY DEF CreateCheckpoint, TreeSize
<1>5. WatcherType'
  BY <1>1, <1>4 DEF CreateCheckpoint, WatcherType
<1>6. SizesRead'
  BY <1>1, <1>4 DEF IssuerInv, SizesRead, CreateCheckpoint
<1>7. DOMAIN runs = Runs /\ \A q \in Runs : RunTypeOK(runs[q]) /\ RunInv(runs[q])
  BY DEF IssuerInv, TypeOK
<1>8. /\ DOMAIN runs' = Runs /\ \A q \in Runs \ {r} : runs'[q] = runs[q]
      /\ runs'[r] = [NoRun EXCEPT !.at = "mark", !.cp = lastId', !.size = watcher.size]
  BY <1>7 DEF CreateCheckpoint
<1>9. \A q \in Runs : (RunTypeOK(runs[q]) /\ RunInv(runs[q]))'
  <2>1. (RunTypeOK(runs[r]) /\ RunInv(runs[r]))'
    BY <1>3, <1>8, IssuerAssumption DEF Grown, RunTypeOK, RunInv, NoRun
  <2>2. \A q \in Runs \ {r} : RunTypeOK(runs'[q]) /\ RunInv(runs'[q])
    BY <1>7, <1>8
  <2> QED
    BY <1>3, <2>1, <2>2, GrownRun
<1> QED
  BY <1>3, <1>5, <1>6, <1>8, <1>9, KeptWriters, WriterStep DEF CreateCheckpoint, IssuerInv, TypeOK

\* PruneOldCheckpoints deletes nothing when it would delete a checkpoint that a
\* bundle refers to.
LEMMA HousekeepingStep ==
    ASSUME IssuerInv, NEW old \in SUBSET Stale, NEW cutoff \in 0..lastId,
           RunHousekeeping(old, cutoff)
    PROVE  IssuerInv'
<1> DEFINE kept == Delete(bundles, old)
<1>1. /\ UNCHANGED <<entry_type, lastId, idle, watcher, finalize, runs, faults>>
      /\ bundles' = kept /\ checkpoints' = PruneOldCheckpoints(kept, cutoff)
  BY DEF RunHousekeeping
<1>2. /\ DOMAIN bundles' \subseteq DOMAIN bundles
      /\ \A i \in DOMAIN bundles' : bundles'[i] = bundles[i]
  BY <1>1 DEF Delete
<1>3. /\ DOMAIN checkpoints' \subseteq DOMAIN checkpoints
      /\ \A id \in DOMAIN checkpoints' : checkpoints'[id] = checkpoints[id]
  BY <1>1 DEF PruneOldCheckpoints, Delete
<1>4. Grown /\ TreeSize' = TreeSize
  BY <1>1, LogUnchanged DEF IssuerInv, TypeOK, TreeSize
<1>5. BundleType /\ BundleProvable /\ CheckpointType
  BY DEF IssuerInv, TypeOK, BundleType, CheckpointType
<1>6. \A i \in DOMAIN bundles' : bundles[i].checkpoint_id \in DOMAIN checkpoints'
  <2> SUFFICES ASSUME NEW i \in DOMAIN bundles'
               PROVE  bundles[i].checkpoint_id \in DOMAIN checkpoints'
    OBVIOUS
  <2>1. /\ i \in DOMAIN kept /\ kept[i].checkpoint_id = bundles[i].checkpoint_id
        /\ bundles[i].checkpoint_id \in DOMAIN checkpoints
    BY <1>1, <1>2, <1>5 DEF BundleProvable
  <2> HIDE DEF kept
  <2>2. CASE \E j \in DOMAIN kept : kept[j].checkpoint_id \in Prunable(cutoff)
    BY <1>1, <2>1, <2>2 DEF PruneOldCheckpoints
  <2>3. CASE ~\E j \in DOMAIN kept : kept[j].checkpoint_id \in Prunable(cutoff)
    <3>1. checkpoints' = Delete(checkpoints, Prunable(cutoff))
      BY <1>1, <2>3 DEF PruneOldCheckpoints
    <3>2. DOMAIN checkpoints' = DOMAIN checkpoints \ Prunable(cutoff)
      BY <3>1 DEF Delete
    <3> QED
      BY <2>1, <2>3, <3>2
  <2> QED
    BY <2>2, <2>3
<1>7. (BundleType /\ BundleProvable)'
  BY <1>2, <1>4, <1>5, <1>6, KeptBundles
<1>8. CheckpointType'
  BY <1>1, <1>3, <1>4, <1>5 DEF CheckpointType
<1>9. (WatcherType /\ FinalizeType)' /\ DOMAIN runs' = Runs
      /\ \A r \in Runs : (RunTypeOK(runs[r]) /\ RunInv(runs[r]))'
  BY <1>1, <1>4, KeptWriters, KeptRuns
<1>10. SizesRead'
  BY <1>1, <1>4 DEF IssuerInv, SizesRead
<1>11. TypeOK'
  BY <1>1, <1>4, <1>7, <1>8, <1>9
     DEF IssuerInv, TypeOK, Grown, BundleType, CheckpointType, WatcherType, FinalizeType
<1> QED
  BY <1>7, <1>9, <1>10, <1>11 DEF IssuerInv

LEMMA CrashStep == ASSUME IssuerInv, Crash PROVE IssuerInv'
<1>1. UNCHANGED <<entry_type, checkpoints, lastId, idle, bundles>> /\ TreeSize' = TreeSize
  BY DEF Crash, dbVars, TreeSize
<1>2. Grown
  BY <1>1, LogUnchanged DEF IssuerInv, TypeOK
<1>3. BundleType /\ BundleProvable /\ CheckpointType
  BY DEF IssuerInv, TypeOK, BundleType, CheckpointType
<1>4. (BundleType /\ BundleProvable /\ CheckpointType)'
  BY <1>1, <1>2, <1>3, KeptBundles DEF CheckpointType, BundleProvable
<1>5. WatcherType' /\ FinalizeType' /\ SizesRead'
  BY <1>1 DEF Crash, WatcherType, FinalizeType, SizesRead, IssuerInv, TypeOK, TreeSize
<1>6. DOMAIN runs' = Runs /\ \A r \in Runs : RunTypeOK(runs'[r]) /\ RunInv(runs'[r])
  BY NoRunGood DEF Crash, IssuerInv, TypeOK
<1>7. \A r \in Runs : (RunTypeOK(runs[r]) /\ RunInv(runs[r]))'
  BY <1>2, <1>6, GrownRun
<1>8. faults' \in 0..MaxFaults
  BY IssuerAssumption DEF Crash, IssuerInv, TypeOK
<1>9. TypeOK'
  BY <1>1, <1>4, <1>5, <1>6, <1>7, <1>8
     DEF IssuerInv, TypeOK, BundleType, CheckpointType, WatcherType, FinalizeType
<1> QED
  BY <1>4, <1>5, <1>7, <1>9 DEF IssuerInv

\* Whatever the calls of a run do, and whether or not they fail.
LEMMA RunOnCheckpointStep ==
    ASSUME IssuerInv, NEW r \in Runs, RunOnCheckpoint(r) \/ Fault(r)
    PROVE  IssuerInv'
<1>1. faults' \in 0..MaxFaults
  <2>1. faults \in 0..MaxFaults /\ MaxFaults \in Nat
    BY IssuerAssumption DEF IssuerInv, TypeOK
  <2>2. faults' = faults \/ (faults < MaxFaults /\ faults' = faults + 1)
    BY DEF RunOnCheckpoint, Fault
  <2> QED
    BY <2>1, <2>2
<1>2. PICK failed \in BOOLEAN :
          \/ MarkStale(r, failed) \/ List(r, failed) \/ UpsertAssertionBundles(r, failed)
          \/ \E i \in runs[r].todo : BuildOne(r, i, failed)
  BY DEF RunOnCheckpoint, Fault
<1> QED
  BY <1>1, <1>2, MarkStaleStep, ListStep, UpsertStep, BuildOneStep

LEMMA StutterStep == ASSUME IssuerInv, UNCHANGED vars PROVE IssuerInv'
<1>1. /\ UNCHANGED <<entry_type, checkpoints, lastId, idle, bundles, watcher, finalize, runs, faults>>
      /\ TreeSize' = TreeSize
  BY DEF vars, TreeSize
<1>2. Grown
  BY <1>1, LogUnchanged DEF IssuerInv, TypeOK
<1>3. SizesRead'
  BY <1>1 DEF IssuerInv, SizesRead
<1> QED
  BY <1>1, <1>2, <1>3, KeptWriters, KeptRuns, WriterStep DEF IssuerInv, TypeOK

-----------------------------------------------------------------------------
(* The theorems.                                                           *)

\* IssuerInv holds of every reachable state of the assertion issuer.
THEOREM IssuerInductive == Spec => []IssuerInv
<1>1. IssuerInv /\ [Next]_vars => IssuerInv'
  BY AppendCertificateStep, FinalizeAppendStep, FinalizeCheckpointStep, CheckpointTickStep,
     CreateCheckpointStep, RunOnCheckpointStep, SendWebhookStep, HousekeepingStep, CrashStep,
     StutterStep
     DEF Next
<1> QED
  BY <1>1, InitIssuerInv, PTL DEF Spec

\* The bundles that buildAndStore writes prove what they are for, although runs
\* overlap, checkpoints of smaller trees are saved in between, PruneOldCheckpoints
\* deletes old ones, calls fail and the process dies.
THEOREM BundlesProvable == Spec => []BundleProvable
<1>1. IssuerInv => BundleProvable
  BY DEF IssuerInv
<1> QED
  BY <1>1, IssuerInductive, PTL
=============================================================================
