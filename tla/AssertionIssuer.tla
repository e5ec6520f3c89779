-------------------------- MODULE AssertionIssuer ---------------------------
(***************************************************************************)
(* The assertion issuer (internal/assertionissuer): after each checkpoint  *)
(* of the watcher a goroutine marks, generates and refreshes the assertion *)
(* bundles, while the log grows, further checkpoints are taken, slower     *)
(* runs are still under way, and the housekeeping of the watcher deletes   *)
(* stale bundles and old checkpoints.                                      *)
(*                                                                         *)
(* The tables are checkpoints and assertion_bundles; of the log only the   *)
(* entries' types matter (how it is written is in IssuanceLog).  Time is   *)
(* only seen through the retention periods, and a row may be found older   *)
(* than its period at any time.                                            *)
(***************************************************************************)
EXTENDS Integers, Sequences, FiniteSets

CONSTANTS
    MaxRuns,     \* bound: runs of RunOnCheckpoint that overlap
    Orders,      \* finalizations of the local CA, which take checkpoints too
    MaxSize,     \* bound: entries of the log
    BatchSize,   \* assertion_issuer.batch_size
    KeepRecent,  \* watcher.checkpoint_keep_recent
    MaxIdle,     \* bound: rows that repeat the tree size of the row before
    MaxRetries,  \* attempts of sendWebhook (3)
    MaxFaults    \* bound: failed store calls and crashes in a behaviour

Runs == 1..MaxRuns

ASSUME IssuerAssumption ==
    /\ MaxRuns \in Nat /\ MaxSize \in Nat /\ MaxIdle \in Nat /\ MaxFaults \in Nat
    /\ BatchSize \in Nat \ {0} /\ KeepRecent \in Nat \ {0} /\ MaxRetries \in Nat \ {0}

VARIABLES
    entry_type,   \* table log_entries: the types, index i at i + 1
    checkpoints,  \* table: id -> tree_size, of the rows not deleted
    lastId,       \* the last id given out
    idle,         \* how many of the last rows repeat the one before
    bundles,      \* table assertion_bundles: entry_idx -> row
    watcher,      \* the store call the watcher makes next, and the size it read
    finalize,     \* the same for each order
    runs,         \* the locals of each run and of the webhook goroutine it starts
    faults

dbVars == <<entry_type, checkpoints, lastId, idle, bundles>>
vars   == <<entry_type, checkpoints, lastId, idle, bundles,
            watcher, finalize, runs, faults>>

-----------------------------------------------------------------------------
TreeSize == Len(entry_type)

Max0(S) == IF S = {} THEN 0 ELSE CHOOSE m \in S : \A n \in S : n <= m

\* tree_size of the row with the greatest id; there is none with 0.
LatestSize ==
    LET id == Max0(DOMAIN checkpoints) IN IF id = 0 THEN 0 ELSE checkpoints[id]

Row(x, y) == [z \in {x} |-> y]

Upsert(table, rows) ==
    [x \in DOMAIN table \cup DOMAIN rows |->
        IF x \in DOMAIN rows THEN rows[x] ELSE table[x]]

Delete(table, keys) == [x \in DOMAIN table \ keys |-> table[x]]

\* ORDER BY idx DESC LIMIT BatchSize
Newest(S) == {i \in S : Cardinality({j \in S : j > i}) < BatchSize}

NoRun == [at |-> "free", cp |-> 0, size |-> 0, refresh |-> FALSE,
          todo |-> {}, built |-> <<>>, stored |-> FALSE, attempt |-> 0]

\* Index 0 is the null entry, written before the first poll.
Init ==
    /\ entry_type = <<0>>
    /\ checkpoints = <<>> /\ lastId = 0 /\ idle = 0
    /\ bundles = <<>>
    /\ watcher = [at |-> "idle", size |-> 0]
    /\ finalize = [o \in Orders |-> [at |-> "start", size |-> 0]]
    /\ runs = [r \in Runs |-> NoRun]
    /\ faults = 0

-----------------------------------------------------------------------------
(* The log and its checkpoints.  CreateCheckpoint reads the tree size and  *)
(* inserts the row later; an order's checkpoint may be inserted after one  *)
(* of the watcher's that is larger.                                        *)

\* pollCertificates has appended a certificate.
AppendCertificate ==
    /\ watcher.at = "idle"
    /\ TreeSize < MaxSize
    /\ entry_type' = Append(entry_type, 1)
    /\ UNCHANGED <<checkpoints, lastId, idle, bundles,
                   watcher, finalize, runs, faults>>

\* processFinalizeMTC has appended its entry; CreateCheckpoint reads the size.
FinalizeAppend(o) ==
    /\ finalize[o].at = "start" /\ TreeSize < MaxSize
    /\ entry_type' = Append(entry_type, 3)
    /\ finalize' = [finalize EXCEPT ![o] = [at |-> "save", size |-> TreeSize + 1]]
    /\ UNCHANGED <<checkpoints, lastId, idle, bundles,
                   watcher, runs, faults>>

\* The row a checkpoint of the given size gets.  Rows beyond the bound on
\* repeated sizes are identified with the last one.
SaveCheckpoint(size) ==
    LET repeats == lastId > 0 /\ LatestSize = size
    IN  IF repeats /\ idle = MaxIdle
        THEN UNCHANGED <<checkpoints, lastId, idle>>
        ELSE /\ lastId' = lastId + 1
             /\ checkpoints' = Upsert(checkpoints, Row(lastId + 1, size))
             /\ idle' = IF repeats THEN idle + 1 ELSE 0

FinalizeCheckpoint(o) ==
    /\ finalize[o].at = "save"
    /\ SaveCheckpoint(finalize[o].size)
    /\ finalize' = [finalize EXCEPT ![o] = [at |-> "done", size |-> 0]]
    /\ UNCHANGED <<entry_type, bundles, watcher, runs, faults>>

CheckpointTick ==
    /\ watcher.at = "idle"
    /\ watcher' = [at |-> "save", size |-> TreeSize]
    /\ UNCHANGED <<dbVars, finalize, runs, faults>>

\* createCheckpoint: the row, then a goroutine that runs RunOnCheckpoint.
CreateCheckpoint(r) ==
    /\ watcher.at = "save"
    /\ runs[r].at = "free" /\ \A q \in Runs : q < r => runs[q].at # "free"
    /\ SaveCheckpoint(watcher.size)
    /\ watcher' = [at |-> "idle", size |-> 0]
    /\ runs' = [runs EXCEPT ![r] = [NoRun EXCEPT !.at = "mark", !.cp = lastId', !.size = watcher.size]]
    /\ UNCHANGED <<entry_type, bundles, finalize, faults>>

-----------------------------------------------------------------------------
(* RunOnCheckpoint.                                                        *)

\* Wrong: tree_size <= $1.
MarkStaleAll(size) ==
    [i \in DOMAIN bundles |->
        IF bundles[i].tree_size <= size /\ ~bundles[i].stale
        THEN [bundles[i] EXCEPT !.stale = TRUE] ELSE bundles[i]]

\* UPDATE ... SET stale = TRUE, updated_at = NOW() WHERE tree_size < $1 AND NOT stale
MarkStaleBundles(size) ==
    [i \in DOMAIN bundles |->
        IF bundles[i].tree_size < size /\ ~bundles[i].stale
        THEN [bundles[i] EXCEPT !.stale = TRUE] ELSE bundles[i]]

\* An error is logged and the run goes on.
MarkStale(r, failed) ==
    /\ runs[r].at = "mark"
    /\ bundles' = IF failed THEN bundles ELSE MarkStaleBundles(runs[r].size)
    /\ runs' = [runs EXCEPT ![r].at = "list", ![r].size = 0]
    /\ UNCHANGED <<entry_type, checkpoints, lastId, idle, watcher, finalize>>

Stale == {i \in DOMAIN bundles : bundles[i].stale}

\* Certificates without a bundle that is not stale.
Pending ==
    {i \in 0..(TreeSize - 1) : /\ entry_type[i + 1] = 1
                               /\ i \in DOMAIN bundles => bundles[i].stale}

ListPendingEntries == Newest(Pending)

ListStaleBundles == Newest(Stale)

\* What a run does after generatePending and after refreshStale: at the end it
\* fires the webhook, in a goroutine of its own, when anything was stored.  The
\* slot is free again when both have ended.
NextPhase(run) ==
    IF ~run.refresh THEN [run EXCEPT !.at = "list", !.refresh = TRUE]
    ELSE IF run.stored THEN [NoRun EXCEPT !.at = "hook", !.attempt = 1]
    ELSE NoRun

\* generatePending and refreshStale: list, and return when the list is empty
\* or could not be read.
List(r, failed) ==
    LET indices == IF runs[r].refresh THEN ListStaleBundles ELSE ListPendingEntries
    IN  /\ runs[r].at = "list"
        /\ runs' = [runs EXCEPT ![r] =
              IF failed \/ indices = {} THEN NextPhase(@)
              ELSE [@ EXCEPT !.at = "build", !.todo = indices, !.built = <<>>]]
        /\ UNCHANGED <<dbVars, watcher, finalize>>

\* Wrong: an entry that is not yet under the checkpoint gets a bundle.
BuildUnchecked(i) == [ok |-> TRUE, tree_size |-> LatestSize]

\* The bundle of an entry, from the checkpoint that is the latest by now.
BuildByIndex(i) == [ok |-> i < LatestSize, tree_size |-> LatestSize]

\* One worker of buildAndStore.  What it builds is collected; an error is counted.
BuildOne(r, i, failed) ==
    LET b == BuildByIndex(i)
    IN  /\ runs[r].at = "build" /\ i \in runs[r].todo
        /\ runs' = [runs EXCEPT ![r].todo = @ \ {i},
                                ![r].built = IF b.ok /\ ~failed THEN Upsert(@, Row(i, b.tree_size)) ELSE @]
        /\ UNCHANGED <<dbVars, watcher, finalize>>

BundleRow(run, i) ==
    [checkpoint_id |-> run.cp, tree_size |-> run.built[i], stale |-> FALSE]

\* UpsertAssertionBundles: all rows in one transaction, over whatever is there;
\* none when the checkpoint they refer to was deleted (foreign key), or when
\* the call fails, as it does for one of two runs that lock the same rows in a
\* different order.
UpsertAssertionBundles(r, failed) ==
    LET run  == runs[r]
        rows == [i \in DOMAIN run.built |-> BundleRow(run, i)]
        ok   == DOMAIN rows # {} /\ run.cp \in DOMAIN checkpoints /\ ~failed
    IN  /\ run.at = "build" /\ run.todo = {}
        /\ bundles' = IF ok THEN Upsert(bundles, rows) ELSE bundles
        /\ runs' = [runs EXCEPT ![r] = NextPhase([run EXCEPT !.built = <<>>, !.stored = @ \/ ok])]
        /\ UNCHANGED <<entry_type, checkpoints, lastId, idle,
                       watcher, finalize>>

\* No answer, or another status than 2xx, is tried again.
SendWebhook(r, answer) ==
    /\ runs[r].at = "hook"
    /\ runs' = [runs EXCEPT ![r] = IF answer = "2xx" \/ @.attempt = MaxRetries THEN NoRun
                                   ELSE [runs[r] EXCEPT !.attempt = @ + 1]]
    /\ UNCHANGED <<dbVars, watcher, finalize, faults>>

-----------------------------------------------------------------------------
(* runHousekeeping, between two other ticks of the watcher.                *)

\* The rows the DELETE selects, when those up to id cutoff are older than the
\* retention period.  (It spares landmarks too, which nothing in this program
\* creates.)
Prunable(cutoff) ==
    {id \in DOMAIN checkpoints :
        /\ id <= cutoff
        /\ Cardinality({j \in DOMAIN checkpoints : j > id}) >= KeepRecent}

\* Wrong: the bundles that refer to a deleted checkpoint do not stop it.
PruneReferenced(kept, cutoff) == Delete(checkpoints, Prunable(cutoff))

\* One DELETE: a single row that a bundle refers to makes all of it fail.
PruneOldCheckpoints(kept, cutoff) ==
    IF \E i \in DOMAIN kept : kept[i].checkpoint_id \in Prunable(cutoff)
    THEN checkpoints ELSE Delete(checkpoints, Prunable(cutoff))

\* DeleteStaleAssertionBundles, for the stale bundles that were not touched for
\* the retention period (old), then PruneOldCheckpoints.
RunHousekeeping(old, cutoff) ==
    LET kept == Delete(bundles, old)
    IN  /\ watcher.at = "idle"
        /\ bundles' = kept
        /\ checkpoints' = PruneOldCheckpoints(kept, cutoff)
        /\ UNCHANGED <<entry_type, lastId, idle, watcher, finalize, runs, faults>>

-----------------------------------------------------------------------------
(* Failures.                                                               *)

Fault(r) ==
    /\ faults < MaxFaults
    /\ faults' = faults + 1
    /\ \/ MarkStale(r, TRUE) \/ List(r, TRUE) \/ UpsertAssertionBundles(r, TRUE)
       \/ \E i \in runs[r].todo : BuildOne(r, i, TRUE)

\* The process dies and is started again: goroutines are gone, tables stay.
Crash ==
    /\ faults < MaxFaults
    /\ faults' = faults + 1
    /\ watcher' = [at |-> "idle", size |-> 0]
    /\ finalize' = [o \in Orders |-> IF finalize[o].at = "start" THEN finalize[o]
                                     ELSE [at |-> "done", size |-> 0]]
    /\ runs' = [r \in Runs |-> NoRun]
    /\ UNCHANGED dbVars

-----------------------------------------------------------------------------
RunOnCheckpoint(r) ==
    /\ \/ MarkStale(r, FALSE) \/ List(r, FALSE) \/ UpsertAssertionBundles(r, FALSE)
       \/ \E i \in runs[r].todo : BuildOne(r, i, FALSE)
    /\ UNCHANGED faults

Next ==
    \/ AppendCertificate
    \/ \E o \in Orders : FinalizeAppend(o) \/ FinalizeCheckpoint(o)
    \/ CheckpointTick
    \/ \E r \in Runs : CreateCheckpoint(r) \/ RunOnCheckpoint(r) \/ Fault(r)
    \/ \E r \in Runs : \E answer \in {"2xx", "other"} : SendWebhook(r, answer)
    \/ \E old \in SUBSET Stale, cutoff \in 0..lastId : RunHousekeeping(old, cutoff)
    \/ Crash

Spec == Init /\ [][Next]_vars

(***************************************************************************)
(* Store calls and webhook requests (10 s timeout) return; the tickers of  *)
(* the watcher fire, and its select passes none over for ever.             *)
(***************************************************************************)
Fairness ==
    /\ \A o \in Orders : WF_vars(FinalizeCheckpoint(o))
    /\ WF_vars(CheckpointTick)
    /\ WF_vars(\E r \in Runs : CreateCheckpoint(r))
    /\ \A r \in Runs : WF_vars(RunOnCheckpoint(r))
    /\ \A r \in Runs : WF_vars(\E answer \in {"2xx", "other"} : SendWebhook(r, answer))

FairSpec == Spec /\ Fairness

\* Housekeeping goes on too, and any row is past its retention period at some time.
HousekeepingSpec == FairSpec /\ SF_vars(RunHousekeeping(Stale, lastId))

-----------------------------------------------------------------------------
(* Properties.                                                             *)

RunTypeOK(run) ==
    /\ DOMAIN run = DOMAIN NoRun
    /\ run.at \in {"free", "mark", "list", "build", "hook"}
    /\ run.cp \in 0..lastId /\ run.attempt \in 0..MaxRetries

\* Type correctness of the tables and of the runs' locals.
TypeOK ==
    /\ entry_type \in Seq({0, 1, 3}) /\ lastId \in Nat /\ idle \in 0..MaxIdle
    /\ DOMAIN checkpoints \subseteq 1..lastId
    /\ \A id \in DOMAIN checkpoints : checkpoints[id] \in 1..TreeSize
    /\ \A i \in DOMAIN bundles :
          bundles[i] \in [checkpoint_id : 1..lastId, tree_size : 1..TreeSize, stale : BOOLEAN]
    /\ watcher \in [at : {"idle", "save"}, size : 0..TreeSize]
    /\ finalize \in [Orders -> [at : {"start", "save", "done"}, size : 0..TreeSize]]
    /\ DOMAIN runs = Runs /\ \A r \in Runs : RunTypeOK(runs[r])
    /\ faults \in 0..MaxFaults

Certs == {i \in 0..(TreeSize - 1) : entry_type[i + 1] = 1}

\* A stored bundle proves what it is for: its entry is a certificate that the
\* tree of the bundle's size contains, and the checkpoint its row names is
\* there.  Between the list of indices, the read of the latest checkpoint and
\* the upsert, runs overlap, checkpoints of smaller trees are saved and old
\* ones are deleted.
BundleProvable ==
    \A i \in DOMAIN bundles :
        /\ i \in Certs
        /\ i < bundles[i].tree_size
        /\ bundles[i].checkpoint_id \in DOMAIN checkpoints

\* What a run holds in memory is good to be stored whenever it gets to it: it
\* lists certificates only, and a size it built with covers the entry.
RunInv(run) ==
    /\ run.todo \subseteq Certs
    /\ \A i \in DOMAIN run.built : i \in Certs /\ run.built[i] \in (i + 1)..TreeSize

\* A tree size that is read and not saved yet is that of a tree with an entry.
SizesRead ==
    /\ TreeSize > 0
    /\ watcher.at = "save" => watcher.size > 0
    /\ \A o \in Orders : finalize[o].at = "save" => finalize[o].size > 0

\* BundleProvable with what the writers and the runs under way know (the latest
\* checkpoint may be of a smaller tree than the checkpoint the run was started
\* for).  This is inductive.
IssuerInv == TypeOK /\ BundleProvable /\ SizesRead /\ \A r \in Runs : RunInv(runs[r])

\* What /assertions/stats reports (GetAssertionStats).
GetAssertionStats ==
    [total_bundles   |-> Cardinality(DOMAIN bundles),
     fresh_bundles   |-> Cardinality({i \in DOMAIN bundles : ~bundles[i].stale}),
     stale_bundles   |-> Cardinality({i \in DOMAIN bundles : bundles[i].stale}),
     pending_entries |-> Cardinality(Pending)]

\* Proof freshness (README.md:58): when the log stops growing, every
\* certificate gets a bundle for the whole tree and keeps it, and the
\* statistics say so, although slow runs overwrite newer bundles with older
\* ones, calls fail, the process dies and stale bundles are deleted meanwhile;
\* and no run, with the webhook that it retries, goes on for ever.
EventuallyFresh ==
    /\ <>[](/\ GetAssertionStats.pending_entries = 0 /\ GetAssertionStats.stale_bundles = 0
            /\ \A i \in DOMAIN bundles : bundles[i].tree_size = TreeSize)
    /\ \A r \in Runs : []<>(runs[r].at = "free")

\* PruneOldCheckpoints: a checkpoint past its retention period that is not one
\* of the most recent ones is eventually deleted.
EventuallyPruned ==
    \A id \in 1..(MaxIdle + 1) :
        id \in Prunable(lastId) ~> id \notin DOMAIN checkpoints
=============================================================================
