------------------------- MODULE IssuanceLogProofs --------------------------
(***************************************************************************)
(* Proofs about IssuanceLog and the tiles of ProofServer, for any number   *)
(* of finalizations, certificates and failures and any width of a tile.    *)
(* IInv (in IssuanceLog) is inductive: every step extends   *)
(* the log at its end or leaves it alone (Grows), so what a goroutine that *)
(* does not move knows of the tables stays true (KeptLocalInv), and only   *)
(* the moving goroutine's part of IInv has to be shown again.              *)
(***************************************************************************)
EXTENDS ProofServer, FiniteSetTheorems, TLAPS

-----------------------------------------------------------------------------
(* Facts about the operators.                                              *)

\* MAX(idx) + 1 of the indices 0..(n - 1) is n (store.TreeSize).
LEMMA SizeOfRows ==
    ASSUME NEW rows, NEW n \in Nat, DOMAIN rows = 0..(n - 1)
    PROVE  sizeOf(rows) = n
<1>1. CASE n = 0
  BY <1>1 DEF sizeOf
<1>2. CASE n > 0
  <2>1. \A m \in DOMAIN rows : (\A i \in DOMAIN rows : i <= m) <=> m = n - 1
    BY <1>2
  <2>2. n - 1 \in DOMAIN rows
    BY <1>2
  <2>3. (CHOOSE m \in DOMAIN rows : \A i \in DOMAIN rows : i <= m) = n - 1
    BY <2>1, <2>2
  <2>4. sizeOf(rows) = 1 + (n - 1)
    BY <2>2, <2>3, Zenon DEF sizeOf
  <2> QED
    BY <2>4
<1> QED
  BY <1>1, <1>2

\* A sequence is a sequence of its own elements.
LEMMA OwnElements ==
    ASSUME NEW S, NEW s \in Seq(S)
    PROVE  s \in Seq({s[i] : i \in 1..Len(s)})
  OBVIOUS

\* What appending a row to a table with a serial id does.
LEMMA AppendRow ==
    ASSUME NEW s, s \in Seq({s[i] : i \in 1..Len(s)}), NEW c
    PROVE  LET t == Append(s, c)
           IN  /\ Len(s) \in Nat
               /\ Len(t) = Len(s) + 1
               /\ t \in Seq({t[i] : i \in 1..Len(t)})
               /\ \A i \in 1..Len(s) : t[i] = s[i]
               /\ t[Len(s) + 1] = c
<1> DEFINE S == {s[i] : i \in 1..Len(s)} \cup {c}
<1>1. s \in Seq(S)
  OBVIOUS
<1>2. Append(s, c) \in Seq(S)
  BY <1>1
<1>3. Append(s, c) \in Seq({Append(s, c)[i] : i \in 1..Len(Append(s, c))})
  BY <1>2, OwnElements
<1> HIDE DEF S
<1>4. /\ Len(s) \in Nat
      /\ Len(Append(s, c)) = Len(s) + 1
      /\ \A i \in 1..Len(s) : Append(s, c)[i] = s[i]
      /\ Append(s, c)[Len(s) + 1] = c
  BY <1>1
<1> QED
  BY <1>3, <1>4

-----------------------------------------------------------------------------
(* What a step does to the tables.                                         *)

\* Rows of log_entries and checkpoints are only ever added.
Grows ==
    /\ \A i \in DOMAIN log_entries : i \in DOMAIN log_entries' /\ log_entries'[i] = log_entries[i]
    /\ \A i \in 1..Len(checkpoints) : i \in 1..Len(checkpoints') /\ checkpoints'[i] = checkpoints[i]

\* Goroutine q does not move.
Kept(q) ==
    /\ pc'[q] = pc[q] /\ batch'[q] = batch[q] /\ base'[q] = base[q]
    /\ rec'[q] = rec[q] /\ cp'[q] = cp[q]

\* A logged entry stays logged.
LEMMA LoggedStays ==
    ASSUME Grows, NEW e, Logged(e)
    PROVE  Logged(e)'
  BY DEF Grows, Logged

\* What goroutine q knows stays true while others move.
LEMMA KeptLocalInv ==
    ASSUME NEW q \in Procs, Grows, Kept(q), LocalInv(q)
    PROVE  LocalInv(q)'
<1>1. SizeRead(q)'
  BY DEF Grows, Kept, LocalInv, SizeRead
<1>2. BatchInLog(q)'
  BY DEF Grows, Kept, LocalInv, BatchInLog, Appended
<1>3. BatchKind(q)'
  BY LoggedStays DEF Kept, LocalInv, BatchKind, Appending, Appended
<1>4. RecLevel(q)'
  BY DEF Kept, LocalInv, RecLevel
<1>5. CheckpointCovers(q)'
  BY DEF Grows, Kept, LocalInv, CheckpointCovers
<1> QED
  BY <1>1, <1>2, <1>3, <1>4, <1>5 DEF LocalInv

\* The facts about the tables stay true when the tables do not change.
LEMMA KeptTables ==
    ASSUME TableInv, UNCHANGED tables
    PROVE  TableInv' /\ Grows
<1>1. log_entries' = log_entries /\ tree_nodes' = tree_nodes /\ checkpoints' = checkpoints
      /\ cursor' = cursor /\ issued' = issued
  BY DEF tables
<1>2. Grows
  BY <1>1 DEF Grows
<1>3. LogShape'
  BY <1>1 DEF TableInv, LogShape, TreeSize
<1>4. LeavesMatchEntries' /\ CursorCovered' /\ IssuedOwnEntry'
  BY <1>1 DEF TableInv, LeavesMatchEntries, CursorCovered, IssuedOwnEntry, Logged
<1> QED
  BY <1>2, <1>3, <1>4 DEF TableInv

\* IInv holds after a step of goroutine p if p's own part does.
LEMMA OnlyMoves ==
    ASSUME IInv, NEW p \in Procs, Grows, \A q \in Procs \ {p} : Kept(q),
           TypeOK', TableInv', LocalInv(p)', p = Watcher => NullInLog'
    PROVE  IInv'
<1>1. \A q \in Procs : LocalInv(q)'
  BY KeptLocalInv DEF IInv
<1>2. NullInLog'
  <2>1. CASE p # Watcher
    BY <2>1 DEF IInv, NullInLog, Kept, Grows, Procs
  <2> QED
    BY <2>1
<1> QED
  BY <1>1, <1>2 DEF IInv

-----------------------------------------------------------------------------
(* The initial states.                                                     *)

\* The empty store before the bridge has started satisfies IInv.
LEMMA InitIInv == Init => IInv
<1> SUFFICES ASSUME Init PROVE IInv
  OBVIOUS
<1> USE BoundsAssumption, ProcsAssumption
<1>1. DOMAIN log_entries = {} /\ DOMAIN tree_nodes = {} /\ DOMAIN issued = {}
  BY DEF Init
<1>2. TypeOK
  <2>1. checkpoints \in Seq({checkpoints[i] : i \in 1..Len(checkpoints)}) /\ Len(checkpoints) = 0
    BY DEF Init
  <2>2. batch \in [Procs -> Seq(Entry)]
    BY DEF Init, NoBatch
  <2>3. \A p \in Procs : /\ DOMAIN rec[p] = {"level", "idx", "left", "nodes"}
                         /\ DOMAIN cp[p] = {"tree_size", "root_hash"}
    BY DEF Init, NoRec, NoCp
  <2> QED
    BY <1>1, <2>1, <2>2, <2>3 DEF Init, TypeOK, Steps
<1>3. TableInv
  <2>1. LogShape
    BY <1>1, SizeOfRows DEF LogShape, TreeSize
  <2> QED
    BY <1>1, <2>1 DEF Init, TableInv, LeavesMatchEntries, CursorCovered, IssuedOwnEntry
<1>4. NullInLog
  BY DEF Init, NullInLog, Procs
<1>5. ASSUME NEW p \in Procs PROVE LocalInv(p)
  <2>1. pc[p] \in {"init_size", "start"}
    BY DEF Init
  <2> QED
    BY <2>1 DEF LocalInv, SizeRead, BatchInLog, BatchKind, RecLevel, CheckpointCovers,
                Appending, Appended
<1> QED
  BY <1>2, <1>3, <1>4, <1>5 DEF IInv

-----------------------------------------------------------------------------
(* Steps that leave the tables alone.                                      *)

\* A goroutine that leaves its operation, or waits, knows nothing.
Resting == {"init_size", "init_append", "poll", "idle", "dead", "start", "done", "failed"}

\* Return keeps the locals' types, and the other goroutines' locals.
LEMMA ReturnLocals ==
    ASSUME TypeOK, NEW p \in Procs, NEW to \in Resting, Return(p, to),
           UNCHANGED <<tables, caCerts>>, faults' \in 0..MaxFaults
    PROVE  TypeOK' /\ pc'[p] = to /\ \A q \in Procs \ {p} : Kept(q)
<1>1. pc' = [pc EXCEPT ![p] = to] /\ batch' = [batch EXCEPT ![p] = NoBatch]
      /\ base' = [base EXCEPT ![p] = 0] /\ rec' = [rec EXCEPT ![p] = NoRec]
      /\ cp' = [cp EXCEPT ![p] = NoCp]
  BY DEF Return, Goto, Reset
<1>2. pc'[p] = to /\ \A q \in Procs \ {p} : Kept(q)
  BY <1>1 DEF TypeOK, Kept
<1>3. /\ DOMAIN NoRec = {"level", "idx", "left", "nodes"}
      /\ DOMAIN NoCp = {"tree_size", "root_hash"}
      /\ NoBatch \in Seq(Entry)
  BY DEF NoRec, NoCp, NoBatch
<1>4. TypeOK'
  BY <1>1, <1>3 DEF TypeOK, Steps, tables, Resting
<1> QED
  BY <1>2, <1>4

\* Leaving a method, with or without an error, keeps IInv: the store is not
\* touched and the process rests (Return).
LEMMA ReturnStep ==
    ASSUME IInv, NEW p \in Procs, NEW to \in Resting, Return(p, to),
           UNCHANGED <<tables, caCerts>>, faults' \in 0..MaxFaults
    PROVE  IInv'
<1>1. TypeOK' /\ pc'[p] = to /\ \A q \in Procs \ {p} : Kept(q)
  BY ReturnLocals DEF IInv
<1>2. TableInv' /\ Grows
  BY KeptTables DEF IInv
<1>3. LocalInv(p)'
  BY <1>1 DEF Resting, LocalInv, SizeRead, BatchInLog, BatchKind, RecLevel,
         CheckpointCovers, Appending, Appended
<1>4. NullInLog' \/ p # Watcher
  BY <1>1 DEF NullInLog, Resting
<1> QED
  BY <1>1, <1>2, <1>3, <1>4, OnlyMoves

\* Where a process goes after an error is a place between two methods.
LEMMA ErrorRests == ASSUME NEW p \in Procs PROVE OnError(p) \in Resting
  BY DEF OnError, Resting

\* Losing the race for an index (the primary key of log_entries) keeps IInv.
LEMMA ConflictStep == ASSUME IInv, NEW p \in Procs, AppendConflict(p) PROVE IInv'
  BY ReturnStep, ErrorRests DEF AppendConflict, IInv, TypeOK

\* A statement that fails keeps IInv, whichever method it interrupts.
LEMMA FaultStep == ASSUME IInv, NEW p \in Procs, Fault(p) PROVE IInv'
<1>1. faults' \in 0..MaxFaults
  BY BoundsAssumption DEF Fault, IInv, TypeOK
<1> QED
  BY <1>1, ReturnStep, ErrorRests DEF Fault

\* A crash keeps IInv: the tables survive, and no process holds a value it
\* read before.
LEMMA CrashStep == ASSUME IInv, Crash PROVE IInv'
<1>1. TableInv' /\ Grows
  BY KeptTables DEF IInv, Crash
<1>2. \A p \in Procs : pc'[p] \in Resting
  BY DEF Crash, IInv, TypeOK, Resting
<1>3. \A p \in Procs : LocalInv(p)'
  BY <1>2 DEF Resting, LocalInv, SizeRead, BatchInLog, BatchKind, RecLevel,
         CheckpointCovers, Appending, Appended
<1>4. NullInLog'
  BY <1>2 DEF NullInLog, Resting, Procs
<1>5. TypeOK'
  <2>1. /\ DOMAIN NoRec = {"level", "idx", "left", "nodes"}
        /\ DOMAIN NoCp = {"tree_size", "root_hash"}
        /\ NoBatch \in Seq(Entry)
    BY DEF NoRec, NoCp, NoBatch
  <2>2. faults' \in 0..MaxFaults
    BY BoundsAssumption DEF Crash, IInv, TypeOK
  <2>3. pc' \in [Procs -> Resting]
    BY <1>2 DEF Crash
  <2> QED
    BY <2>1, <2>2, <2>3 DEF Crash, IInv, TypeOK, Steps, tables, Resting
<1> QED
  BY <1>1, <1>3, <1>4, <1>5 DEF IInv

\* A certificate issued by the CA keeps IInv: the cursor is still behind it.
LEMMA CAIssueStep == ASSUME IInv, CAIssue PROVE IInv'
<1>1. TableInv' /\ Grows
  BY KeptTables DEF IInv, CAIssue
<1>2. TypeOK'
  BY BoundsAssumption DEF CAIssue, IInv, TypeOK, tables, locals
<1>3. \A p \in Procs : Kept(p)
  BY DEF CAIssue, locals, Kept
<1>4. NullInLog'
  BY DEF CAIssue, IInv, NullInLog, tables, locals
<1> QED
  BY <1>1, <1>2, <1>3, <1>4, KeptLocalInv DEF IInv

\* Steps that only move a goroutine from one resting place to another, and
\* the watcher's tick.
LEMMA GotoStep ==
    ASSUME IInv, NEW to \in Resting \cup {"cp_size"}, Goto(Watcher, to),
           UNCHANGED <<tables, caCerts, batch, base, rec, cp>>,
           faults' \in 0..MaxFaults
    PROVE  IInv'
<1>0. Watcher \in Procs
  BY DEF Procs
<1>1. TableInv' /\ Grows
  BY KeptTables DEF IInv
<1>2. TypeOK' /\ pc'[Watcher] = to /\ \A q \in Procs \ {Watcher} : Kept(q)
  BY <1>0 DEF Goto, IInv, TypeOK, Steps, tables, Kept, Resting
<1>3. LocalInv(Watcher)'
  BY <1>2 DEF Resting, LocalInv, SizeRead, BatchInLog, BatchKind, RecLevel,
         CheckpointCovers, Appending, Appended
<1>4. NullInLog'
  BY <1>2 DEF NullInLog, Resting
<1> QED
  BY <1>0, <1>1, <1>2, <1>3, <1>4, OnlyMoves

\* The size test at the head of Initialize keeps IInv.
LEMMA InitializeSizeStep == ASSUME IInv, InitializeSize PROVE IInv'
<1>1. (IF TreeSize > 0 THEN "poll" ELSE "init_append") \in Resting \cup {"cp_size"}
  BY DEF Resting
<1> QED
  BY <1>1, GotoStep DEF InitializeSize, IInv, TypeOK

\* The checkpoint ticker of the watcher keeps IInv.
LEMMA CheckpointTickStep == ASSUME IInv, CheckpointTick PROVE IInv'
  BY GotoStep DEF CheckpointTick, IInv, TypeOK

\* The certificates fetched are consecutive, from after the cursor on.
LEMMA FetchedCerts ==
    ASSUME TypeOK, NEW after \in 0..NumCerts, FetchNewCertificates(after) # <<>>
    PROVE  \E n \in 1..NumCerts :
               /\ FetchNewCertificates(after) = [i \in 1..n |-> CertEntry(after + i)]
               /\ after + n <= NumCerts
               /\ FetchNewCertificates(after) \in Seq(Entry)
<1> DEFINE last == IF after + BatchSize < caCerts THEN after + BatchSize ELSE caCerts
           n    == last - after
<1>1. caCerts \in 0..NumCerts /\ NumCerts \in Nat /\ BatchSize \in Nat
  BY BoundsAssumption DEF TypeOK
<1>2. FetchNewCertificates(after) = [i \in 1..n |-> CertEntry(after + i)]
  BY DEF FetchNewCertificates
<1>3. last \in Nat /\ last <= NumCerts /\ n \in Int
  BY <1>1
<1>4. n \in 1..NumCerts
  <2>1. CASE n <= 0
    <3>1. 1..n = {}
      BY <2>1, <1>3
    <3>2. [i \in 1..n |-> CertEntry(after + i)] = <<>>
      BY <3>1
    <3> QED
      BY <1>2, <3>2
  <2> QED
    BY <2>1, <1>1, <1>3
<1>5. after + n <= NumCerts
  BY <1>1, <1>3
<1>6. \A i \in 1..n : CertEntry(after + i) \in Entry
  BY <1>1, <1>4, <1>5 DEF CertEntry, Entry
<1> HIDE DEF n
<1>7. [i \in 1..n |-> CertEntry(after + i)] \in Seq(Entry)
  BY <1>4, <1>6
<1> QED
  BY <1>2, <1>4, <1>5, <1>7

\* FetchNewCertificates keeps IInv: the batch begins just after the cursor.
LEMMA PollStep == ASSUME IInv, PollCertificates PROVE IInv'
<1>0. Watcher \in Procs
  BY DEF Procs
<1> PICK lost \in BOOLEAN :
        /\ lost => faults < MaxFaults
        /\ LET certs == FetchNewCertificates(IF lost THEN 0 ELSE cursor)
           IN  IF certs = <<>>
               THEN Goto(Watcher, "idle") /\ UNCHANGED batch
               ELSE /\ batch' = [batch EXCEPT ![Watcher] = certs]
                    /\ Goto(Watcher, "size")
        /\ faults' = IF lost THEN faults + 1 ELSE faults
  BY DEF PollCertificates
<1> DEFINE after == IF lost THEN 0 ELSE cursor
<1>1. after \in 0..NumCerts /\ faults' \in 0..MaxFaults
  BY BoundsAssumption DEF IInv, TypeOK
<1>2. CASE FetchNewCertificates(after) = <<>>
  <2>1. Goto(Watcher, "idle") /\ UNCHANGED <<tables, caCerts, batch, base, rec, cp>>
    BY <1>2 DEF PollCertificates
  <2> QED
    BY <1>1, <2>1, GotoStep DEF Resting
<1>3. CASE FetchNewCertificates(after) # <<>>
  <2>1. PICK n \in 1..NumCerts :
               /\ FetchNewCertificates(after) = [i \in 1..n |-> CertEntry(after + i)]
               /\ after + n <= NumCerts
               /\ FetchNewCertificates(after) \in Seq(Entry)
    BY <1>1, <1>3, FetchedCerts DEF IInv
  <2> HIDE DEF after
  <2>2. /\ batch' = [batch EXCEPT ![Watcher] = FetchNewCertificates(after)]
        /\ pc' = [pc EXCEPT ![Watcher] = "size"]
        /\ UNCHANGED <<tables, caCerts, base, rec, cp>>
    BY <1>3 DEF PollCertificates, Goto, after
  <2>3. TableInv' /\ Grows
    BY <2>2, KeptTables DEF IInv
  <2>4. TypeOK' /\ \A q \in Procs \ {Watcher} : Kept(q)
    BY <1>0, <1>1, <2>1, <2>2, SMTT(30) DEF IInv, TypeOK, Steps, tables, Kept
  <2>5. pc'[Watcher] = "size" /\ batch'[Watcher] = FetchNewCertificates(after)
    BY <1>0, <2>2 DEF IInv, TypeOK
  <2>6. \A k \in 1..after : Logged(CertEntry(k))'
    <3>1. \A k \in 1..after : Logged(CertEntry(k))
      BY DEF IInv, TableInv, CursorCovered, after
    <3> QED
      BY <3>1, <2>3, LoggedStays DEF CertEntry
  <2>7. BatchKind(Watcher)'
    BY <1>1, <2>1, <2>5, <2>6 DEF BatchKind
  <2>8. LocalInv(Watcher)' /\ NullInLog'
    BY <2>5, <2>7 DEF LocalInv, SizeRead, BatchInLog, RecLevel, CheckpointCovers, Appended,
                      NullInLog
  <2> QED
    BY <1>0, <2>3, <2>4, <2>8, OnlyMoves
<1> QED
  BY <1>2, <1>3

\* Entering processFinalize keeps IInv.
LEMMA StartFinalizeStep == ASSUME IInv, NEW o \in Orders, StartFinalize(o) PROVE IInv'
<1>0. o \in Procs /\ o # Watcher
  BY ProcsAssumption DEF Procs
<1>1. TableInv' /\ Grows
  BY KeptTables DEF IInv, StartFinalize
<1>2. <<DirectEntry(o)>> \in Seq(Entry)
  BY DEF DirectEntry, Entry
<1>3. TypeOK' /\ \A q \in Procs \ {o} : Kept(q)
  BY <1>0, <1>2 DEF StartFinalize, Goto, IInv, TypeOK, Steps, tables, Kept
<1>4. pc'[o] = "size" /\ batch'[o] = <<DirectEntry(o)>>
  BY <1>0 DEF StartFinalize, Goto, IInv, TypeOK
<1>5. LocalInv(o)'
  BY <1>0, <1>4 DEF LocalInv, SizeRead, BatchInLog, BatchKind, RecLevel, CheckpointCovers, Appended
<1> QED
  BY <1>0, <1>1, <1>3, <1>5, OnlyMoves

\* Reading the tree size before an append keeps IInv.
LEMMA ReadSizeStep == ASSUME IInv, NEW p \in Procs, ReadSize(p) PROVE IInv'
<1>1. TableInv' /\ Grows
  BY KeptTables DEF IInv, ReadSize
<1>2. TypeOK' /\ \A q \in Procs \ {p} : Kept(q)
  BY DEF ReadSize, Goto, IInv, TypeOK, Steps, TableInv, LogShape, tables, Kept
<1>3. /\ pc[p] = "size" /\ pc'[p] = "append" /\ base'[p] = TreeSize /\ batch'[p] = batch[p]
      /\ log_entries' = log_entries
  BY DEF ReadSize, Goto, IInv, TypeOK, tables
<1>4. SizeRead(p)'
  BY <1>3 DEF SizeRead, IInv, TableInv, LogShape
<1>5. BatchKind(p)'
  BY <1>3, ZenonT(30) DEF IInv, LocalInv, BatchKind, Appending, Logged
<1>6. (LocalInv(p)' /\ NullInLog') \/ (p # Watcher /\ LocalInv(p)')
  BY <1>3, <1>4, <1>5 DEF LocalInv, BatchInLog, RecLevel, CheckpointCovers, Appended, NullInLog
<1> QED
  BY <1>1, <1>2, <1>6, OnlyMoves

\* The facts that survive when p only changes rec and pc within an append.
LEMMA ReadChildLocals ==
    ASSUME IInv, NEW p \in Procs, pc[p] \in {"left", "right"},
           NEW to \in {"left", "right", "write"}, NEW r,
           pc' = [pc EXCEPT ![p] = to], rec' = [rec EXCEPT ![p] = r],
           DOMAIN r = {"level", "idx", "left", "nodes"},
           r.level = rec[p].level, \A x \in DOMAIN r.nodes : x[1] = r.level,
           UNCHANGED <<tables, caCerts, batch, base, cp>>,
           faults' \in 0..MaxFaults
    PROVE  IInv'
<1>1. TableInv' /\ Grows
  BY KeptTables DEF IInv
<1>2. TypeOK' /\ \A q \in Procs \ {p} : Kept(q)
  BY DEF IInv, TypeOK, Steps, tables, Kept
<1>3. /\ pc'[p] = to /\ rec'[p] = r /\ batch'[p] = batch[p] /\ base'[p] = base[p]
      /\ log_entries' = log_entries
  BY DEF IInv, TypeOK, tables
<1>4. RecLevel(p)'
  BY <1>3 DEF IInv, LocalInv, RecLevel
<1>5. BatchInLog(p)' /\ BatchKind(p)'
  <2>1. BatchInLog(p) /\ BatchKind(p) /\ Appended(p) /\ Appending(p)
    BY DEF IInv, LocalInv, Appending, Appended
  <2>2. BatchInLog(p)'
    BY <1>3, <2>1 DEF BatchInLog
  <2>3. BatchKind(p)'
    BY <1>1, <1>3, <2>1, LoggedStays DEF BatchKind
  <2> QED
    BY <2>2, <2>3
<1>6. SizeRead(p)' /\ CheckpointCovers(p)' /\ (p = Watcher => NullInLog')
  BY <1>3 DEF SizeRead, CheckpointCovers, NullInLog
<1> QED
  BY <1>1, <1>2, <1>4, <1>5, <1>6, OnlyMoves DEF LocalInv

\* recomputeInterior moving to the next index of a level keeps IInv.
LEMMA NextIdxStep ==
    ASSUME IInv, NEW p \in Procs, pc[p] \in {"left", "right"}, NEW rows,
           \A x \in DOMAIN rows : x[1] = rec[p].level, NextIdx(p, rows),
           UNCHANGED <<tables, caCerts, batch, base, cp>>,
           faults' \in 0..MaxFaults
    PROVE  IInv'
<1>0. p \in DOMAIN rec /\ DOMAIN rec[p] = {"level", "idx", "left", "nodes"}
  BY DEF IInv, TypeOK
<1>1. CASE rec[p].idx < endIdx(p)
  <2> DEFINE r == [rec[p] EXCEPT !.idx = @ + 1, !.left = EmptyHash, !.nodes = rows]
  <2>1. rec' = [rec EXCEPT ![p] = r] /\ pc' = [pc EXCEPT ![p] = "left"]
    BY <1>0, <1>1 DEF NextIdx, Goto
  <2>2. DOMAIN r = DOMAIN rec[p] /\ r.level = rec[p].level /\ r.nodes = rows
    BY <1>0
  <2> QED
    BY <1>0, <2>1, <2>2, ReadChildLocals
<1>2. CASE ~(rec[p].idx < endIdx(p))
  <2> DEFINE r == [rec[p] EXCEPT !.left = EmptyHash, !.nodes = rows]
  <2>1. rec' = [rec EXCEPT ![p] = r] /\ pc' = [pc EXCEPT ![p] = "write"]
    BY <1>0, <1>2 DEF NextIdx, Goto
  <2>2. DOMAIN r = DOMAIN rec[p] /\ r.level = rec[p].level /\ r.nodes = rows
    BY <1>0
  <2> QED
    BY <1>0, <2>1, <2>2, ReadChildLocals
<1> QED
  BY <1>1, <1>2

\* recomputeInterior reading a left child keeps IInv.
LEMMA ReadLeftStep ==
    ASSUME IInv, NEW p \in Procs, NEW lost \in BOOLEAN, ReadLeft(p, lost),
           faults' \in 0..MaxFaults
    PROVE  IInv'
<1> DEFINE child == <<rec[p].level - 1, 2 * rec[p].idx>>
<1>0. /\ p \in DOMAIN rec /\ DOMAIN rec[p] = {"level", "idx", "left", "nodes"}
      /\ pc[p] = "left" /\ \A x \in DOMAIN rec[p].nodes : x[1] = rec[p].level
      /\ UNCHANGED <<tables, caCerts, batch, base, cp>>
  BY DEF IInv, TypeOK, LocalInv, RecLevel, ReadLeft
<1>1. CASE child \in DOMAIN tree_nodes /\ ~lost
  <2> DEFINE r == [rec[p] EXCEPT !.left = tree_nodes[child]]
  <2>1. rec' = [rec EXCEPT ![p] = r] /\ pc' = [pc EXCEPT ![p] = "right"]
    BY <1>0, <1>1 DEF ReadLeft, Goto
  <2>2. DOMAIN r = DOMAIN rec[p] /\ r.level = rec[p].level /\ r.nodes = rec[p].nodes
    BY <1>0
  <2> QED
    BY <1>0, <2>1, <2>2, ReadChildLocals
<1>2. CASE ~(child \in DOMAIN tree_nodes /\ ~lost)
  <2>1. NextIdx(p, rec[p].nodes)
    BY <1>2 DEF ReadLeft
  <2> QED
    BY <1>0, <2>1, NextIdxStep
<1> QED
  BY <1>1, <1>2

\* recomputeInterior reading a right child keeps IInv.
LEMMA ReadRightStep ==
    ASSUME IInv, NEW p \in Procs, NEW lost \in BOOLEAN, ReadRight(p, lost),
           faults' \in 0..MaxFaults
    PROVE  IInv'
<1>1. PICK hash : NextIdx(p, Upsert(rec[p].nodes, [x \in {<<rec[p].level, rec[p].idx>>} |-> hash]))
  BY DEF ReadRight
<1>2. /\ pc[p] = "right" /\ \A x \in DOMAIN rec[p].nodes : x[1] = rec[p].level
      /\ UNCHANGED <<tables, caCerts, batch, base, cp>>
  BY DEF IInv, LocalInv, RecLevel, ReadRight
<1> DEFINE rows == Upsert(rec[p].nodes, [x \in {<<rec[p].level, rec[p].idx>>} |-> hash])
<1>3. \A x \in DOMAIN rows : x[1] = rec[p].level
  BY <1>2 DEF Upsert
<1> QED
  BY <1>1, <1>2, <1>3, NextIdxStep

\* A read of either child, present or missing, keeps IInv.
LEMMA ReadChildStep ==
    ASSUME IInv, NEW p \in Procs, ReadChild(p) \/ LostRead(p)
    PROVE  IInv'
<1>1. faults \in 0..MaxFaults /\ MaxFaults \in Nat
  BY BoundsAssumption DEF IInv, TypeOK
<1>2. faults' = faults \/ (faults < MaxFaults /\ faults' = faults + 1)
  BY Zenon DEF ReadChild, LostRead
<1>3. faults' \in 0..MaxFaults
  BY <1>1, <1>2
<1> QED
  BY <1>3, ReadLeftStep, ReadRightStep DEF ReadChild, LostRead

-----------------------------------------------------------------------------
(* Steps that add rows to log_entries.                                     *)

\* A batch that was to go at a size read earlier, and whose indices are still
\* free, goes to the end of the log: the log did not grow in between.
LEMMA RowsAppended ==
    ASSUME LogShape, NEW s \in Nat, NEW b \in Seq(Entry), Len(b) > 0,
           0..(s - 1) \subseteq DOMAIN log_entries,
           DOMAIN RowsAt(s, b) \cap DOMAIN log_entries = {},
           log_entries' = Upsert(log_entries, RowsAt(s, b))
    PROVE  /\ s = TreeSize
           /\ DOMAIN log_entries' = 0..(s + Len(b) - 1)
           /\ \A i \in DOMAIN log_entries : i \in DOMAIN log_entries' /\ log_entries'[i] = log_entries[i]
           /\ \A i \in 1..Len(b) : log_entries'[s + i - 1] = b[i]
           /\ \A i \in DOMAIN log_entries' : i \in Nat /\ (i \in DOMAIN log_entries \/ log_entries'[i] \in Entry)
           /\ LogShape'
<1> DEFINE n == TreeSize
<1>1. n \in Nat /\ DOMAIN log_entries = 0..(n - 1)
  BY DEF LogShape
<1>2. Len(b) \in Nat /\ DOMAIN RowsAt(s, b) = s..(s + Len(b) - 1)
  BY DEF RowsAt
<1> HIDE DEF n
<1>3. s = n
  <2>1. s <= n
    BY <1>1
  <2>2. s \in DOMAIN RowsAt(s, b)
    BY <1>2
  <2> QED
    BY <1>1, <2>1, <2>2
<1>4. DOMAIN log_entries' = 0..(s + Len(b) - 1)
  BY <1>1, <1>2, <1>3 DEF Upsert
<1>5. \A i \in DOMAIN log_entries : i \in DOMAIN log_entries' /\ log_entries'[i] = log_entries[i]
  BY <1>1, <1>2, <1>3, <1>4 DEF Upsert
<1>6. \A j \in s..(s + Len(b) - 1) : log_entries'[j] = b[j - s + 1]
  BY <1>2, <1>4 DEF Upsert, RowsAt
<1>7. \A i \in 1..Len(b) : log_entries'[s + i - 1] = b[i]
  <2> SUFFICES ASSUME NEW i \in 1..Len(b) PROVE log_entries'[s + i - 1] = b[i]
    OBVIOUS
  <2>1. s + i - 1 \in s..(s + Len(b) - 1) /\ (s + i - 1) - s + 1 = i
    BY <1>2
  <2> QED
    BY <1>6, <2>1
<1>8. \A i \in DOMAIN log_entries' : i \in Nat /\ (i \in DOMAIN log_entries \/ log_entries'[i] \in Entry)
  <2> SUFFICES ASSUME NEW i \in 0..(s + Len(b) - 1), i \notin DOMAIN log_entries
               PROVE  log_entries'[i] \in Entry
    BY <1>2, <1>4
  <2>1. i \in s..(s + Len(b) - 1) /\ i - s + 1 \in 1..Len(b)
    BY <1>1, <1>2, <1>3
  <2> QED
    BY <1>6, <2>1
<1>9. LogShape'
  <2>1. TreeSize' = s + Len(b)
    BY <1>2, <1>4, SizeOfRows DEF TreeSize
  <2> QED
    BY <1>2, <1>4, <2>1 DEF LogShape
<1> QED
  BY <1>3, <1>4, <1>5, <1>7, <1>8, <1>9 DEF n

\* The facts about the tables, after the log has grown.
LEMMA GrownTables ==
    ASSUME TableInv, LogShape', Grows,
           UNCHANGED <<tree_nodes, checkpoints, cursor, issued>>
    PROVE  TableInv'
<1>1. LeavesMatchEntries'
  BY DEF TableInv, LeavesMatchEntries, Grows
<1>2. CursorCovered'
  BY LoggedStays DEF TableInv, CursorCovered, CertEntry
<1>3. IssuedOwnEntry'
  BY DEF TableInv, IssuedOwnEntry, Grows, DirectEntry
<1> QED
  BY <1>1, <1>2, <1>3 DEF TableInv

\* The transaction of AppendEntries keeps IInv: the rows it adds are the next
\* indices, because the primary key refuses any other outcome.
LEMMA AppendEntriesStep == ASSUME IInv, NEW p \in Procs, AppendEntries(p) PROVE IInv'
<1>1. /\ pc[p] = "append" /\ pc'[p] = "leaf"
      /\ batch' = batch /\ base' = base /\ rec' = rec /\ cp' = cp
      /\ batch[p] \in Seq(Entry) /\ base[p] \in Nat
      /\ \A q \in Procs \ {p} : Kept(q)
  BY DEF AppendEntries, Goto, IInv, TypeOK, Kept
<1>2. BatchKind(p) /\ 0..(base[p] - 1) \subseteq DOMAIN log_entries
  BY <1>1 DEF IInv, LocalInv, SizeRead
<1>3. Len(batch[p]) > 0
  <2>1. CASE p = Watcher
    <3>1. PICK a \in 0..NumCerts, n \in 1..NumCerts : batch[p] = [i \in 1..n |-> CertEntry(a + i)]
      BY <1>1, <1>2, <2>1 DEF BatchKind, Appending
    <3> QED
      BY <3>1
  <2>2. CASE p # Watcher
    <3>1. batch[p] = <<DirectEntry(p)>>
      BY <1>1, <1>2, <2>2 DEF BatchKind, Appending
    <3> QED
      BY <3>1
  <2> QED
    BY <2>1, <2>2
<1>4. /\ DOMAIN RowsAt(base[p], batch[p]) \cap DOMAIN log_entries = {}
      /\ log_entries' = Upsert(log_entries, RowsAt(base[p], batch[p]))
      /\ UNCHANGED <<tree_nodes, checkpoints, cursor, issued, caCerts, faults>>
  BY DEF AppendEntries
<1>5. /\ DOMAIN log_entries' = 0..(base[p] + Len(batch[p]) - 1)
      /\ \A i \in DOMAIN log_entries : i \in DOMAIN log_entries' /\ log_entries'[i] = log_entries[i]
      /\ \A i \in 1..Len(batch[p]) : log_entries'[base[p] + i - 1] = batch[p][i]
      /\ \A i \in DOMAIN log_entries' : i \in Nat /\ (i \in DOMAIN log_entries \/ log_entries'[i] \in Entry)
      /\ LogShape'
  BY <1>1, <1>2, <1>3, <1>4, RowsAppended DEF IInv, TableInv
<1>6. Grows
  BY <1>4, <1>5 DEF Grows
<1>7. TableInv'
  BY <1>4, <1>5, <1>6, GrownTables DEF IInv
<1>8. TypeOK'
  <2>1. \A i \in DOMAIN log_entries' : i \in Nat /\ log_entries'[i] \in Entry
    BY <1>5 DEF IInv, TypeOK
  <2>2. pc' = [pc EXCEPT ![p] = "leaf"]
    BY DEF AppendEntries, Goto
  <2> QED
    BY <1>1, <1>4, <2>1, <2>2 DEF IInv, TypeOK, Steps
<1>9. BatchInLog(p)'
  <2>1. \A i \in 1..Len(batch[p]) : base[p] + i - 1 \in DOMAIN log_entries'
    BY <1>1, <1>5
  <2> QED
    BY <1>1, <1>5, <2>1 DEF BatchInLog
<1>10. BatchKind(p)'
  BY <1>1, <1>2, <1>6, LoggedStays DEF BatchKind, Appending
<1>11. LocalInv(p)' /\ (p = Watcher => NullInLog')
  BY <1>1, <1>9, <1>10 DEF LocalInv, SizeRead, RecLevel, CheckpointCovers, NullInLog
<1> QED
  BY <1>1, <1>6, <1>7, <1>8, <1>11, OnlyMoves

\* Writing the null entry keeps IInv.
LEMMA InitializeAppendStep == ASSUME IInv, InitializeAppend PROVE IInv'
<1>0. Watcher \in Procs
  BY DEF Procs
<1>1. CASE 0 \in DOMAIN log_entries
  <2>1. Goto(Watcher, "dead") /\ UNCHANGED <<tables, caCerts, batch, base, rec, cp>>
    BY <1>1 DEF InitializeAppend, OnError, tables
  <2> QED
    BY <2>1, GotoStep DEF Resting, InitializeAppend, IInv, TypeOK
<1>2. CASE 0 \notin DOMAIN log_entries
  <2> DEFINE b == <<NullEntry>>
  <2>1. b \in Seq(Entry) /\ Len(b) = 1 /\ b[1] = NullEntry
    BY DEF NullEntry, Entry
  <2>2. /\ log_entries' = Upsert(log_entries, RowsAt(0, b))
        /\ pc' = [pc EXCEPT ![Watcher] = "init_leaf"]
        /\ UNCHANGED <<tree_nodes, checkpoints, cursor, issued, caCerts, batch, base, rec, cp, faults>>
    BY <1>2 DEF InitializeAppend, Goto
  <2> HIDE DEF b
  <2>3. DOMAIN RowsAt(0, b) \cap DOMAIN log_entries = {}
    BY <1>2, <2>1 DEF RowsAt
  <2>4. /\ DOMAIN log_entries' = 0..(0 + Len(b) - 1)
        /\ \A i \in DOMAIN log_entries : i \in DOMAIN log_entries' /\ log_entries'[i] = log_entries[i]
        /\ \A i \in 1..Len(b) : log_entries'[0 + i - 1] = b[i]
        /\ \A i \in DOMAIN log_entries' : i \in Nat /\ (i \in DOMAIN log_entries \/ log_entries'[i] \in Entry)
        /\ LogShape'
    <3>1. 0 \in Nat /\ 0..(0 - 1) = {} /\ Len(b) > 0 /\ LogShape
      BY <2>1 DEF IInv, TableInv
    <3> QED
      BY <2>1, <2>2, <2>3, <3>1, RowsAppended
  <2>5. Grows
    BY <2>2, <2>4 DEF Grows
  <2>6. TableInv'
    BY <2>2, <2>4, <2>5, GrownTables DEF IInv
  <2>7. \A i \in DOMAIN log_entries' : i \in Nat /\ log_entries'[i] \in Entry
    BY <2>4 DEF IInv, TypeOK
  <2>8. TypeOK' /\ pc'[Watcher] = "init_leaf" /\ \A q \in Procs \ {Watcher} : Kept(q)
    BY <1>0, <2>2, <2>7 DEF IInv, TypeOK, Steps, Kept
  <2>9. NullInLog'
    BY <2>1, <2>4 DEF NullInLog
  <2>10. LocalInv(Watcher)'
    BY <2>8 DEF LocalInv, SizeRead, BatchInLog, BatchKind, RecLevel, CheckpointCovers,
                Appending, Appended
  <2> QED
    BY <1>0, <2>5, <2>6, <2>8, <2>9, <2>10, OnlyMoves
<1> QED
  BY <1>1, <1>2

-----------------------------------------------------------------------------
(* Steps that write tree_nodes, the cursor, a checkpoint or a certificate. *)

\* Rows of tree_nodes are written that agree with the log.
LEMMA NodesWritten ==
    ASSUME TableInv, NEW rows, tree_nodes' = Upsert(tree_nodes, rows),
           \A x \in DOMAIN rows :
               x[1] = 0 => /\ x[2] \in DOMAIN log_entries
                           /\ rows[x] = LeafHash(log_entries[x[2]].entry_data),
           UNCHANGED <<log_entries, checkpoints, cursor, issued>>
    PROVE  TableInv' /\ Grows
<1>1. LeavesMatchEntries'
  BY DEF TableInv, LeavesMatchEntries, Upsert
<1>2. LogShape' /\ CursorCovered' /\ IssuedOwnEntry'
  BY DEF TableInv, LogShape, TreeSize, CursorCovered, IssuedOwnEntry, Logged
<1>3. Grows
  BY DEF Grows
<1> QED
  BY <1>1, <1>2, <1>3 DEF TableInv

\* The leaves of a batch that is in the log agree with the log.
LEMMA LeavesOfBatch ==
    ASSUME NEW s \in Nat, NEW b \in Seq(Entry),
           \A i \in 1..Len(b) : s + i - 1 \in DOMAIN log_entries /\ log_entries[s + i - 1] = b[i]
    PROVE  \A x \in DOMAIN LeavesAt(s, b) :
               /\ x[1] = 0
               /\ x[2] \in DOMAIN log_entries
               /\ LeavesAt(s, b)[x] = LeafHash(log_entries[x[2]].entry_data)
<1> SUFFICES ASSUME NEW x \in {0} \X (s..(s + Len(b) - 1))
             PROVE  /\ x[1] = 0
                    /\ x[2] \in DOMAIN log_entries
                    /\ LeavesAt(s, b)[x] = LeafHash(log_entries[x[2]].entry_data)
  BY DEF LeavesAt
<1> DEFINE i == x[2] - s + 1
<1>1. x[1] = 0 /\ i \in 1..Len(b) /\ s + i - 1 = x[2]
  OBVIOUS
<1>2. LeavesAt(s, b)[x] = LeafHash(b[i].entry_data)
  BY DEF LeavesAt
<1> QED
  BY <1>1, <1>2

\* Writing the leaf of the null entry keeps IInv.
LEMMA InitializeLeafStep == ASSUME IInv, InitializeLeaf PROVE IInv'
<1>0. Watcher \in Procs
  BY DEF Procs
<1> DEFINE b == <<NullEntry>>
<1>1. b \in Seq(Entry) /\ Len(b) = 1 /\ b[1] = NullEntry
  BY DEF NullEntry, Entry
<1>2. /\ tree_nodes' = Upsert(tree_nodes, LeavesAt(0, b))
      /\ pc' = [pc EXCEPT ![Watcher] = "poll"]
      /\ UNCHANGED <<log_entries, checkpoints, cursor, issued, caCerts, batch, base, rec, cp, faults>>
  BY DEF InitializeLeaf, Goto
<1> HIDE DEF b
<1>3. \A i \in 1..Len(b) : 0 + i - 1 \in DOMAIN log_entries /\ log_entries[0 + i - 1] = b[i]
  BY <1>1 DEF IInv, NullInLog, InitializeLeaf
<1>4. \A x \in DOMAIN LeavesAt(0, b) :
               /\ x[1] = 0
               /\ x[2] \in DOMAIN log_entries
               /\ LeavesAt(0, b)[x] = LeafHash(log_entries[x[2]].entry_data)
  BY <1>1, <1>3, LeavesOfBatch
<1>5. TableInv' /\ Grows
  BY <1>2, <1>4, NodesWritten DEF IInv
<1>6. \A x \in DOMAIN tree_nodes' : x[1] \in 0..MaxLevel
  BY <1>2, <1>4, BoundsAssumption DEF IInv, TypeOK, Upsert
<1>7. TypeOK' /\ pc'[Watcher] = "poll" /\ \A q \in Procs \ {Watcher} : Kept(q)
  BY <1>0, <1>2, <1>6 DEF IInv, TypeOK, Steps, Kept
<1>8. LocalInv(Watcher)' /\ NullInLog'
  BY <1>7 DEF LocalInv, SizeRead, BatchInLog, BatchKind, RecLevel, CheckpointCovers,
              Appending, Appended, NullInLog
<1> QED
  BY <1>0, <1>5, <1>7, <1>8, OnlyMoves

\* Writing the leaf hashes of a batch keeps IInv.
LEMMA SetLeavesStep == ASSUME IInv, NEW p \in Procs, SetLeaves(p) PROVE IInv'
<1>1. /\ pc[p] = "leaf" /\ pc' = [pc EXCEPT ![p] = "left"]
      /\ tree_nodes' = Upsert(tree_nodes, LeavesAt(base[p], batch[p]))
      /\ rec' = [rec EXCEPT ![p] = AtLevel(p, 1)]
      /\ UNCHANGED <<log_entries, checkpoints, cursor, issued, caCerts, batch, base, cp, faults>>
      /\ batch[p] \in Seq(Entry) /\ base[p] \in Nat
  BY DEF SetLeaves, Goto, IInv, TypeOK
<1>2. BatchInLog(p) /\ BatchKind(p) /\ Appended(p) /\ Appending(p)
  BY <1>1 DEF IInv, LocalInv, Appended, Appending
<1>3. \A x \in DOMAIN LeavesAt(base[p], batch[p]) :
               /\ x[1] = 0
               /\ x[2] \in DOMAIN log_entries
               /\ LeavesAt(base[p], batch[p])[x] = LeafHash(log_entries[x[2]].entry_data)
  BY <1>1, <1>2, LeavesOfBatch DEF BatchInLog
<1>4. TableInv' /\ Grows
  BY <1>1, <1>3, NodesWritten DEF IInv
<1>5. \A x \in DOMAIN tree_nodes' : x[1] \in 0..MaxLevel
  BY <1>1, <1>3, BoundsAssumption DEF IInv, TypeOK, Upsert
<1>6. /\ DOMAIN AtLevel(p, 1) = {"level", "idx", "left", "nodes"}
      /\ AtLevel(p, 1).level = 1 /\ DOMAIN AtLevel(p, 1).nodes = {}
  BY DEF AtLevel
<1>7. TypeOK' /\ \A q \in Procs \ {p} : Kept(q)
  BY <1>1, <1>5, <1>6 DEF IInv, TypeOK, Steps, Kept
<1>8. pc'[p] = "left" /\ rec'[p] = AtLevel(p, 1) /\ batch'[p] = batch[p] /\ base'[p] = base[p]
  BY <1>1 DEF IInv, TypeOK
<1>9. BatchInLog(p)'
  BY <1>1, <1>2, <1>8 DEF BatchInLog
<1>10. BatchKind(p)'
  BY <1>2, <1>4, <1>8, LoggedStays DEF BatchKind
<1>11. LocalInv(p)' /\ (p = Watcher => NullInLog')
  BY <1>6, <1>8, <1>9, <1>10, BoundsAssumption
     DEF LocalInv, SizeRead, RecLevel, CheckpointCovers, NullInLog
<1> QED
  BY <1>4, <1>7, <1>11, OnlyMoves

\* Writing a level of interior nodes keeps IInv.
LEMMA SetLevelStep == ASSUME IInv, NEW p \in Procs, SetLevel(p) PROVE IInv'
<1> DEFINE last == rec[p].level = MaxLevel \/ DOMAIN rec[p].nodes = {}
           to   == IF ~last THEN "left" ELSE IF p = Watcher THEN "cursor" ELSE "cp_size"
           r    == IF last THEN NoRec ELSE AtLevel(p, rec[p].level + 1)
<1>1. /\ pc[p] = "write" /\ pc' = [pc EXCEPT ![p] = to]
      /\ tree_nodes' = Upsert(tree_nodes, rec[p].nodes)
      /\ rec' = [rec EXCEPT ![p] = r]
      /\ UNCHANGED <<log_entries, checkpoints, cursor, issued, caCerts, batch, base, cp, faults>>
  BY DEF SetLevel, Goto
<1>2. BatchInLog(p) /\ BatchKind(p) /\ Appended(p) /\ Appending(p)
  BY <1>1 DEF IInv, LocalInv, Appended, Appending
<1>3. rec[p].level \in 1..MaxLevel /\ \A x \in DOMAIN rec[p].nodes : x[1] = rec[p].level
  BY <1>1 DEF IInv, LocalInv, RecLevel
<1>4. TableInv' /\ Grows
  <2>1. \A x \in DOMAIN rec[p].nodes : x[1] # 0
    BY <1>3, BoundsAssumption
  <2> QED
    BY <1>1, <2>1, NodesWritten DEF IInv
<1>5. \A x \in DOMAIN tree_nodes' : x[1] \in 0..MaxLevel
  BY <1>1, <1>3, BoundsAssumption DEF IInv, TypeOK, Upsert
<1>6. /\ DOMAIN r = {"level", "idx", "left", "nodes"}
      /\ ~last => r.level \in 1..MaxLevel /\ DOMAIN r.nodes = {}
  BY <1>3, BoundsAssumption DEF AtLevel, NoRec
<1>7. to \in {"left", "cursor", "cp_size"} /\ (to = "left" => ~last)
      /\ (to = "cp_size" => p # Watcher)
  OBVIOUS
<1> HIDE DEF to, r, last
<1>8. TypeOK' /\ \A q \in Procs \ {p} : Kept(q)
  BY <1>1, <1>5, <1>6, <1>7 DEF IInv, TypeOK, Steps, Kept
<1>9. pc'[p] = to /\ rec'[p] = r /\ batch'[p] = batch[p] /\ base'[p] = base[p]
  BY <1>1 DEF IInv, TypeOK
<1>10. BatchInLog(p)'
  BY <1>1, <1>2, <1>9 DEF BatchInLog
<1>11. BatchKind(p)'
  BY <1>2, <1>4, <1>9, LoggedStays DEF BatchKind
<1>12. RecLevel(p)'
  BY <1>6, <1>7, <1>9 DEF RecLevel
<1>13. LocalInv(p)' /\ (p = Watcher => NullInLog')
  BY <1>7, <1>9, <1>10, <1>11, <1>12 DEF LocalInv, SizeRead, CheckpointCovers, NullInLog
<1> QED
  BY <1>4, <1>8, <1>13, OnlyMoves

\* Advancing the watcher cursor keeps IInv: the batch it passes is in the log.
LEMMA UpdateCursorStep == ASSUME IInv, UpdateWatcherCursor PROVE IInv'
<1>0. Watcher \in Procs
  BY DEF Procs
<1>1. /\ pc[Watcher] = "cursor" /\ BatchInLog(Watcher) /\ BatchKind(Watcher)
      /\ Appended(Watcher) /\ Appending(Watcher)
      /\ UNCHANGED <<log_entries, tree_nodes, checkpoints, issued, caCerts, faults>>
  BY <1>0 DEF UpdateWatcherCursor, IInv, LocalInv, Appended, Appending
<1>2. PICK a \in 0..NumCerts, n \in 1..NumCerts :
          /\ batch[Watcher] = [i \in 1..n |-> CertEntry(a + i)]
          /\ a + n <= NumCerts
          /\ \A k \in 1..a : Logged(CertEntry(k))
  BY <1>1 DEF BatchKind
<1>3. Len(batch[Watcher]) = n /\ batch[Watcher][n] = CertEntry(a + n)
  BY <1>2
<1>4. cursor' = a + n
  BY <1>3 DEF UpdateWatcherCursor, CertEntry
<1>5. \A k \in 1..(a + n) : Logged(CertEntry(k))
  <2> SUFFICES ASSUME NEW k \in 1..(a + n), ~(k <= a) PROVE Logged(CertEntry(k))
    BY <1>2
  <2>1. k - a \in 1..n /\ a + (k - a) = k
    BY <1>2
  <2>2. batch[Watcher][k - a] = CertEntry(k)
    BY <1>2, <2>1
  <2> QED
    BY <1>1, <1>3, <2>1, <2>2 DEF BatchInLog, Logged
<1>6. Grows
  BY <1>1 DEF Grows
<1>7. TableInv'
  <2>1. CursorCovered'
    BY <1>1, <1>4, <1>5 DEF CursorCovered, Logged
  <2> QED
    BY <1>1, <2>1 DEF IInv, TableInv, LogShape, TreeSize, LeavesMatchEntries, IssuedOwnEntry
<1>8. /\ pc' = [pc EXCEPT ![Watcher] = "idle"] /\ batch' = [batch EXCEPT ![Watcher] = NoBatch]
      /\ base' = [base EXCEPT ![Watcher] = 0] /\ rec' = [rec EXCEPT ![Watcher] = NoRec]
      /\ cp' = [cp EXCEPT ![Watcher] = NoCp]
  BY DEF UpdateWatcherCursor, Return, Goto, Reset
<1>9. TypeOK'
  <2>1. /\ DOMAIN NoRec = {"level", "idx", "left", "nodes"}
        /\ DOMAIN NoCp = {"tree_size", "root_hash"}
        /\ NoBatch \in Seq(Entry)
    BY DEF NoRec, NoCp, NoBatch
  <2>2. cursor' \in 0..NumCerts
    BY <1>2, <1>4, BoundsAssumption
  <2>3. /\ pc' \in [Procs -> Steps]
        /\ batch' \in [Procs -> Seq(Entry)] /\ base' \in [Procs -> Nat]
    BY <1>0, <1>8, <2>1 DEF IInv, TypeOK, Steps
  <2>4. /\ DOMAIN rec' = Procs /\ DOMAIN cp' = Procs
        /\ \A p \in Procs : /\ DOMAIN rec'[p] = {"level", "idx", "left", "nodes"}
                            /\ DOMAIN cp'[p] = {"tree_size", "root_hash"}
    BY <1>0, <1>8, <2>1 DEF IInv, TypeOK
  <2> QED
    BY <1>1, <2>2, <2>3, <2>4, SMTT(30) DEF IInv, TypeOK
<1>10. pc'[Watcher] = "idle" /\ \A q \in Procs \ {Watcher} : Kept(q)
  BY <1>0, <1>8 DEF IInv, TypeOK, Kept
<1>11. LocalInv(Watcher)' /\ NullInLog'
  BY <1>10 DEF LocalInv, SizeRead, BatchInLog, BatchKind, RecLevel, CheckpointCovers,
               Appending, Appended, NullInLog
<1> QED
  BY <1>0, <1>6, <1>7, <1>9, <1>10, <1>11, OnlyMoves

\* What goroutine p has appended is still as it was when it goes on to its
\* checkpoint or its certificate.
LEMMA FinalizeLocals ==
    ASSUME IInv, NEW p \in Procs, Grows, TypeOK', TableInv',
           pc[p] \in {"cp_size", "cp_root", "cp_leaves", "cp_save", "proof"},
           pc'[p] \in {"cp_root", "cp_leaves", "cp_save", "proof", "store"},
           p = Watcher => pc'[p] \in {"cp_root", "cp_leaves", "cp_save"},
           batch'[p] = batch[p], base'[p] = base[p],
           CheckpointCovers(p)',
           \A q \in Procs \ {p} : Kept(q)
    PROVE  IInv'
<1>1. SizeRead(p)' /\ RecLevel(p)' /\ (p = Watcher => NullInLog')
  BY DEF SizeRead, RecLevel, NullInLog
<1>2. BatchInLog(p)' /\ BatchKind(p)'
  <2>1. CASE p = Watcher
    BY <2>1 DEF BatchInLog, BatchKind, Appending, Appended
  <2>2. CASE p # Watcher
    <3>1. Appended(p) /\ Appending(p) /\ BatchInLog(p) /\ BatchKind(p)
      BY <2>2 DEF IInv, LocalInv, Appending, Appended
    <3>2. BatchInLog(p)'
      BY <3>1 DEF BatchInLog, Grows
    <3>3. BatchKind(p)'
      BY <2>2, <3>1 DEF BatchKind
    <3> QED
      BY <3>2, <3>3
  <2> QED
    BY <2>1, <2>2
<1> QED
  BY <1>1, <1>2, OnlyMoves DEF LocalInv

\* Reading the tree size at the head of CreateCheckpoint keeps IInv.
LEMMA CheckpointSizeStep == ASSUME IInv, NEW p \in Procs, CheckpointSize(p) PROVE IInv'
<1>1. CASE TreeSize = 0
  BY <1>1, ReturnStep, ErrorRests DEF CheckpointSize, IInv, TypeOK
<1>2. CASE TreeSize # 0
  <2> DEFINE c == [tree_size |-> TreeSize, root_hash |-> EmptyHash]
  <2>1. /\ pc[p] = "cp_size" /\ pc' = [pc EXCEPT ![p] = "cp_root"]
        /\ cp' = [cp EXCEPT ![p] = c]
        /\ UNCHANGED <<tables, caCerts, faults, batch, base, rec>>
    BY <1>2 DEF CheckpointSize, Goto
  <2>2. TableInv' /\ Grows
    BY <2>1, KeptTables DEF IInv
  <2>3. c.tree_size = TreeSize /\ DOMAIN c = {"tree_size", "root_hash"} /\ TreeSize \in Nat \ {0}
    BY <1>2 DEF IInv, TableInv, LogShape
  <2> HIDE DEF c
  <2>4. TypeOK' /\ \A q \in Procs \ {p} : Kept(q)
    BY <2>1, <2>3 DEF IInv, TypeOK, Steps, tables, Kept
  <2>5. pc'[p] = "cp_root" /\ cp'[p] = c /\ batch'[p] = batch[p] /\ base'[p] = base[p]
    BY <2>1 DEF IInv, TypeOK
  <2>6. p # Watcher => base[p] < TreeSize
    <3> SUFFICES ASSUME p # Watcher PROVE base[p] < TreeSize
      OBVIOUS
    <3>1. BatchInLog(p) /\ Appended(p) /\ batch[p] = <<DirectEntry(p)>>
      BY <2>1 DEF IInv, LocalInv, Appended, Appending, BatchKind
    <3>2. base[p] \in DOMAIN log_entries /\ base[p] \in Nat
      BY <3>1 DEF BatchInLog, IInv, TypeOK
    <3> QED
      BY <3>2 DEF IInv, TableInv, LogShape
  <2>7. CheckpointCovers(p)'
    BY <2>3, <2>5, <2>6 DEF CheckpointCovers
  <2> QED
    BY <2>1, <2>2, <2>4, <2>5, <2>7, FinalizeLocals
<1> QED
  BY <1>1, <1>2

\* The rows that a read loses count as one fault, if there is budget for one.
LEMMA UnreadFaults ==
    ASSUME TypeOK, NEW lost \in Unread, faults' = faults + Cardinality(lost)
    PROVE  faults' \in 0..MaxFaults
<1>1. faults \in 0..MaxFaults /\ MaxFaults \in Nat
  BY BoundsAssumption DEF TypeOK
<1>2. CASE lost = {}
  <2>1. Cardinality(lost) = 0
    BY <1>2, FS_EmptySet
  <2> QED
    BY <1>1, <2>1
<1>3. CASE lost # {}
  <2>1. faults < MaxFaults /\ \E x : lost = {x}
    BY <1>3 DEF Unread
  <2>2. Cardinality(lost) = 1
    BY <2>1, FS_Singleton
  <2> QED
    BY <1>1, <2>1, <2>2
<1> QED
  BY <1>2, <1>3

\* The root has been read or computed: the checkpoint is saved next.
LEMMA RootHashStep ==
    ASSUME IInv, NEW p \in Procs, pc[p] \in {"cp_root", "cp_leaves"},
           NEW h, cp' = [cp EXCEPT ![p].root_hash = h], Goto(p, "cp_save"),
           UNCHANGED <<tables, caCerts, batch, base, rec>>, faults' \in 0..MaxFaults
    PROVE  IInv'
<1>1. pc' = [pc EXCEPT ![p] = "cp_save"]
  BY DEF Goto
<1>2. TableInv' /\ Grows
  BY KeptTables DEF IInv
<1>3. /\ cp'[p].tree_size = cp[p].tree_size /\ DOMAIN cp'[p] = {"tree_size", "root_hash"}
      /\ DOMAIN cp' = Procs
      /\ \A q \in Procs \ {p} : cp'[q] = cp[q]
  BY DEF IInv, TypeOK
<1>4. \A q \in Procs : /\ DOMAIN rec'[q] = {"level", "idx", "left", "nodes"}
                       /\ DOMAIN cp'[q] = {"tree_size", "root_hash"}
  BY <1>3 DEF IInv, TypeOK
<1>5. TypeOK'
  BY <1>1, <1>3, <1>4 DEF IInv, TypeOK, tables, Steps
<1>6. \A q \in Procs \ {p} : Kept(q)
  BY <1>1, <1>3 DEF IInv, TypeOK, Kept
<1>7. pc'[p] = "cp_save" /\ batch'[p] = batch[p] /\ base'[p] = base[p]
  BY <1>1 DEF IInv, TypeOK
<1>8. CheckpointCovers(p)'
  BY <1>3, <1>7 DEF IInv, LocalInv, CheckpointCovers
<1> QED
  BY <1>2, <1>5, <1>6, <1>7, <1>8, FinalizeLocals

\* Reading the root from tree_nodes keeps IInv.
LEMMA CheckpointRootStep == ASSUME IInv, NEW p \in Procs, CheckpointRoot(p) PROVE IInv'
<1> DEFINE top == <<rootLevel(cp[p].tree_size), 0>>
<1>1. PICK lost \in BOOLEAN :
        /\ lost => faults < MaxFaults
        /\ IF top \in DOMAIN tree_nodes /\ ~lost
           THEN /\ cp' = [cp EXCEPT ![p].root_hash = tree_nodes[top]]
                /\ Goto(p, "cp_save")
                /\ UNCHANGED <<batch, base, rec, proof>>
           ELSE IF cp[p].tree_size > 1
           THEN Goto(p, "cp_leaves") /\ UNCHANGED <<batch, base, rec, cp, proof>>
           ELSE Return(p, OnError(p))
        /\ faults' = IF lost THEN faults + 1 ELSE faults
  BY Zenon DEF CheckpointRoot
<1>2. pc[p] = "cp_root" /\ UNCHANGED <<tables, caCerts>>
  BY DEF CheckpointRoot
<1>3. faults' \in 0..MaxFaults
  <2>1. faults' = faults \/ (faults < MaxFaults /\ faults' = faults + 1)
    BY <1>1, Zenon
  <2> QED
    BY <2>1, BoundsAssumption DEF IInv, TypeOK
<1> HIDE DEF top
<1>4. CASE Return(p, OnError(p))
  BY <1>2, <1>3, <1>4, ReturnStep, ErrorRests
<1>5. CASE Goto(p, "cp_leaves") /\ UNCHANGED <<batch, base, rec, cp, proof>>
  <2>1. pc' = [pc EXCEPT ![p] = "cp_leaves"]
    BY <1>5 DEF Goto
  <2>2. TableInv' /\ Grows
    BY <1>2, KeptTables DEF IInv
  <2>3. TypeOK' /\ pc'[p] = "cp_leaves" /\ \A q \in Procs \ {p} : Kept(q)
    BY <1>2, <1>3, <1>5, <2>1 DEF IInv, TypeOK, tables, Steps, Kept
  <2>4. CheckpointCovers(p)'
    BY <1>2, <1>5, <2>3 DEF IInv, LocalInv, CheckpointCovers
  <2> QED
    BY <1>2, <1>5, <2>2, <2>3, <2>4, FinalizeLocals
<1>6. CASE /\ cp' = [cp EXCEPT ![p].root_hash = tree_nodes[top]]
           /\ Goto(p, "cp_save") /\ UNCHANGED <<batch, base, rec, proof>>
  BY <1>2, <1>3, <1>6, RootHashStep
<1> QED
  BY <1>1, <1>4, <1>5, <1>6

\* Computing the root from the leaves keeps IInv.
LEMMA CheckpointLeavesStep == ASSUME IInv, NEW p \in Procs, CheckpointLeaves(p) PROVE IInv'
<1> DEFINE n == cp[p].tree_size
           h == computeSubtreeHash(0, n, [i \in 0..(n - 1) |-> tree_nodes[<<0, i>>]])
<1>1. /\ pc[p] = "cp_leaves" /\ UNCHANGED <<tables, caCerts, faults>>
      /\ \/ /\ cp' = [cp EXCEPT ![p].root_hash = h]
            /\ Goto(p, "cp_save") /\ UNCHANGED <<batch, base, rec, proof>>
         \/ Return(p, OnError(p))
  BY Zenon DEF CheckpointLeaves
<1> HIDE DEF h, n
<1>2. faults' \in 0..MaxFaults
  BY <1>1 DEF IInv, TypeOK
<1> QED
  BY <1>1, <1>2, RootHashStep, ReturnStep, ErrorRests

-----------------------------------------------------------------------------
(* Steps that save a checkpoint or a certificate.                          *)

\* The locals after Return, whatever happens to the tables.
LEMMA LocalsReset ==
    ASSUME TypeOK, NEW p \in Procs, NEW to \in Resting, Return(p, to)
    PROVE  /\ pc' \in [Procs -> Steps]
           /\ batch' \in [Procs -> Seq(Entry)] /\ base' \in [Procs -> Nat]
           /\ DOMAIN rec' = Procs /\ DOMAIN cp' = Procs
           /\ \A q \in Procs : /\ DOMAIN rec'[q] = {"level", "idx", "left", "nodes"}
                               /\ DOMAIN cp'[q] = {"tree_size", "root_hash"}
           /\ pc'[p] = to
           /\ \A q \in Procs \ {p} : Kept(q)
           /\ LocalInv(p)'
           /\ p = Watcher => NullInLog'
<1>1. pc' = [pc EXCEPT ![p] = to] /\ batch' = [batch EXCEPT ![p] = NoBatch]
      /\ base' = [base EXCEPT ![p] = 0] /\ rec' = [rec EXCEPT ![p] = NoRec]
      /\ cp' = [cp EXCEPT ![p] = NoCp]
  BY DEF Return, Goto, Reset
<1>2. pc'[p] = to /\ \A q \in Procs \ {p} : Kept(q)
  BY <1>1 DEF TypeOK, Kept
<1>3. /\ DOMAIN NoRec = {"level", "idx", "left", "nodes"}
      /\ DOMAIN NoCp = {"tree_size", "root_hash"}
      /\ NoBatch \in Seq(Entry)
  BY DEF NoRec, NoCp, NoBatch
<1>4. pc' \in [Procs -> Steps]
  BY <1>1 DEF TypeOK, Steps, Resting
<1>5. batch' \in [Procs -> Seq(Entry)] /\ base' \in [Procs -> Nat]
  BY <1>1, <1>3 DEF TypeOK
<1>6. /\ DOMAIN rec' = Procs /\ DOMAIN cp' = Procs
      /\ \A q \in Procs : /\ DOMAIN rec'[q] = {"level", "idx", "left", "nodes"}
                          /\ DOMAIN cp'[q] = {"tree_size", "root_hash"}
  BY <1>1, <1>3 DEF TypeOK
<1>7. LocalInv(p)' /\ (p = Watcher => NullInLog')
  BY <1>2 DEF Resting, LocalInv, SizeRead, BatchInLog, BatchKind, RecLevel,
         CheckpointCovers, Appending, Appended, NullInLog
<1> QED
  BY <1>2, <1>4, <1>5, <1>6, <1>7

\* SaveCheckpoint adds a row; a finalization goes on with the row it saved.
LEMMA SaveCheckpointStep == ASSUME IInv, NEW p \in Procs, SaveCheckpoint(p) PROVE IInv'
<1>1. /\ pc[p] = "cp_save" /\ checkpoints' = Append(checkpoints, cp[p])
      /\ UNCHANGED <<log_entries, tree_nodes, cursor, issued, caCerts, faults>>
  BY DEF SaveCheckpoint
<1>2. /\ Len(checkpoints) \in Nat /\ Len(checkpoints') = Len(checkpoints) + 1
      /\ checkpoints' \in Seq({checkpoints'[i] : i \in 1..Len(checkpoints')})
      /\ \A i \in 1..Len(checkpoints) : checkpoints'[i] = checkpoints[i]
      /\ checkpoints'[Len(checkpoints) + 1] = cp[p]
  BY <1>1, AppendRow DEF IInv, TypeOK
<1>3. Grows
  BY <1>1, <1>2 DEF Grows
<1>4. cp[p].tree_size \in Nat \ {0}
  BY <1>1 DEF IInv, LocalInv, CheckpointCovers
<1>5. \A i \in 1..Len(checkpoints') : checkpoints'[i].tree_size \in Nat \ {0}
  <2> SUFFICES ASSUME NEW i \in 1..Len(checkpoints') PROVE checkpoints'[i].tree_size \in Nat \ {0}
    OBVIOUS
  <2>1. CASE i = Len(checkpoints) + 1
    BY <1>2, <1>4, <2>1
  <2>2. CASE i # Len(checkpoints) + 1
    <3>1. i \in 1..Len(checkpoints)
      BY <1>2, <2>2
    <3>2. checkpoints[i].tree_size \in Nat \ {0} /\ checkpoints'[i] = checkpoints[i]
      BY <1>2, <3>1 DEF IInv, TypeOK
    <3> QED
      BY <3>2
  <2> QED
    BY <2>1, <2>2
<1>6. TableInv'
  <2>1. IssuedOwnEntry'
    <3>1. ASSUME NEW q \in DOMAIN issued'
          PROVE /\ issued'[q].leaf_index \in DOMAIN log_entries'
                /\ log_entries'[issued'[q].leaf_index] = DirectEntry(q)
                /\ issued'[q].leaf_index < issued'[q].checkpoint.tree_size
                /\ \E i \in 1..Len(checkpoints') : checkpoints'[i] = issued'[q].checkpoint
      <4>1. /\ issued[q].leaf_index \in DOMAIN log_entries
            /\ log_entries[issued[q].leaf_index] = DirectEntry(q)
            /\ issued[q].leaf_index < issued[q].checkpoint.tree_size
            /\ \E i \in 1..Len(checkpoints) : checkpoints[i] = issued[q].checkpoint
        BY <1>1, <3>1 DEF IInv, TableInv, IssuedOwnEntry
      <4>2. \E i \in 1..Len(checkpoints') : checkpoints'[i] = issued[q].checkpoint
        BY <1>3, <4>1 DEF Grows
      <4> QED
        BY <1>1, <4>1, <4>2
    <3> QED
      BY <3>1 DEF IssuedOwnEntry, DirectEntry
  <2> QED
    BY <1>1, <2>1 DEF IInv, TableInv, LogShape, TreeSize, LeavesMatchEntries, CursorCovered, Logged
<1>7. CASE p = Watcher
  <2>1. Return(p, "idle") /\ "idle" \in Resting
    BY <1>7 DEF SaveCheckpoint, Resting
  <2>2. TypeOK'
    BY <1>1, <1>2, <1>5, <2>1, LocalsReset DEF IInv, TypeOK
  <2> QED
    BY <1>3, <1>6, <2>1, <2>2, LocalsReset, OnlyMoves DEF IInv
<1>8. CASE p # Watcher
  <2>1. pc' = [pc EXCEPT ![p] = "proof"] /\ UNCHANGED <<batch, base, rec, cp>>
    BY <1>8 DEF SaveCheckpoint, Goto
  <2>2. TypeOK'
    BY <1>1, <1>2, <1>5, <2>1 DEF IInv, TypeOK, Steps
  <2>3. pc'[p] = "proof" /\ \A q \in Procs \ {p} : Kept(q)
    BY <2>1 DEF IInv, TypeOK, Kept
  <2>4. CheckpointCovers(p)'
    <3>1. base[p] < cp[p].tree_size
      BY <1>1, <1>8 DEF IInv, LocalInv, CheckpointCovers
    <3>2. Len(checkpoints) + 1 \in 1..Len(checkpoints')
      BY <1>2
    <3> QED
      BY <1>2, <2>1, <2>3, <3>1, <3>2 DEF CheckpointCovers
  <2> QED
    BY <1>1, <1>3, <1>6, <1>8, <2>1, <2>2, <2>3, <2>4, FinalizeLocals
<1> QED
  BY <1>7, <1>8

\* Building the proof only reads.
LEMMA BuildProofStep == ASSUME IInv, NEW o \in Orders, BuildProof(o) PROVE IInv'
<1>1. o \in Procs /\ o # Watcher
  BY ProcsAssumption DEF Procs
<1>2. PICK lost \in Unread : faults' = faults + Cardinality(lost)
  BY DEF BuildProof
<1>3. /\ pc[o] = "proof" /\ pc' = [pc EXCEPT ![o] = "store"]
      /\ UNCHANGED <<tables, caCerts, batch, base, rec, cp>>
      /\ faults' \in 0..MaxFaults
  BY <1>2, UnreadFaults DEF BuildProof, Goto, IInv
<1>4. TableInv' /\ Grows
  BY <1>3, KeptTables DEF IInv
<1>5. TypeOK' /\ pc'[o] = "store" /\ \A q \in Procs \ {o} : Kept(q)
  BY <1>1, <1>3 DEF IInv, TypeOK, Steps, tables, Kept
<1>6. CheckpointCovers(o)'
  BY <1>1, <1>3, <1>5 DEF IInv, LocalInv, CheckpointCovers, tables
<1> QED
  BY <1>1, <1>3, <1>4, <1>5, <1>6, FinalizeLocals

\* The certificate names the entry the finalization appended, which is where
\* it was appended, and the checkpoint it saved, which covers it.
LEMMA StoreCertStep == ASSUME IInv, NEW o \in Orders, StoreCert(o) PROVE IInv'
<1>1. o \in Procs /\ o # Watcher
  BY ProcsAssumption DEF Procs
<1> DEFINE cert == [leaf_index |-> base[o], checkpoint |-> cp[o], proof |-> proof[o]]
<1>2. /\ pc[o] = "store" /\ Return(o, "done") /\ "done" \in Resting
      /\ issued' = Upsert(issued, [x \in {o} |-> cert])
      /\ UNCHANGED <<log_entries, tree_nodes, checkpoints, cursor, caCerts, faults>>
  BY DEF StoreCert, Resting
<1>3. Grows
  BY <1>2 DEF Grows
<1>4. /\ base[o] \in DOMAIN log_entries /\ log_entries[base[o]] = DirectEntry(o)
      /\ base[o] < cp[o].tree_size
      /\ \E i \in 1..Len(checkpoints) : checkpoints[i] = cp[o]
  <2>1. /\ BatchInLog(o) /\ Appended(o) /\ batch[o] = <<DirectEntry(o)>> /\ CheckpointCovers(o)
    BY <1>1, <1>2 DEF IInv, LocalInv, Appended, Appending, BatchKind
  <2>2. base[o] \in DOMAIN log_entries /\ log_entries[base[o]] = DirectEntry(o)
    <3>1. Len(batch[o]) = 1 /\ batch[o][1] = DirectEntry(o) /\ base[o] \in Nat
      BY <1>1, <2>1 DEF IInv, TypeOK
    <3>2. base[o] + 1 - 1 = base[o] /\ 1 \in 1..Len(batch[o])
      BY <3>1
    <3> QED
      BY <2>1, <3>1, <3>2 DEF BatchInLog
  <2> QED
    BY <1>1, <1>2, <2>1, <2>2 DEF CheckpointCovers
<1>5. IssuedOwnEntry'
  <2>1. cert.leaf_index = base[o] /\ cert.checkpoint = cp[o]
    OBVIOUS
  <2> HIDE DEF cert
  <2>2. /\ DOMAIN issued' = DOMAIN issued \cup {o} /\ issued'[o] = cert
        /\ \A q \in DOMAIN issued \ {o} : issued'[q] = issued[q]
    BY <1>2 DEF Upsert
  <2>3. ASSUME NEW q \in DOMAIN issued'
        PROVE /\ issued'[q].leaf_index \in DOMAIN log_entries'
              /\ log_entries'[issued'[q].leaf_index] = DirectEntry(q)
              /\ issued'[q].leaf_index < issued'[q].checkpoint.tree_size
              /\ \E i \in 1..Len(checkpoints') : checkpoints'[i] = issued'[q].checkpoint
    <3>1. CASE q = o
      BY <1>2, <1>4, <2>1, <2>2, <3>1
    <3>2. CASE q # o
      BY <1>2, <2>2, <2>3, <3>2 DEF IInv, TableInv, IssuedOwnEntry
    <3> QED
      BY <3>1, <3>2
  <2> QED
    BY <2>3 DEF IssuedOwnEntry, DirectEntry
<1>6. TableInv'
  BY <1>2, <1>5 DEF IInv, TableInv, LogShape, TreeSize, LeavesMatchEntries, CursorCovered, Logged
<1>7. TypeOK'
  <2>1. DOMAIN issued' \subseteq Orders
    BY <1>2 DEF Upsert, IInv, TypeOK
  <2>2. /\ pc' \in [Procs -> Steps]
        /\ batch' \in [Procs -> Seq(Entry)] /\ base' \in [Procs -> Nat]
        /\ DOMAIN rec' = Procs /\ DOMAIN cp' = Procs
        /\ \A q \in Procs : /\ DOMAIN rec'[q] = {"level", "idx", "left", "nodes"}
                            /\ DOMAIN cp'[q] = {"tree_size", "root_hash"}
    BY <1>1, <1>2, LocalsReset DEF IInv
  <2>3. /\ \A i \in DOMAIN log_entries' : i \in Nat /\ log_entries'[i] \in Entry
        /\ \A x \in DOMAIN tree_nodes' : x[1] \in 0..MaxLevel
        /\ checkpoints' \in Seq({checkpoints'[i] : i \in 1..Len(checkpoints')})
        /\ \A i \in 1..Len(checkpoints') : checkpoints'[i].tree_size \in Nat \ {0}
        /\ cursor' \in 0..NumCerts /\ caCerts' \in 0..NumCerts /\ faults' \in 0..MaxFaults
    <3>1. /\ log_entries' = log_entries /\ tree_nodes' = tree_nodes
          /\ checkpoints' = checkpoints /\ cursor' = cursor /\ caCerts' = caCerts
          /\ faults' = faults
      BY <1>2
    <3> QED
      BY <3>1 DEF IInv, TypeOK
  <2> QED
    BY <2>1, <2>2, <2>3, Zenon DEF TypeOK, Entry
<1> QED
  BY <1>1, <1>2, <1>3, <1>6, <1>7, LocalsReset, OnlyMoves DEF IInv

-----------------------------------------------------------------------------
(* The theorems.                                                           *)

\* A step in which nothing happens.
LEMMA StutterStep == ASSUME IInv, UNCHANGED vars PROVE IInv'
<1>1. /\ UNCHANGED <<tables, caCerts, pc, batch, base, rec, cp, faults>>
  BY DEF vars, tables
<1>2. TableInv' /\ Grows
  BY <1>1, KeptTables DEF IInv
<1>3. TypeOK' /\ \A q \in Procs : Kept(q)
  BY <1>1 DEF IInv, TypeOK, tables, Kept
<1>4. NullInLog'
  BY <1>1 DEF IInv, NullInLog, tables
<1> QED
  BY <1>2, <1>3, <1>4, KeptLocalInv DEF IInv

\* One action after the other.
LEMMA NextIInv == IInv /\ [Next]_vars => IInv'
<1> SUFFICES ASSUME IInv, [Next]_vars PROVE IInv'
  OBVIOUS
<1>1. ASSUME NEW p \in Procs, LogStep(p) PROVE IInv'
  BY <1>1, ReadSizeStep, AppendEntriesStep, ConflictStep, SetLeavesStep, ReadChildStep,
     SetLevelStep, CheckpointSizeStep, CheckpointRootStep, CheckpointLeavesStep,
     SaveCheckpointStep DEF LogStep
<1>2. CASE WatcherStep
  BY <1>1, <1>2, InitializeSizeStep, InitializeAppendStep, InitializeLeafStep, UpdateCursorStep
     DEF WatcherStep, Initialize, Procs
<1>3. ASSUME NEW o \in Orders, StartFinalize(o) \/ OrderStep(o) PROVE IInv'
  BY <1>1, <1>3, StartFinalizeStep, BuildProofStep, StoreCertStep DEF OrderStep, Procs
<1>4. ASSUME NEW p \in Procs, LostRead(p) \/ Fault(p) PROVE IInv'
  BY <1>4, ReadChildStep, FaultStep
<1> QED
  BY <1>2, <1>3, <1>4, CAIssueStep, PollStep, CheckpointTickStep, CrashStep, StutterStep DEF Next

\* The inductive invariant holds in every reachable state.
THEOREM Inductive == Spec => []IInv
<1>1. Init => IInv
  BY InitIInv
<1>2. IInv /\ [Next]_vars => IInv'
  BY NextIInv
<1> QED
  BY <1>1, <1>2, PTL DEF Spec

\* The tables and the goroutines' locals keep their types.
THEOREM TypeCorrect == Spec => []TypeOK
<1>1. IInv => TypeOK
  BY DEF IInv
<1> QED
  BY <1>1, Inductive, PTL

\* SetTreeNodes at level 0 never writes the hash of another entry than the one
\* log_entries has at that index (issuancelog.go, AppendCertificates).
THEOREM LeavesCorrect == Spec => []LeavesMatchEntries
<1>1. IInv => LeavesMatchEntries
  BY DEF IInv, TableInv
<1> QED
  BY <1>1, Inductive, PTL

\* Everything the watcher's cursor has passed is in the log, whatever failed
\* (watcher.go, pollCertificates).
THEOREM CursorSafe == Spec => []CursorCovered
<1>1. IInv => CursorCovered
  BY DEF IInv, TableInv
<1> QED
  BY <1>1, Inductive, PTL

\* A certificate names its own entry and a saved checkpoint that covers it
\* (finalize.go, processFinalizeMTC).
THEOREM IssuedSafe == Spec => []IssuedOwnEntry
<1>1. IInv => IssuedOwnEntry
  BY DEF IInv, TableInv
<1> QED
  BY <1>1, Inductive, PTL

-----------------------------------------------------------------------------
(* IssuanceLog implements AppendOnlyLog.                                   *)

\* A step that appends extends the log at its end; no other step touches it.
LEMMA NextAppendBatch == IInv /\ [Next]_vars => [Abstract!AppendBatch]_log_entries
<1> SUFFICES ASSUME IInv, [Next]_vars, log_entries' # log_entries
             PROVE  Abstract!AppendBatch
  OBVIOUS
<1>1. ASSUME NEW s \in Nat, NEW b \in Seq(Entry), Len(b) > 0,
             0..(s - 1) \subseteq DOMAIN log_entries,
             DOMAIN RowsAt(s, b) \cap DOMAIN log_entries = {},
             log_entries' = Upsert(log_entries, RowsAt(s, b))
      PROVE  Abstract!AppendBatch
  <2>1. /\ DOMAIN log_entries' = 0..(s + Len(b) - 1)
        /\ \A i \in DOMAIN log_entries : i \in DOMAIN log_entries' /\ log_entries'[i] = log_entries[i]
    BY <1>1, RowsAppended DEF IInv, TableInv
  <2>2. s \in DOMAIN log_entries' /\ s \notin DOMAIN log_entries
    <3>1. s \in DOMAIN RowsAt(s, b)
      BY <1>1 DEF RowsAt
    <3> QED
      BY <1>1, <2>1, <3>1
  <2>3. Abstract!Contiguous(log_entries')
    BY <1>1, <2>1 DEF Abstract!Contiguous
  <2> QED
    BY <2>1, <2>2, <2>3 DEF Abstract!AppendBatch
<1>2. ASSUME NEW p \in Procs, AppendEntries(p) PROVE Abstract!AppendBatch
  <2>1. pc[p] = "append" /\ SizeRead(p) /\ BatchKind(p) /\ Appending(p)
        /\ batch[p] \in Seq(Entry) /\ base[p] \in Nat
    BY <1>2 DEF AppendEntries, IInv, LocalInv, Appending, TypeOK
  <2>2. Len(batch[p]) > 0
    <3>1. CASE p = Watcher
      <4>1. PICK a \in 0..NumCerts, n \in 1..NumCerts : batch[p] = [i \in 1..n |-> CertEntry(a + i)]
        BY <2>1, <3>1 DEF BatchKind
      <4> QED
        BY <4>1
    <3>2. CASE p # Watcher
      <4>1. batch[p] = <<DirectEntry(p)>>
        BY <2>1, <3>2 DEF BatchKind
      <4> QED
        BY <4>1
    <3> QED
      BY <3>1, <3>2
  <2> QED
    BY <1>1, <1>2, <2>1, <2>2 DEF AppendEntries, SizeRead
<1>3. CASE InitializeAppend
  <2>1. 0 \notin DOMAIN log_entries /\ log_entries' = Upsert(log_entries, RowsAt(0, <<NullEntry>>))
    BY <1>3 DEF InitializeAppend
  <2>2. <<NullEntry>> \in Seq(Entry) /\ Len(<<NullEntry>>) = 1
    BY DEF NullEntry, Entry
  <2>3. DOMAIN RowsAt(0, <<NullEntry>>) = {0}
    BY DEF RowsAt
  <2>4. /\ Len(<<NullEntry>>) > 0 /\ 0 \in Nat /\ 0..(0 - 1) \subseteq DOMAIN log_entries
        /\ DOMAIN RowsAt(0, <<NullEntry>>) \cap DOMAIN log_entries = {}
    BY <2>1, <2>2, <2>3
  <2> QED
    BY <1>1, <2>1, <2>2, <2>4, Zenon
<1>4. ASSUME NEW p \in Procs, LogStep(p) PROVE AppendEntries(p)
  BY <1>4, Zenon DEF LogStep, ReadSize, AppendConflict, SetLeaves, ReadChild, ReadLeft, ReadRight,
     SetLevel, CheckpointSize, CheckpointRoot, CheckpointLeaves, SaveCheckpoint, tables
<1>5. CASE WatcherStep
  BY <1>2, <1>3, <1>4, <1>5, Zenon
     DEF WatcherStep, Initialize, InitializeSize, InitializeLeaf, UpdateWatcherCursor, tables, Procs
<1>6. ASSUME NEW o \in Orders, StartFinalize(o) \/ OrderStep(o) PROVE Abstract!AppendBatch
  BY <1>2, <1>4, <1>6, Zenon DEF StartFinalize, OrderStep, BuildProof, StoreCert, tables, Procs
<1>7. ASSUME NEW p \in Procs PROVE ~(LostRead(p) \/ Fault(p))
  BY Zenon DEF LostRead, ReadLeft, ReadRight, Fault, tables
<1>8. ~(CAIssue \/ PollCertificates \/ CheckpointTick \/ Crash \/ UNCHANGED vars)
  BY Zenon DEF CAIssue, PollCertificates, CheckpointTick, Crash, vars, tables
<1> QED
  BY <1>5, <1>6, <1>7, <1>8, Zenon DEF Next

\* The log is append-only and has no holes: IssuanceLog implements
\* AppendOnlyLog (store.go, AppendEntries; issuancelog.go, AppendCertificates,
\* AppendDirectEntry and Initialize).
THEOREM AppendOnlyLogImplemented == Spec => AppendOnly
<1>1. Init => Abstract!Init
  BY DEF Init, Abstract!Init
<1>2. IInv /\ [Next]_vars => [Abstract!AppendBatch]_log_entries
  BY NextAppendBatch
<1> QED
  BY <1>1, <1>2, Inductive, PTL DEF Spec, AppendOnly, Abstract!Spec

-----------------------------------------------------------------------------
(* While nothing fails, no entry is logged twice.                          *)

Beginning == {"start", "size", "append"}

\* The steps that leave the log and the cursor alone, and the watcher's batch while
\* the watcher is appending it.
LEMMA OnceQuiet ==
    ASSUME OnceInv, faults = 0, log_entries' = log_entries, cursor' = cursor,
           \A o \in Orders : pc'[o] \in Beginning => pc[o] \in Beginning,
           Appended(Watcher) => Appended(Watcher)' /\ batch'[Watcher] = batch[Watcher],
           \/ ~Appending(Watcher)'
           \/ Appending(Watcher) /\ batch'[Watcher] = batch[Watcher]
           \/ \A i \in 1..Len(batch'[Watcher]) : batch'[Watcher][i] = CertEntry(cursor + i)
    PROVE  OnceInv'
<1>1. \A e : Logged(e)' <=> Logged(e)
  BY DEF Logged
<1>2. LoggedOnce'
  BY DEF OnceInv, LoggedOnce
<1>3. \A o \in Orders : pc'[o] \in Beginning => ~Logged(DirectEntry(o))'
  <2>1. \A o \in Orders : pc[o] \in Beginning => ~Logged(DirectEntry(o))
    BY DEF OnceInv, Beginning
  <2> QED
    BY <2>1 DEF Logged, DirectEntry
<1>4. Appending(Watcher)' => \A i \in 1..Len(batch'[Watcher]) : batch'[Watcher][i] = CertEntry(cursor + i)
  BY DEF OnceInv
<1>5. ASSUME NEW k \in 1..NumCerts, Logged(CertEntry(k))', k > cursor
      PROVE  Appended(Watcher)' /\ k <= cursor + Len(batch'[Watcher])
  <2>1. Logged(CertEntry(k))
    BY <1>5 DEF Logged, CertEntry
  <2>2. Appended(Watcher) /\ k <= cursor + Len(batch[Watcher])
    BY <1>5, <2>1 DEF OnceInv
  <2> QED
    BY <2>2
<1> QED
  BY <1>2, <1>3, <1>4, <1>5 DEF OnceInv, Beginning, CertEntry

\* The steps of an append and of a checkpoint around AppendEntries.
LEMMA OnceLogStep ==
    ASSUME IInv, OnceInv, faults = 0, faults' = 0, NEW p \in Procs, LogStep(p), ~AppendEntries(p)
    PROVE  OnceInv'
<1>1. pc \in [Procs -> Steps] /\ batch \in [Procs -> Seq(Entry)] /\ Watcher \in Procs /\ Orders \subseteq Procs
  BY DEF IInv, TypeOK, Procs
<1>2. log_entries' = log_entries /\ cursor' = cursor
  BY Zenon DEF LogStep, ReadSize, AppendConflict, SetLeaves, ReadChild, ReadLeft, ReadRight,
     SetLevel, CheckpointSize, CheckpointRoot, CheckpointLeaves, SaveCheckpoint, tables
<1>3. PICK to : /\ pc' = [pc EXCEPT ![p] = to]
                /\ pc[p] = "append" => to = OnError(p)
                /\ to = "append" => pc[p] = "size"
                /\ to \notin {"start", "size"}
                /\ Appended(Watcher) /\ p = Watcher => to \in {"leaf", "left", "right", "write", "cursor"}
                /\ ~Appended(Watcher) /\ p = Watcher => to \notin {"leaf", "left", "right", "write", "cursor"}
                /\ to \in {"append", "leaf", "left", "right", "write", "cursor"} => batch' = batch
                /\ batch' = batch \/ batch' = [batch EXCEPT ![p] = NoBatch]
  <2> USE DEF Goto, Return, Reset, Appended
  <2>1. OnError(p) \in {"failed", "dead", "idle"}
    BY DEF OnError
  <2>2. CASE ReadSize(p)
    <3> WITNESS "append"
    <3> QED
      BY <2>2 DEF ReadSize
  <2>3. CASE AppendConflict(p)
    <3> WITNESS OnError(p)
    <3> QED
      BY <2>1, <2>3 DEF AppendConflict
  <2>4. CASE SetLeaves(p)
    <3> WITNESS "left"
    <3> QED
      BY <2>4 DEF SetLeaves
  <2>5. CASE ReadChild(p)
    <3>1. /\ batch' = batch /\ pc[p] \in {"left", "right"}
          /\ \E to \in {"left", "right", "write"} : pc' = [pc EXCEPT ![p] = to]
      BY <2>5, Zenon DEF ReadChild, ReadLeft, ReadRight, NextIdx
    <3> QED
      BY <3>1
  <2>6. CASE SetLevel(p)
    <3>1. /\ batch' = batch /\ pc[p] = "write"
          /\ \E to \in {"left", "cursor", "cp_size"} :
                pc' = [pc EXCEPT ![p] = to] /\ (p = Watcher => to # "cp_size")
      BY <2>6 DEF SetLevel
    <3> QED
      BY <3>1
  <2>7. CASE CheckpointSize(p) \/ CheckpointRoot(p) \/ CheckpointLeaves(p) \/ SaveCheckpoint(p)
    <3>1. /\ pc[p] \in {"cp_size", "cp_root", "cp_leaves", "cp_save"}
          /\ batch' = batch \/ batch' = [batch EXCEPT ![p] = NoBatch]
          /\ \E to \in {"cp_root", "cp_leaves", "cp_save", "proof", "idle", OnError(p)} :
                pc' = [pc EXCEPT ![p] = to]
      BY <2>7, Zenon DEF CheckpointSize, CheckpointRoot, CheckpointLeaves, SaveCheckpoint
    <3> QED
      BY <2>1, <3>1
  <2> QED
    BY <2>2, <2>3, <2>4, <2>5, <2>6, <2>7 DEF LogStep
<1>4. \A o \in Orders : pc'[o] \in Beginning => pc[o] \in Beginning
  BY <1>1, <1>3 DEF Beginning
<1>5. Appended(Watcher) => Appended(Watcher)' /\ batch'[Watcher] = batch[Watcher]
  <2>1. CASE p = Watcher
    BY <1>1, <1>3, <2>1 DEF Appended
  <2>2. CASE p # Watcher
    BY <1>1, <1>3, <2>2 DEF Appended
  <2> QED
    BY <2>1, <2>2
<1>6. ~Appending(Watcher)' \/ (Appending(Watcher) /\ batch'[Watcher] = batch[Watcher])
  <2>1. CASE p = Watcher
    BY <1>1, <1>3, <2>1 DEF Appending, Appended
  <2>2. CASE p # Watcher
    BY <1>1, <1>3, <2>2 DEF Appending, Appended
  <2> QED
    BY <2>1, <2>2
<1> QED
  BY <1>2, <1>4, <1>5, <1>6, OnceQuiet

\* Rows are added at the end that are not in the log yet and differ from each other.
LEMMA OnceRows ==
    ASSUME LogShape, LoggedOnce, NEW s \in Nat, NEW b \in Seq(Entry), Len(b) > 0,
           0..(s - 1) \subseteq DOMAIN log_entries,
           DOMAIN RowsAt(s, b) \cap DOMAIN log_entries = {},
           log_entries' = Upsert(log_entries, RowsAt(s, b)),
           \A i \in 1..Len(b) : ~Logged(b[i]),
           \A i, j \in 1..Len(b) : b[i] = b[j] => i = j
    PROVE  /\ LoggedOnce'
           /\ \A e : Logged(e)' => Logged(e) \/ \E i \in 1..Len(b) : e = b[i]
<1>1. /\ DOMAIN log_entries' = 0..(s + Len(b) - 1)
      /\ \A i \in DOMAIN log_entries : i \in DOMAIN log_entries' /\ log_entries'[i] = log_entries[i]
      /\ \A i \in 1..Len(b) : log_entries'[s + i - 1] = b[i]
  BY RowsAppended
<1>2. s = TreeSize /\ DOMAIN log_entries = 0..(s - 1)
  <2>1. s = TreeSize
    BY RowsAppended
  <2> QED
    BY <2>1 DEF LogShape
<1>3. ASSUME NEW i \in DOMAIN log_entries', i \notin DOMAIN log_entries
      PROVE  i - s + 1 \in 1..Len(b) /\ log_entries'[i] = b[i - s + 1]
  <2>1. i \in Int /\ i - s + 1 \in 1..Len(b) /\ s + (i - s + 1) - 1 = i
    BY <1>1, <1>2, <1>3
  <2> QED
    BY <1>1, <2>1
<1>4. ASSUME NEW e, Logged(e)' PROVE Logged(e) \/ \E i \in 1..Len(b) : e = b[i]
  <2>1. PICK i \in DOMAIN log_entries' : log_entries'[i] = e
    BY <1>4 DEF Logged
  <2>2. CASE i \in DOMAIN log_entries
    BY <1>1, <2>1, <2>2 DEF Logged
  <2>3. CASE i \notin DOMAIN log_entries
    BY <1>3, <2>1, <2>3
  <2> QED
    BY <2>2, <2>3
<1>5. ASSUME NEW i \in DOMAIN log_entries', NEW j \in DOMAIN log_entries', log_entries'[i] = log_entries'[j]
      PROVE  i = j
  <2>1. CASE i \in DOMAIN log_entries /\ j \in DOMAIN log_entries
    BY <1>1, <1>5, <2>1 DEF LoggedOnce
  <2>2. CASE i \in DOMAIN log_entries /\ j \notin DOMAIN log_entries
    BY <1>1, <1>3, <1>5, <2>2 DEF Logged
  <2>3. CASE i \notin DOMAIN log_entries /\ j \in DOMAIN log_entries
    BY <1>1, <1>3, <1>5, <2>3, SMTT(30) DEF Logged
  <2>4. CASE i \notin DOMAIN log_entries /\ j \notin DOMAIN log_entries
    <3>1. i - s + 1 = j - s + 1
      BY <1>3, <1>5, <2>4
    <3> QED
      BY <1>1, <3>1
  <2> QED
    BY <2>1, <2>2, <2>3, <2>4
<1> QED
  BY <1>4, <1>5 DEF LoggedOnce

\* The entries of certificates, of orders and the null entry are different.
LEMMA EntriesDiffer ==
    /\ \A k \in Nat, m \in Nat : CertEntry(k) = CertEntry(m) => k = m
    /\ \A o, q : DirectEntry(o) = DirectEntry(q) => o = q
    /\ \A k, o : CertEntry(k) # DirectEntry(o)
    /\ \A k : NullEntry # CertEntry(k)
    /\ \A o : NullEntry # DirectEntry(o)
<1>1. ASSUME NEW k \in Nat, NEW m \in Nat, CertEntry(k) = CertEntry(m) PROVE k = m
  <2>1. <<"cert", k>> = <<"cert", m>>
    BY <1>1 DEF CertEntry
  <2> QED
    BY <2>1
<1>2. ASSUME NEW o, NEW q, DirectEntry(o) = DirectEntry(q) PROVE o = q
  <2>1. <<"order", o>> = <<"order", q>>
    BY <1>2 DEF DirectEntry
  <2> QED
    BY <2>1
<1>3. \A k : CertEntry(k).entry_type = 1
  BY DEF CertEntry
<1>4. \A o : DirectEntry(o).entry_type = 3
  BY DEF DirectEntry
<1>5. NullEntry.entry_type = 0
  BY DEF NullEntry
<1> QED
  BY <1>1, <1>2, <1>3, <1>4, <1>5

\* The transaction of AppendEntries, by the watcher and by an order.
LEMMA OnceAppend ==
    ASSUME IInv, OnceInv, faults = 0, NEW p \in Procs, AppendEntries(p)
    PROVE  OnceInv'
<1>1. /\ pc[p] = "append" /\ pc' = [pc EXCEPT ![p] = "leaf"]
      /\ UNCHANGED <<batch, cursor, faults>>
      /\ batch[p] \in Seq(Entry) /\ base[p] \in Nat /\ cursor \in 0..NumCerts /\ NumCerts \in Nat
      /\ pc \in [Procs -> Steps] /\ Watcher \in Procs /\ Orders \subseteq Procs /\ Watcher \notin Orders
  BY BoundsAssumption, ProcsAssumption DEF AppendEntries, Goto, IInv, TypeOK, Procs
<1>2. /\ LogShape /\ LoggedOnce /\ 0..(base[p] - 1) \subseteq DOMAIN log_entries
      /\ DOMAIN RowsAt(base[p], batch[p]) \cap DOMAIN log_entries = {}
      /\ log_entries' = Upsert(log_entries, RowsAt(base[p], batch[p]))
  BY <1>1 DEF IInv, TableInv, LocalInv, SizeRead, OnceInv, AppendEntries
<1>3. /\ \A o \in Orders : pc[o] \in Beginning => ~Logged(DirectEntry(o))
      /\ \A k \in 1..NumCerts : (Logged(CertEntry(k)) /\ k > cursor)
                                   => Appended(Watcher) /\ k <= cursor + Len(batch[Watcher])
      /\ Appending(Watcher) => \A i \in 1..Len(batch[Watcher]) : batch[Watcher][i] = CertEntry(cursor + i)
  BY DEF OnceInv, Beginning
<1>4. pc'[p] = "leaf" /\ \A q \in Procs \ {p} : pc'[q] = pc[q]
  BY <1>1
<1>5. CASE p = Watcher
  <2> DEFINE b == batch[Watcher]
  <2>1. Appending(Watcher) /\ ~Appended(Watcher)
    BY <1>1, <1>5 DEF Appending, Appended
  <2>2. PICK a \in 0..NumCerts, n \in 1..NumCerts :
            b = [i \in 1..n |-> CertEntry(a + i)] /\ a + n <= NumCerts
    BY <1>1, <1>5, <2>1 DEF IInv, LocalInv, BatchKind
  <2>3. Len(b) = n /\ \A i \in 1..n : b[i] = CertEntry(cursor + i) /\ b[i] = CertEntry(a + i)
    BY <1>3, <2>1, <2>2
  <2> HIDE DEF b
  <2>4. a = cursor
    <3>1. CertEntry(cursor + 1) = CertEntry(a + 1)
      BY <2>3
    <3> QED
      BY <1>1, <3>1, EntriesDiffer
  <2>5. ASSUME NEW i \in 1..n PROVE ~Logged(b[i])
    <3>1. cursor + i \in 1..NumCerts /\ cursor + i > cursor
      BY <1>1, <2>2, <2>4
    <3> QED
      BY <1>3, <2>1, <2>3, <3>1
  <2>6. ASSUME NEW i \in 1..n, NEW j \in 1..n, b[i] = b[j] PROVE i = j
    <3>1. cursor + i = cursor + j
      BY <1>1, <2>3, <2>6, EntriesDiffer, SMTT(30)
    <3> QED
      BY <1>1, <3>1
  <2>7. /\ LoggedOnce'
        /\ \A e : Logged(e)' => Logged(e) \/ \E i \in 1..n : e = b[i]
    <3>1. b \in Seq(Entry) /\ Len(b) > 0
      BY <1>1, <1>5, <2>3 DEF b
    <3> QED
      BY <1>1, <1>2, <1>5, <2>3, <2>5, <2>6, <3>1, OnceRows, ZenonT(30) DEF b
  <2>8. ASSUME NEW o \in Orders, pc'[o] \in Beginning PROVE ~Logged(DirectEntry(o))'
    <3>1. pc'[o] = pc[o] /\ ~Logged(DirectEntry(o))
      BY <1>1, <1>3, <1>4, <1>5, <2>8
    <3>2. \A i \in 1..n : DirectEntry(o) # b[i]
      BY <2>3, EntriesDiffer
    <3> QED
      BY <2>7, <3>1, <3>2 DEF DirectEntry
  <2>9. ASSUME NEW k \in 1..NumCerts, Logged(CertEntry(k))', k > cursor
        PROVE  k <= cursor + n
    <3>1. ~Logged(CertEntry(k))
      BY <1>3, <2>1, <2>9
    <3>2. PICK i \in 1..n : CertEntry(k) = b[i]
      BY <2>7, <2>9, <3>1 DEF CertEntry
    <3>3. k = cursor + i
      BY <1>1, <2>3, <3>2, EntriesDiffer
    <3> QED
      BY <1>1, <3>3
  <2>10. Appended(Watcher)'
    BY <1>4, <1>5 DEF Appended
  <2> QED
    BY <1>1, <1>3, <2>1, <2>3, <2>7, <2>8, <2>9, <2>10 DEF OnceInv, Beginning, b, CertEntry
<1>6. CASE p # Watcher
  <2>1. p \in Orders /\ batch[p] = <<DirectEntry(p)>> /\ ~Logged(DirectEntry(p))
    BY <1>1, <1>3, <1>6 DEF Procs, Beginning, IInv, LocalInv, BatchKind, Appending
  <2>2. /\ LoggedOnce'
        /\ \A e : Logged(e)' => Logged(e) \/ e = DirectEntry(p)
    <3>1. Len(batch[p]) = 1 /\ batch[p][1] = DirectEntry(p)
      BY <2>1
    <3>2. /\ Len(batch[p]) > 0
          /\ \A i \in 1..Len(batch[p]) : ~Logged(batch[p][i])
          /\ \A i, j \in 1..Len(batch[p]) : batch[p][i] = batch[p][j] => i = j
      BY <2>1, <3>1
    <3>3. LoggedOnce' /\ \A e : Logged(e)' => Logged(e) \/ \E i \in 1..Len(batch[p]) : e = batch[p][i]
      BY <1>1, <1>2, <3>2, OnceRows
    <3> QED
      BY <3>1, <3>3
  <2>3. ASSUME NEW o \in Orders, pc'[o] \in Beginning PROVE ~Logged(DirectEntry(o))'
    <3>1. o # p /\ pc'[o] = pc[o]
      BY <1>1, <1>4, <2>3 DEF Beginning
    <3>2. ~Logged(DirectEntry(o)) /\ DirectEntry(o) # DirectEntry(p)
      BY <1>3, <2>3, <3>1, EntriesDiffer
    <3> QED
      BY <2>2, <3>2 DEF DirectEntry
  <2>4. ASSUME NEW k \in 1..NumCerts, Logged(CertEntry(k))', k > cursor
        PROVE  Appended(Watcher) /\ k <= cursor + Len(batch[Watcher])
    <3>1. Logged(CertEntry(k))
      BY <2>2, <2>4, EntriesDiffer DEF CertEntry
    <3> QED
      BY <1>3, <2>4, <3>1
  <2>5. pc'[Watcher] = pc[Watcher]
    BY <1>1, <1>4, <1>6
  <2>6. (Appended(Watcher)' <=> Appended(Watcher)) /\ (Appending(Watcher)' <=> Appending(Watcher))
    BY <2>5 DEF Appended, Appending
  <2> QED
    BY <1>1, <1>3, <2>2, <2>3, <2>4, <2>6 DEF OnceInv, Beginning, CertEntry
<1> QED
  BY <1>5, <1>6

\* Log.Initialize, into an empty log.
LEMMA OnceInitialize ==
    ASSUME IInv, OnceInv, faults = 0, Initialize
    PROVE  OnceInv'
<1>1. /\ pc \in [Procs -> Steps] /\ Watcher \in Procs /\ Orders \subseteq Procs /\ Watcher \notin Orders
  BY ProcsAssumption DEF IInv, TypeOK, Procs
<1>2. /\ pc[Watcher] \in {"init_size", "init_append", "init_leaf"}
      /\ UNCHANGED <<cursor, batch, faults>>
      /\ \E to \in {"poll", "init_append", "dead", "init_leaf"} : pc' = [pc EXCEPT ![Watcher] = to]
  BY Zenon DEF Initialize, InitializeSize, InitializeAppend, InitializeLeaf, Goto, OnError, tables
<1>3. /\ ~Appending(Watcher)' /\ ~Appended(Watcher) /\ ~Appended(Watcher)'
      /\ \A o \in Orders : pc'[o] = pc[o]
  BY <1>1, <1>2 DEF Appending, Appended
<1>4. CASE log_entries' = log_entries
  BY <1>2, <1>3, <1>4, OnceQuiet
<1>5. CASE log_entries' # log_entries
  <2> DEFINE b == <<NullEntry>>
  <2>1. 0 \notin DOMAIN log_entries /\ log_entries' = Upsert(log_entries, RowsAt(0, b))
    BY <1>5 DEF Initialize, InitializeSize, InitializeAppend, InitializeLeaf, tables
  <2>2. b \in Seq(Entry) /\ Len(b) = 1 /\ b[1] = NullEntry /\ DOMAIN RowsAt(0, b) = {0}
    BY DEF NullEntry, Entry, RowsAt
  <2>3. LogShape /\ LoggedOnce
    BY DEF IInv, TableInv, OnceInv
  <2>4. DOMAIN log_entries = {}
    BY <2>1, <2>3 DEF LogShape
  <2>5. \A e : ~Logged(e)
    BY <2>4 DEF Logged
  <2> HIDE DEF b
  <2>6. LoggedOnce' /\ \A e : Logged(e)' => Logged(e) \/ \E i \in 1..Len(b) : e = b[i]
    <3>1. /\ 0..(0 - 1) \subseteq DOMAIN log_entries /\ DOMAIN RowsAt(0, b) \cap DOMAIN log_entries = {}
          /\ \A i \in 1..Len(b) : ~Logged(b[i])
          /\ \A i, j \in 1..Len(b) : b[i] = b[j] => i = j
      BY <2>2, <2>4, <2>5
    <3> QED
      BY <2>1, <2>2, <2>3, <3>1, OnceRows
  <2>7. \A e : Logged(e)' => e = NullEntry
    BY <2>2, <2>5, <2>6
  <2>8. \A o : ~Logged(DirectEntry(o))'
    BY <2>7, EntriesDiffer DEF DirectEntry
  <2>9. \A k : ~Logged(CertEntry(k))'
    BY <2>7, EntriesDiffer DEF CertEntry
  <2> QED
    BY <1>3, <2>6, <2>8, <2>9 DEF OnceInv
<1> QED
  BY <1>4, <1>5

\* pollCertificates before and after the append.
LEMMA OnceWatcher ==
    ASSUME IInv, OnceInv, faults = 0, faults' = 0, PollCertificates \/ UpdateWatcherCursor
    PROVE  OnceInv'
<1>1. /\ pc \in [Procs -> Steps] /\ Watcher \in Procs /\ Orders \subseteq Procs /\ Watcher \notin Orders
      /\ batch \in [Procs -> Seq(Entry)] /\ cursor \in 0..NumCerts /\ NumCerts \in Nat
  BY ProcsAssumption, BoundsAssumption DEF IInv, TypeOK, Procs
<1>2. CASE PollCertificates
  <2>1. /\ pc[Watcher] \in {"poll", "idle"} /\ log_entries' = log_entries /\ cursor' = cursor
        /\ \E to \in {"idle", "size"} : pc' = [pc EXCEPT ![Watcher] = to]
    BY <1>2, Zenon DEF PollCertificates, Goto, tables
  <2>2. ~Appended(Watcher) /\ \A o \in Orders : pc'[o] = pc[o]
    BY <1>1, <2>1 DEF Appended
  <2>3. PICK lost \in BOOLEAN :
          /\ LET certs == FetchNewCertificates(IF lost THEN 0 ELSE cursor)
             IN  IF certs = <<>>
                 THEN Goto(Watcher, "idle") /\ UNCHANGED batch
                 ELSE /\ batch' = [batch EXCEPT ![Watcher] = certs]
                      /\ Goto(Watcher, "size")
          /\ faults' = IF lost THEN faults + 1 ELSE faults
    BY <1>2 DEF PollCertificates
  <2>4. ~lost
    BY <2>3
  <2> DEFINE certs == FetchNewCertificates(cursor)
  <2>5. IF certs = <<>> THEN pc' = [pc EXCEPT ![Watcher] = "idle"]
                        ELSE batch' = [batch EXCEPT ![Watcher] = certs]
    BY <2>3, <2>4 DEF Goto
  <2>6. CASE certs = <<>>
    <3>1. ~Appending(Watcher)'
      BY <1>1, <2>5, <2>6 DEF Appending, Appended
    <3> QED
      BY <2>1, <2>2, <3>1, OnceQuiet
  <2>7. CASE certs # <<>>
    <3>1. PICK n \in 1..NumCerts : certs = [i \in 1..n |-> CertEntry(cursor + i)]
      BY <1>1, <2>7, FetchedCerts DEF IInv
    <3> HIDE DEF certs
    <3>2. batch'[Watcher] = [i \in 1..n |-> CertEntry(cursor + i)]
      BY <1>1, <2>5, <2>7, <3>1
    <3>3. \A i \in 1..Len(batch'[Watcher]) : batch'[Watcher][i] = CertEntry(cursor + i)
      BY <3>2
    <3> QED
      BY <2>1, <2>2, <3>3, OnceQuiet
  <2> QED
    BY <2>6, <2>7
<1>3. CASE UpdateWatcherCursor
  <2>1. /\ pc[Watcher] = "cursor" /\ pc' = [pc EXCEPT ![Watcher] = "idle"]
        /\ log_entries' = log_entries
        /\ cursor' = batch[Watcher][Len(batch[Watcher])].entry_data[2]
    BY <1>3 DEF UpdateWatcherCursor, Return, Goto
  <2>2. Appended(Watcher) /\ Appending(Watcher) /\ ~Appended(Watcher)' /\ ~Appending(Watcher)'
    BY <1>1, <2>1 DEF Appended, Appending
  <2>3. PICK a \in 0..NumCerts, n \in 1..NumCerts : batch[Watcher] = [i \in 1..n |-> CertEntry(a + i)]
    BY <1>1, <2>2 DEF IInv, LocalInv, BatchKind
  <2>4. Len(batch[Watcher]) = n /\ batch[Watcher][n] = CertEntry(cursor + n)
    <3>1. Len(batch[Watcher]) = n /\ n \in 1..n
      BY <2>3
    <3> QED
      BY <2>2, <3>1 DEF OnceInv
  <2>5. cursor' = cursor + n
    BY <2>1, <2>4 DEF CertEntry
  <2>6. ASSUME NEW k \in 1..NumCerts, Logged(CertEntry(k))' PROVE ~(k > cursor')
    <3>1. Logged(CertEntry(k))
      BY <2>1, <2>6 DEF Logged, CertEntry
    <3>2. k > cursor => k <= cursor + n
      BY <2>4, <3>1 DEF OnceInv
    <3> QED
      BY <1>1, <2>5, <3>2
  <2>7. \A o \in Orders : pc'[o] = pc[o]
    BY <1>1, <2>1
  <2>8. LoggedOnce' /\ \A o \in Orders : pc'[o] \in Beginning => ~Logged(DirectEntry(o))'
    BY <2>1, <2>7 DEF OnceInv, LoggedOnce, Logged, DirectEntry, Beginning
  <2> QED
    BY <2>2, <2>6, <2>8 DEF OnceInv, Beginning, CertEntry
<1> QED
  BY <1>2, <1>3

\* The steps of an order around its append, the CA and the ticker.
LEMMA OnceOthers ==
    ASSUME IInv, OnceInv, faults = 0,
           \/ \E o \in Orders : StartFinalize(o) \/ BuildProof(o) \/ StoreCert(o)
           \/ CAIssue \/ CheckpointTick \/ UNCHANGED vars
    PROVE  OnceInv'
<1>1. /\ pc \in [Procs -> Steps] /\ Watcher \in Procs /\ Orders \subseteq Procs /\ Watcher \notin Orders
      /\ batch \in [Procs -> Seq(Entry)]
  BY ProcsAssumption DEF IInv, TypeOK, Procs
<1>2. log_entries' = log_entries /\ cursor' = cursor
  BY Zenon DEF StartFinalize, BuildProof, StoreCert, CAIssue, CheckpointTick, vars, tables
<1>3. ASSUME NEW o \in Orders, StartFinalize(o) \/ BuildProof(o) \/ StoreCert(o) PROVE OnceInv'
  <2>1. /\ \E to \in {"size", "store", "done"} :
             pc' = [pc EXCEPT ![o] = to] /\ (to = "size" => pc[o] = "start")
        /\ \E b : batch' = [batch EXCEPT ![o] = b]
    <3>1. CASE StartFinalize(o)
      BY <3>1, Zenon DEF StartFinalize, Goto
    <3>2. CASE BuildProof(o)
      <4>1. pc' = [pc EXCEPT ![o] = "store"] /\ batch' = batch
        BY <3>2 DEF BuildProof, Goto
      <4>2. batch' = [batch EXCEPT ![o] = batch[o]]
        BY <1>1, <4>1
      <4> QED
        BY <4>1, <4>2
    <3>3. CASE StoreCert(o)
      <4>1. pc' = [pc EXCEPT ![o] = "done"] /\ batch' = [batch EXCEPT ![o] = NoBatch]
        BY <3>3 DEF StoreCert, Return, Goto, Reset
      <4> QED
        BY <4>1
    <3> QED
      BY <1>3, <3>1, <3>2, <3>3
  <2>2. pc'[Watcher] = pc[Watcher] /\ batch'[Watcher] = batch[Watcher]
    BY <1>1, <2>1
  <2>3. \A q \in Orders : pc'[q] \in Beginning => pc[q] \in Beginning
    BY <1>1, <2>1 DEF Beginning
  <2>4. (Appended(Watcher)' <=> Appended(Watcher)) /\ (Appending(Watcher)' <=> Appending(Watcher))
    BY <2>2 DEF Appended, Appending
  <2> QED
    BY <1>2, <2>2, <2>3, <2>4, OnceQuiet
<1>4. CASE CAIssue \/ CheckpointTick \/ UNCHANGED vars
  <2>1. /\ batch' = batch
        /\ pc' = pc \/ (pc[Watcher] = "idle" /\ pc' = [pc EXCEPT ![Watcher] = "cp_size"])
    BY <1>4 DEF CAIssue, CheckpointTick, vars, locals, Goto
  <2>2. \A o \in Orders : pc'[o] = pc[o]
    BY <1>1, <2>1
  <2>3. (Appended(Watcher)' <=> Appended(Watcher)) /\ (Appending(Watcher)' <=> Appending(Watcher))
    BY <1>1, <2>1 DEF Appended, Appending
  <2> QED
    BY <1>2, <2>1, <2>2, <2>3, OnceQuiet
<1> QED
  BY <1>3, <1>4

\* OnceInv is inductive relative to IInv.
LEMMA NextOnce == IInv /\ OnceInv /\ [Next]_vars => OnceInv'
<1> SUFFICES ASSUME IInv, OnceInv, [Next]_vars, faults' = 0 PROVE OnceInv'
  BY DEF OnceInv
<1>1. faults \in Nat
  BY BoundsAssumption DEF IInv, TypeOK
<1>2. ASSUME NEW p \in Procs PROVE ~(LostRead(p) \/ Fault(p))
  <2>1. LostRead(p) \/ Fault(p) => faults' = faults + 1
    BY Zenon DEF LostRead, Fault
  <2> QED
    BY <1>1, <2>1
<1>3. ~Crash
  BY <1>1 DEF Crash
<1>4. ASSUME NEW p \in Procs, LogStep(p) PROVE OnceInv'
  <2>1. faults = 0
    <3>1. faults' = faults \/ faults' = faults + 1
      BY <1>4, Zenon DEF LogStep, ReadSize, AppendEntries, AppendConflict, SetLeaves, ReadChild,
         SetLevel, CheckpointSize, CheckpointRoot, CheckpointLeaves, SaveCheckpoint
    <3> QED
      BY <1>1, <3>1
  <2> QED
    BY <1>4, <2>1, OnceLogStep, OnceAppend
<1>5. CASE WatcherStep
  <2>1. Initialize \/ UpdateWatcherCursor => faults' = faults
    BY DEF Initialize, InitializeSize, InitializeAppend, InitializeLeaf, UpdateWatcherCursor
  <2> QED
    BY <1>4, <1>5, <2>1, OnceInitialize, OnceWatcher DEF WatcherStep, Procs
<1>6. CASE PollCertificates
  <2>1. faults' = faults \/ faults' = faults + 1
    BY <1>6, Zenon DEF PollCertificates
  <2> QED
    BY <1>1, <1>6, <2>1, OnceWatcher
<1>7. ASSUME NEW o \in Orders, StartFinalize(o) \/ OrderStep(o) PROVE OnceInv'
  <2>1. CASE LogStep(o)
    BY <1>4, <2>1 DEF Procs
  <2>2. CASE StartFinalize(o) \/ BuildProof(o) \/ StoreCert(o)
    <3>1. faults = 0
      <4>1. CASE BuildProof(o)
        <5>1. PICK lost \in Unread : faults' = faults + Cardinality(lost)
          BY <4>1 DEF BuildProof
        <5>2. Cardinality(lost) \in Nat
          <6>1. lost = {} \/ \E x : lost = {x}
            BY <5>1 DEF Unread
          <6>2. lost = {} => Cardinality(lost) = 0
            BY FS_EmptySet
          <6>3. ASSUME NEW x, lost = {x} PROVE Cardinality(lost) = 1
            BY <6>3, FS_Singleton
          <6> QED
            BY <6>1, <6>2, <6>3
        <5> QED
          BY <1>1, <5>1, <5>2
      <4>2. CASE StartFinalize(o) \/ StoreCert(o)
        BY <4>2 DEF StartFinalize, StoreCert
      <4> QED
        BY <2>2, <4>1, <4>2
    <3> QED
      BY <2>2, <3>1, OnceOthers
  <2> QED
    BY <1>7, <2>1, <2>2 DEF OrderStep
<1>8. CASE CAIssue \/ CheckpointTick \/ UNCHANGED vars
  <2>1. faults' = faults
    BY <1>8 DEF CAIssue, CheckpointTick, vars
  <2> QED
    BY <1>8, <2>1, OnceOthers
<1> QED
  BY <1>2, <1>3, <1>5, <1>6, <1>7, <1>8 DEF Next

\* As long as no store call has failed and the process has not died, no entry is in
\* the log twice: pollCertificates appends a certificate once although other
\* goroutines' appends make its own fail in between (watcher.go, pollCertificates).
THEOREM LoggedOnceUntilFault == Spec => [](faults = 0 => LoggedOnce)
<1>1. Init => OnceInv
  <2> SUFFICES ASSUME Init PROVE OnceInv
    OBVIOUS
  <2>1. DOMAIN log_entries = {}
    BY DEF Init
  <2>2. pc[Watcher] = "init_size"
    BY DEF Init, Procs
  <2>3. ~Appending(Watcher)
    BY <2>2 DEF Appending, Appended
  <2> QED
    BY <2>1, <2>3 DEF OnceInv, LoggedOnce, Logged
<1>2. IInv /\ OnceInv /\ [Next]_vars => OnceInv'
  BY NextOnce
<1>3. OnceInv => (faults = 0 => LoggedOnce)
  BY DEF OnceInv
<1> QED
  BY <1>1, <1>2, <1>3, Inductive, PTL DEF Spec

-----------------------------------------------------------------------------
(* Tiles that are served as immutable.                                     *)

\* No row of tree_nodes is ever deleted.
LEMMA NodesStay == [Next]_vars => DOMAIN tree_nodes \subseteq DOMAIN tree_nodes'
<1> SUFFICES ASSUME [Next]_vars PROVE DOMAIN tree_nodes \subseteq DOMAIN tree_nodes'
  OBVIOUS
<1>1. ASSUME NEW rows, tree_nodes' = Upsert(tree_nodes, rows)
      PROVE  DOMAIN tree_nodes \subseteq DOMAIN tree_nodes'
  BY <1>1 DEF Upsert
<1>2. ASSUME NEW p \in Procs, LogStep(p)
      PROVE  tree_nodes' = tree_nodes \/ \E rows : tree_nodes' = Upsert(tree_nodes, rows)
  BY <1>2, Zenon DEF LogStep, ReadSize, AppendEntries, AppendConflict, SetLeaves, ReadChild, ReadLeft,
     ReadRight, SetLevel, CheckpointSize, CheckpointRoot, CheckpointLeaves, SaveCheckpoint, tables
<1>3. CASE WatcherStep
  <2>1. CASE Initialize \/ UpdateWatcherCursor
    BY <1>1, <2>1, Zenon DEF Initialize, InitializeSize, InitializeAppend, InitializeLeaf, UpdateWatcherCursor, tables
  <2>2. CASE LogStep(Watcher)
    BY <1>1, <1>2, <2>2 DEF Procs
  <2> QED
    BY <1>3, <2>1, <2>2 DEF WatcherStep
<1>4. ASSUME NEW o \in Orders, StartFinalize(o) \/ OrderStep(o)
      PROVE  DOMAIN tree_nodes \subseteq DOMAIN tree_nodes'
  <2>1. CASE LogStep(o)
    BY <1>1, <1>2, <2>1 DEF Procs
  <2>2. CASE StartFinalize(o) \/ BuildProof(o) \/ StoreCert(o)
    BY <2>2, Zenon DEF StartFinalize, BuildProof, StoreCert, tables
  <2> QED
    BY <1>4, <2>1, <2>2 DEF OrderStep
<1>5. ASSUME NEW p \in Procs, LostRead(p) \/ Fault(p) PROVE tree_nodes' = tree_nodes
  BY <1>5, Zenon DEF LostRead, ReadLeft, ReadRight, Fault, tables
<1>6. CASE CAIssue \/ PollCertificates \/ CheckpointTick \/ Crash \/ UNCHANGED vars
  BY <1>6, Zenon DEF CAIssue, PollCertificates, CheckpointTick, Crash, vars, tables
<1> QED
  BY <1>3, <1>4, <1>5, <1>6 DEF Next

\* Entries that were there stay where they are.
LEMMA LogStays ==
    ASSUME IInv, [Next]_vars
    PROVE  /\ TreeSize \in Nat /\ TreeSize' \in Nat /\ TreeSize <= TreeSize'
           /\ \A i \in 0..(TreeSize - 1) : i \in DOMAIN log_entries /\ log_entries'[i] = log_entries[i]
<1>1. IInv'
  BY NextIInv
<1>2. LogShape /\ LogShape'
  BY <1>1 DEF IInv, TableInv
<1>3. [Abstract!AppendBatch]_log_entries
  BY NextAppendBatch
<1>4. \A i \in DOMAIN log_entries : i \in DOMAIN log_entries' /\ log_entries'[i] = log_entries[i]
  BY <1>3 DEF Abstract!AppendBatch
<1>5. /\ TreeSize \in Nat /\ DOMAIN log_entries = 0..(TreeSize - 1)
      /\ TreeSize' \in Nat /\ DOMAIN log_entries' = 0..(TreeSize' - 1)
  BY <1>2 DEF LogShape
<1>6. TreeSize <= TreeSize'
  <2>1. TreeSize # 0 => TreeSize - 1 \in DOMAIN log_entries
    BY <1>5
  <2> QED
    BY <1>4, <1>5, <2>1
<1> QED
  BY <1>4, <1>5, <1>6

\* What the immutable field of an answer says.
LEMMA ImmutableField ==
    ASSUME NEW b, NEW x, NEW y, [body |-> b, immutable |-> (x = y)].immutable
    PROVE  x = y
<1>1. SUFFICES ASSUME x # y PROVE FALSE
  OBVIOUS
<1>2. [body |-> b, immutable |-> (x = y)] = [body |-> b, immutable |-> FALSE]
  BY <1>1
<1> QED
  BY <1>2

\* A full tile of entries.
LEMMA EntryTileStays ==
    ASSUME IInv, [Next]_vars, NEW n \in Nat, handleEntryTile(n).immutable
    PROVE  handleEntryTile(n)' = handleEntryTile(n)
<1> DEFINE start == n * TileWidth
           body == [i \in 1..TileWidth |-> log_entries[start + i - 1].entry_data]
<1>1. TileWidth \in Nat \ {0} /\ start \in Nat
  BY TileAssumption
<1>2. /\ TreeSize \in Nat /\ TreeSize' \in Nat /\ TreeSize <= TreeSize'
      /\ \A i \in 0..(TreeSize - 1) : log_entries'[i] = log_entries[i]
  BY LogStays
<1> HIDE DEF start
<1>3. start + TileWidth <= TreeSize
  <2>1. start < TreeSize
    BY <1>1, <1>2 DEF handleEntryTile, NotFound, start
  <2> DEFINE end == IF start + TileWidth > TreeSize THEN TreeSize ELSE start + TileWidth
             tile == [i \in 1..(end - start) |-> log_entries[start + i - 1].entry_data]
  <2>2. end - start = TileWidth
    <3>1. ~(start >= TreeSize)
      BY <1>1, <1>2, <2>1
    <3>2. handleEntryTile(n) = [body |-> tile, immutable |-> end - start = TileWidth]
      BY <3>1 DEF handleEntryTile, start
    <3> HIDE DEF end, tile
    <3> QED
      BY <3>2, ImmutableField
  <2> QED
    BY <1>1, <1>2, <2>1, <2>2
<1>4. handleEntryTile(n) = [body |-> body, immutable |-> TRUE]
  <2>1. /\ ~(start >= TreeSize) /\ ~(start + TileWidth > TreeSize)
        /\ (start + TileWidth) - start = TileWidth
    BY <1>1, <1>2, <1>3
  <2> QED
    BY <2>1 DEF handleEntryTile, start
<1>5. handleEntryTile(n)' = [body |-> [i \in 1..TileWidth |-> log_entries'[start + i - 1].entry_data],
                             immutable |-> TRUE]
  <2>1. /\ ~(start >= TreeSize') /\ ~(start + TileWidth > TreeSize')
        /\ (start + TileWidth) - start = TileWidth
    BY <1>1, <1>2, <1>3
  <2> QED
    BY <2>1 DEF handleEntryTile, start
<1>6. \A i \in 1..TileWidth : log_entries'[start + i - 1] = log_entries[start + i - 1]
  <2>1. \A i \in 1..TileWidth : start + i - 1 \in 0..(TreeSize - 1)
    BY <1>1, <1>2, <1>3
  <2> QED
    BY <1>2, <2>1
<1> QED
  BY <1>4, <1>5, <1>6

\* The rows of a full leaf tile are all there.
LEMMA FullTile ==
    ASSUME TileWidth \in Nat \ {0}, NEW nodes, NEW start \in Nat, NEW count \in Nat, count <= TileWidth,
           Cardinality({i \in 1..count : <<0, start + i - 1>> \in DOMAIN nodes}) = TileWidth
    PROVE  count = TileWidth /\ \A i \in 1..TileWidth : <<0, start + i - 1>> \in DOMAIN nodes
<1> DEFINE found == {i \in 1..count : <<0, start + i - 1>> \in DOMAIN nodes}
<1>1. IsFiniteSet(1..count) /\ Cardinality(1..count) = count
  BY FS_Interval
<1>2. found \in SUBSET (1..count)
  OBVIOUS
<1>3. Cardinality(found) = TileWidth
  OBVIOUS
<1> HIDE DEF found
<1>4. /\ Cardinality(found) <= count
      /\ Cardinality(1..count) = Cardinality(found) => 1..count = found
  BY <1>1, <1>2, FS_Subset
<1>5. count = TileWidth
  BY <1>3, <1>4
<1>6. found = 1..TileWidth
  BY <1>1, <1>3, <1>4, <1>5
<1> QED
  BY <1>5, <1>6 DEF found

\* A full tile of leaf hashes.
LEMMA LeafTileStays ==
    ASSUME IInv, [Next]_vars, NEW n \in Nat, handleHashTile(0, n).immutable
    PROVE  handleHashTile(0, n)' = handleHashTile(0, n)
<1> DEFINE start == n * TileWidth
           Found(nodes, count) == {i \in 1..count : <<0, start + i - 1>> \in DOMAIN nodes}
           body == [i \in 1..TileWidth |-> nodeAt(tree_nodes, 0, start + i - 1)]
<1>1. TileWidth \in Nat \ {0} /\ start \in Nat
  BY TileAssumption
<1>2. TreeSize \in Nat /\ TreeSize' \in Nat /\ TreeSize <= TreeSize'
  BY LogStays
<1>3. Shift(TreeSize + 2^0 - 1, 0) = TreeSize /\ Shift(TreeSize' + 2^0 - 1, 0) = TreeSize'
  <2>1. 2^0 = 1
    OBVIOUS
  <2>2. ASSUME NEW m \in Nat PROVE Shift(m + 2^0 - 1, 0) = m
    <3>1. m + 1 - 1 = m /\ m \div 1 = m
      OBVIOUS
    <3> QED
      BY <2>1, <3>1 DEF Shift
  <2> QED
    BY <1>2, <2>2
<1> DEFINE Count(size) == IF start + TileWidth > size THEN size - start ELSE TileWidth
<1>4. start < TreeSize /\ Cardinality(Found(tree_nodes, Count(TreeSize))) = TileWidth
  <2>1. start < TreeSize
    BY <1>1, <1>2, <1>3 DEF handleHashTile, NotFound
  <2> DEFINE hashes == GetTileHashes(0, start, Count(TreeSize))
  <2>2. Len(hashes) = TileWidth
    <3>1. ~(start >= TreeSize)
      BY <1>1, <1>2, <2>1
    <3>2. handleHashTile(0, n) = [body |-> hashes, immutable |-> Len(hashes) = TileWidth]
      BY <1>3, <3>1 DEF handleHashTile
    <3> HIDE DEF hashes
    <3>3. [body |-> hashes, immutable |-> Len(hashes) = TileWidth].immutable
      BY <3>2, Zenon
    <3> QED
      BY <3>3, ImmutableField
  <2>3. Cardinality(Found(tree_nodes, Count(TreeSize))) \in Nat
    <3>0. Count(TreeSize) \in Int
      BY <1>1, <1>2
    <3>1. IsFiniteSet(1..Count(TreeSize))
      <4> HIDE DEF Count
      <4> QED
        BY <3>0, FS_Interval
    <3>2. IsFiniteSet(Found(tree_nodes, Count(TreeSize)))
      BY <3>1, FS_Subset
    <3> QED
      BY <3>2, FS_CardinalityType
  <2>4. Len(GetTileHashes(0, start, Count(TreeSize))) = Cardinality(Found(tree_nodes, Count(TreeSize)))
    BY <2>3 DEF GetTileHashes
  <2> QED
    BY <2>1, <2>2, <2>4
<1>5. Count(TreeSize) = TileWidth /\ \A i \in 1..TileWidth : <<0, start + i - 1>> \in DOMAIN tree_nodes
  <2>1. Count(TreeSize) \in Nat /\ Count(TreeSize) <= TileWidth
    BY <1>1, <1>2, <1>4
  <2> HIDE DEF Count, start
  <2> QED
    BY <1>1, <1>4, <2>1, FullTile
<1>6. Count(TreeSize') = TileWidth /\ start < TreeSize'
  <2> HIDE DEF start
  <2>1. start + TileWidth <= TreeSize
    <3>1. Count(TreeSize) = TileWidth
      BY <1>5
    <3> QED
      BY <1>1, <1>2, <3>1
  <2>2. start + TileWidth <= TreeSize'
    BY <1>1, <1>2, <2>1
  <2>3. ~(start + TileWidth > TreeSize') /\ start < TreeSize'
    BY <1>1, <1>2, <2>2
  <2> QED
    BY <2>3
<1>7. DOMAIN tree_nodes \subseteq DOMAIN tree_nodes'
  BY NodesStay
<1>8. ASSUME NEW i \in 1..TileWidth
      PROVE  nodeAt(tree_nodes', 0, start + i - 1) = nodeAt(tree_nodes, 0, start + i - 1)
  <2> DEFINE x == <<0, start + i - 1>>
  <2>1. x \in DOMAIN tree_nodes /\ x \in DOMAIN tree_nodes'
    BY <1>5, <1>7
  <2>2. LeavesMatchEntries /\ LeavesMatchEntries'
    BY NextIInv DEF IInv, TableInv
  <2>3. x[1] = 0 /\ x[2] = start + i - 1
    OBVIOUS
  <2> HIDE DEF x
  <2>4. /\ x[2] \in DOMAIN log_entries /\ tree_nodes[x] = LeafHash(log_entries[x[2]].entry_data)
        /\ tree_nodes'[x] = LeafHash(log_entries'[x[2]].entry_data)
    BY <2>1, <2>2, <2>3 DEF LeavesMatchEntries
  <2>5. log_entries'[x[2]] = log_entries[x[2]]
    <3>1. [Abstract!AppendBatch]_log_entries
      BY NextAppendBatch
    <3> QED
      BY <2>4, <3>1 DEF Abstract!AppendBatch
  <2>6. tree_nodes'[x] = tree_nodes[x]
    BY <2>4, <2>5
  <2> QED
    BY <2>1, <2>6 DEF nodeAt, x
<1>9. Found(tree_nodes, TileWidth) = 1..TileWidth /\ Found(tree_nodes', TileWidth) = 1..TileWidth
  <2> HIDE DEF start
  <2> QED
    BY <1>5, <1>7
<1>10. Cardinality(1..TileWidth) = TileWidth
  BY <1>1, FS_Interval
<1>11. GetTileHashes(0, start, TileWidth) = body
  BY <1>9, <1>10 DEF GetTileHashes
<1>12. GetTileHashes(0, start, TileWidth)' = [i \in 1..TileWidth |-> nodeAt(tree_nodes', 0, start + i - 1)]
  BY <1>9, <1>10 DEF GetTileHashes
<1>13. handleHashTile(0, n) = [body |-> body, immutable |-> Len(body) = TileWidth]
  <2>1. ~(start >= TreeSize)
    BY <1>1, <1>2, <1>4
  <2> QED
    BY <1>3, <1>5, <1>11, <2>1 DEF handleHashTile
<1>14. GetTileHashes(0, start, TileWidth)' = body
  BY <1>8, <1>12
<1>15. handleHashTile(0, n)' = [body |-> body, immutable |-> Len(body) = TileWidth]
  <2>1. ~(start >= TreeSize')
    BY <1>1, <1>2, <1>6
  <2> QED
    BY <1>3, <1>6, <1>14, <2>1 DEF handleHashTile
<1> QED
  BY <1>13, <1>15

\* A full tile of entries or of leaf hashes that the read API has served as immutable
\* is served the same for ever (tlogtiles/handler.go, handleEntryTile and
\* handleHashTile), whoever appends, whatever fails and wherever the process dies.
THEOREM TilesImmutable == Spec => LeafTilesImmutable
<1> DEFINE Served == \A n \in 0..TreeSize :
        /\ handleEntryTile(n).immutable => handleEntryTile(n)' = handleEntryTile(n)
        /\ handleHashTile(0, n).immutable => handleHashTile(0, n)' = handleHashTile(0, n)
<1>1. IInv /\ [Next]_vars => [Served]_vars
  <2> SUFFICES ASSUME IInv, [Next]_vars, NEW n \in 0..TreeSize
               PROVE  /\ handleEntryTile(n).immutable => handleEntryTile(n)' = handleEntryTile(n)
                      /\ handleHashTile(0, n).immutable => handleHashTile(0, n)' = handleHashTile(0, n)
    BY Zenon
  <2>1. n \in Nat
    BY DEF IInv, TableInv, LogShape
  <2> QED
    BY <2>1, EntryTileStays, LeafTileStays
<1>2. [][Served]_vars => LeafTilesImmutable
  BY DEF LeafTilesImmutable
<1> HIDE DEF Served
<1> QED
  BY <1>1, <1>2, Inductive, PTL DEF Spec
=============================================================================
