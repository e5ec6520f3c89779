-------------------------- MODULE StapledTLSProofs --------------------------
(***************************************************************************)
(* Proofs about RevocationFeed and StapledTLS, for any number of           *)
(* certificates, batch size and failures.  RevokedByCA and StapleInv are   *)
(* inductive: the tables of the CA and of the bridge only grow, so that    *)
(* what the watcher, the TLS server and its client read of them earlier    *)
(* still holds when they use it.                                           *)
(***************************************************************************)
EXTENDS StapledTLS, MerkleTreeProofs

-----------------------------------------------------------------------------
(* The watcher.                                                            *)

\* FetchNewCertificates returns certificates that are committed, as many as the
\* limit allows.
LEMMA FetchedCerts ==
    ASSUME RevokedByCA, NEW cur
    PROVE  LET certs == FetchNewCertificates(cur)
           IN  /\ certs \in Seq(Certs)
               /\ \A i \in 1..Len(certs) : certs[i] \in committed
<1> DEFINE new == {c \in committed : After(c, cur)}
           Nth(n) == CHOOSE c \in new : Cardinality({d \in new : d <= c}) = n
           count == IF Cardinality(new) < BatchSize THEN Cardinality(new) ELSE BatchSize
           certs == [n \in 1..count |-> Nth(n)]
<1>1. committed \subseteq Certs /\ NumCerts \in Nat /\ BatchSize \in Nat
  BY FeedAssumption DEF RevokedByCA, FeedTypeOK
<1>2. new \subseteq 0..NumCerts
  <2>1. committed \subseteq 0..NumCerts
    BY <1>1 DEF Certs
  <2> QED
    BY <2>1
<1>3. Cardinality(new) \in Nat
  <2> HIDE DEF new
  <2> QED
    BY <1>1, <1>2, BoundedFinite
<1>4. count \in Nat /\ 1..count \subseteq 1..Cardinality(new)
  <2> HIDE DEF new
  <2> QED
    BY <1>1, <1>3
<1>5. ASSUME NEW n \in 1..count PROVE Nth(n) \in committed
  <2>1. \E c \in new : Cardinality({d \in new : d <= c}) = n
    <3> HIDE DEF new, count
    <3>1. n \in 1..Cardinality(new)
      BY <1>4
    <3>2. \E c \in new : Rank(new, c) = n
      BY <1>1, <1>2, <3>1, RankExists, ZenonT(30)
    <3> QED
      BY <3>2 DEF Rank
  <2>2. Nth(n) \in new
    <3> HIDE DEF new
    <3> QED
      BY <2>1
  <2> QED
    BY <2>2
<1>6. FetchNewCertificates(cur) = certs
  BY DEF FetchNewCertificates
<1> HIDE DEF new, Nth, count
<1>7. certs \in Seq(Certs) /\ Len(certs) = count /\ \A i \in 1..count : certs[i] \in committed
  BY <1>1, <1>4, <1>5
<1> HIDE DEF certs
<1> QED
  BY <1>6, <1>7

\* No step takes anything back: the log, the CA's tables and revoked_indices grow.
FeedKept ==
    /\ Len(log) \in Nat /\ Len(log') \in Nat /\ Len(log) <= Len(log')
    /\ \A i \in 1..Len(log) : log'[i] = log[i]
    /\ committed \subseteq committed' /\ caRevoked \subseteq caRevoked'
    /\ revoked \subseteq revoked'

LEMMA InitRevokedByCA == Init => RevokedByCA
<1> SUFFICES ASSUME Init PROVE RevokedByCA
  OBVIOUS
<1>1. TreeSize = 1 /\ log \in Seq(Certs \cup {NullEntry, DirectEntry}) /\ log[1] = NullEntry
  BY DEF Init, FeedInit, TreeSize
<1>2. watcher = Idle /\ Idle \in [at : {"idle", "append", "cursor", "find", "add", "save"}, batch : Seq(Certs),
                                  events : SUBSET Certs, idx : Nat]
  BY DEF Init, FeedInit, Idle
<1>3. FeedTypeOK
  BY <1>1, <1>2, FeedAssumption DEF Init, FeedInit, FeedTypeOK
<1>4. WatcherInv
  BY <1>2 DEF WatcherInv, Idle
<1> QED
  BY <1>1, <1>3, <1>4 DEF Init, FeedInit, RevokedByCA

\* A step that leaves the log and the revoked indices alone.
LEMMA LogUntouched ==
    ASSUME RevokedByCA, UNCHANGED <<log, revoked>>,
           committed \subseteq committed', caRevoked \subseteq caRevoked',
           (FeedTypeOK /\ WatcherInv)'
    PROVE  RevokedByCA' /\ FeedKept
<1>1. Len(log) \in Nat /\ TreeSize' = TreeSize
  BY DEF RevokedByCA, FeedTypeOK, TreeSize
<1>2. FeedKept
  BY <1>1 DEF FeedKept
<1>3. /\ \A i \in 1..TreeSize : log[i] \in committed' \cup {NullEntry, DirectEntry}
      /\ \A i \in revoked : log[i + 1] \in caRevoked'
  BY DEF RevokedByCA
<1> QED
  BY <1>1, <1>2, <1>3 DEF RevokedByCA

LEMMA CAStep ==
    ASSUME RevokedByCA, NEW c \in Certs, CACommit(c) \/ CARevoke(c)
    PROVE  RevokedByCA' /\ FeedKept
<1>1. /\ UNCHANGED <<log, revoked, cursor, watcher, faults>>
      /\ committed \subseteq committed' /\ caRevoked \subseteq caRevoked'
      /\ committed' \subseteq Certs /\ caRevoked' \subseteq committed'
  BY DEF CACommit, CARevoke, RevokedByCA, FeedTypeOK
<1>2. FeedTypeOK'
  BY <1>1 DEF RevokedByCA, FeedTypeOK, TreeSize
<1>3. WatcherInv'
  BY <1>1 DEF RevokedByCA, WatcherInv, TreeSize
<1> QED
  BY <1>1, <1>2, <1>3, LogUntouched

\* The watcher's next call, with nothing else of the tables changed.
LEMMA WatcherMoves ==
    ASSUME RevokedByCA, UNCHANGED <<committed, caRevoked, log, cursor, revoked>>,
           faults' \in 0..MaxFaults,
           watcher' \in [at : {"idle", "append", "cursor", "find", "add", "save"}, batch : Seq(Certs),
                         events : SUBSET Certs, idx : Nat],
           WatcherInv'
    PROVE  RevokedByCA' /\ FeedKept
<1>1. FeedTypeOK'
  BY DEF RevokedByCA, FeedTypeOK, TreeSize
<1> QED
  BY <1>1, LogUntouched

LEMMA PollStep ==
    ASSUME RevokedByCA, PollCertificates \/ PollRevocations
    PROVE  RevokedByCA' /\ FeedKept
<1>1. CASE PollCertificates
  <2> DEFINE certs == FetchNewCertificates(cursor)
  <2>1. certs \in Seq(Certs) /\ \A i \in 1..Len(certs) : certs[i] \in committed
    BY FetchedCerts
  <2>2. /\ certs # <<>> /\ watcher' = [Idle EXCEPT !.at = "append", !.batch = certs]
        /\ UNCHANGED <<committed, caRevoked, log, cursor, revoked, faults>>
    BY <1>1 DEF PollCertificates
  <2> HIDE DEF certs
  <2>3. watcher' = [at |-> "append", batch |-> certs, events |-> {}, idx |-> 0]
    BY <2>2 DEF Idle
  <2>4. WatcherInv'
    <3>1. watcher'.at = "append" /\ watcher'.batch = certs /\ watcher'.events = {}
      BY <2>3
    <3> QED
      BY <2>1, <2>2, <3>1 DEF WatcherInv
  <2> QED
    BY <2>1, <2>2, <2>3, <2>4, WatcherMoves DEF RevokedByCA, FeedTypeOK
<1>2. CASE PollRevocations
  <2>1. watcher' = [at |-> "find", batch |-> <<>>, events |-> caRevoked, idx |-> 0]
    BY <1>2 DEF PollRevocations, Idle
  <2>2. WatcherInv'
    BY <1>2, <2>1 DEF WatcherInv, PollRevocations
  <2>3. watcher' \in [at : {"idle", "append", "cursor", "find", "add", "save"}, batch : Seq(Certs),
                      events : SUBSET Certs, idx : Nat]
    BY <2>1 DEF RevokedByCA, FeedTypeOK
  <2>4. UNCHANGED <<committed, caRevoked, log, cursor, revoked, faults>>
    BY <1>2 DEF PollRevocations
  <2> QED
    BY <2>2, <2>3, <2>4, WatcherMoves DEF RevokedByCA, FeedTypeOK
<1> QED
  BY <1>1, <1>2

\* Entries go to the end of the log.
LEMMA LogGrows ==
    ASSUME RevokedByCA, NEW b \in Seq(Certs \cup {NullEntry, DirectEntry}),
           \A i \in 1..Len(b) : b[i] \in committed \cup {NullEntry, DirectEntry},
           log' = log \o b, UNCHANGED <<committed, caRevoked, cursor, revoked, faults>>,
           watcher' \in [at : {"idle", "append", "cursor", "find", "add", "save"}, batch : Seq(Certs),
                         events : SUBSET Certs, idx : Nat],
           watcher'.events = watcher.events, watcher'.idx = watcher.idx, watcher'.batch = watcher.batch,
           watcher'.at = watcher.at \/ (watcher.at = "append" /\ watcher'.at = "cursor")
    PROVE  RevokedByCA' /\ FeedKept
<1> DEFINE E == Certs \cup {NullEntry, DirectEntry}
<1>1. log \in Seq(E)
  BY DEF RevokedByCA, FeedTypeOK
<1>2. /\ log' \in Seq(E) /\ Len(log) \in Nat /\ Len(b) \in Nat
      /\ Len(log') = Len(log) + Len(b)
      /\ \A i \in 1..Len(log) : log'[i] = log[i]
      /\ \A i \in 1..Len(b) : log'[Len(log) + i] = b[i]
  <2> HIDE DEF E
  <2> QED
    BY <1>1 DEF E
<1>3. FeedKept
  BY <1>2 DEF FeedKept
<1>4. \A i \in 1..Len(log') : log'[i] \in committed \cup {NullEntry, DirectEntry}
  <2> SUFFICES ASSUME NEW i \in 1..Len(log') PROVE log'[i] \in committed \cup {NullEntry, DirectEntry}
    OBVIOUS
  <2>1. CASE i <= Len(log)
    BY <1>2, <2>1 DEF RevokedByCA, TreeSize
  <2>2. CASE i > Len(log)
    <3>1. i - Len(log) \in 1..Len(b) /\ i = Len(log) + (i - Len(log))
      BY <1>2, <2>2
    <3>2. log'[i] = b[i - Len(log)]
      BY <1>2, <3>1
    <3> QED
      BY <3>1, <3>2
  <2> QED
    BY <1>2, <2>1, <2>2
<1>6. FeedTypeOK'
  <2>1. FeedTypeOK
    BY DEF RevokedByCA
  <2>2. revoked \subseteq 0..(TreeSize - 1) /\ TreeSize = Len(log)
    BY <2>1 DEF FeedTypeOK, TreeSize
  <2>3. (revoked \subseteq 0..(TreeSize - 1))'
    <3>1. 0..(Len(log) - 1) \subseteq 0..(Len(log') - 1)
      BY <1>2
    <3> QED BY <2>2, <3>1 DEF TreeSize
  <2>4. /\ (committed \subseteq Certs /\ caRevoked \subseteq committed)'
        /\ (cursor \in [last_created_at : Nat, last_cert_id : Certs \cup {0}])'
        /\ (faults \in 0..MaxFaults)'
    BY <2>1 DEF FeedTypeOK
  <2> QED BY <1>2, <2>3, <2>4 DEF FeedTypeOK
<1>7. WatcherInv'
  <2>1. ASSUME watcher'.at = "add" PROVE watcher.idx < Len(log') /\ log'[watcher.idx + 1] \in caRevoked
    <3>1. watcher.at = "add" /\ watcher.idx \in Nat
      BY <2>1 DEF RevokedByCA, FeedTypeOK
    <3>2. watcher.idx < Len(log) /\ log[watcher.idx + 1] \in caRevoked
      BY <3>1 DEF RevokedByCA, WatcherInv, TreeSize
    <3> QED
      BY <1>2, <3>1, <3>2
  <2>2. WatcherInv
    BY DEF RevokedByCA
  <2> QED
    BY <2>1, <2>2 DEF WatcherInv, TreeSize
<1>8. \A i \in revoked : log'[i + 1] \in caRevoked
  <2>1. \A i \in revoked : i + 1 \in 1..Len(log)
    BY <1>2 DEF RevokedByCA, FeedTypeOK, TreeSize
  <2> QED
    BY <1>2, <2>1 DEF RevokedByCA
<1> QED
  BY <1>3, <1>4, <1>6, <1>7, <1>8 DEF RevokedByCA, TreeSize

LEMMA AppendStep ==
    ASSUME RevokedByCA, AppendCertificates
    PROVE  RevokedByCA' /\ FeedKept
<1> DEFINE b == watcher.batch
<1>1. /\ b \in Seq(Certs) /\ \A i \in 1..Len(b) : b[i] \in committed
      /\ log' = log \o b /\ watcher' = [watcher EXCEPT !.at = "cursor"] /\ watcher.at = "append"
      /\ UNCHANGED <<committed, caRevoked, cursor, revoked, faults>>
  BY DEF RevokedByCA, FeedTypeOK, WatcherInv, AppendCertificates
<1>2. /\ watcher' \in [at : {"idle", "append", "cursor", "find", "add", "save"}, batch : Seq(Certs),
                       events : SUBSET Certs, idx : Nat]
      /\ watcher'.at = "cursor"
      /\ watcher'.events = watcher.events /\ watcher'.idx = watcher.idx /\ watcher'.batch = watcher.batch
  BY <1>1 DEF RevokedByCA, FeedTypeOK
<1> HIDE DEF b
<1>3. b \in Seq(Certs \cup {NullEntry, DirectEntry})
  BY <1>1
<1> QED
  BY <1>1, <1>2, <1>3, LogGrows

\* A finalization appends.
LEMMA DirectStep ==
    ASSUME RevokedByCA, NEW o \in Orders, AppendDirectEntry(o)
    PROVE  RevokedByCA' /\ FeedKept
<1>1. /\ log' = Append(log, DirectEntry)
      /\ UNCHANGED <<committed, caRevoked, cursor, revoked, faults, watcher>>
  BY DEF AppendDirectEntry
<1>2. log \in Seq(Certs \cup {NullEntry, DirectEntry})
  BY DEF RevokedByCA, FeedTypeOK
<1>3. log' = log \o <<DirectEntry>>
  BY <1>1, <1>2
<1>4. /\ <<DirectEntry>> \in Seq(Certs \cup {NullEntry, DirectEntry})
      /\ \A i \in 1..Len(<<DirectEntry>>) : <<DirectEntry>>[i] \in committed \cup {NullEntry, DirectEntry}
  OBVIOUS
<1>5. watcher' \in [at : {"idle", "append", "cursor", "find", "add", "save"}, batch : Seq(Certs),
                    events : SUBSET Certs, idx : Nat]
  BY <1>1 DEF RevokedByCA, FeedTypeOK
<1> QED
  BY <1>1, <1>3, <1>4, <1>5, LogGrows

LEMMA IdleWatcher ==
    ASSUME watcher' = Idle
    PROVE  /\ watcher' \in [at : {"idle", "append", "cursor", "find", "add", "save"}, batch : Seq(Certs),
                            events : SUBSET Certs, idx : Nat]
           /\ WatcherInv'
<1>1. watcher' = [at |-> "idle", batch |-> <<>>, events |-> {}, idx |-> 0]
  BY DEF Idle
<1> QED
  BY <1>1 DEF WatcherInv

LEMMA CursorStep ==
    ASSUME RevokedByCA, UpdateWatcherCursor
    PROVE  RevokedByCA' /\ FeedKept
<1> DEFINE b == watcher.batch
           last == b[Len(b)]
<1>1. /\ cursor' = [last_created_at |-> Date(last), last_cert_id |-> last]
      /\ watcher' = Idle
      /\ UNCHANGED <<committed, caRevoked, log, revoked, faults>>
  BY DEF UpdateWatcherCursor
<1>2. b \in Seq(Certs) /\ b # <<>>
  BY DEF RevokedByCA, FeedTypeOK, WatcherInv, UpdateWatcherCursor
<1>3. last \in Certs
  <2> HIDE DEF b
  <2> QED
    BY <1>2
<1>4. Date(last) \in Nat
  BY <1>3, FeedAssumption DEF Date, Certs
<1> HIDE DEF last
<1>5. FeedTypeOK'
  BY <1>1, <1>3, <1>4, IdleWatcher DEF RevokedByCA, FeedTypeOK, TreeSize
<1> QED
  BY <1>1, <1>5, IdleWatcher, LogUntouched

\* What is left of the events that were read, for the next round of the loop.
LEMMA NextEventType ==
    ASSUME RevokedByCA, UNCHANGED caRevoked, NEW c, watcher' = NextEvent(c)
    PROVE  /\ watcher' \in [at : {"idle", "append", "cursor", "find", "add", "save"}, batch : Seq(Certs),
                            events : SUBSET Certs, idx : Nat]
           /\ WatcherInv'
<1> DEFINE rest == watcher.events \ {c}
<1>1. rest \subseteq caRevoked /\ rest \subseteq Certs
  BY DEF RevokedByCA, FeedTypeOK, WatcherInv
<1>2. CASE rest = {}
  BY <1>2, IdleWatcher DEF NextEvent
<1>3. CASE rest # {}
  <2>1. watcher' = [at |-> "find", batch |-> <<>>, events |-> rest, idx |-> 0]
    BY <1>3 DEF NextEvent, Idle
  <2> HIDE DEF rest
  <2> QED
    BY <1>1, <2>1 DEF WatcherInv
<1> QED
  BY <1>2, <1>3

\* The entry that is found is one of the certificate that was read as revoked.
LEMMA FindStep ==
    ASSUME RevokedByCA, NEW c \in watcher.events, NEW failed \in BOOLEAN,
           FindEntryBySerial(c, failed), faults' \in 0..MaxFaults
    PROVE  RevokedByCA' /\ FeedKept
<1>1. UNCHANGED <<committed, caRevoked, log, cursor, revoked>>
  BY DEF FindEntryBySerial
<1>2. CASE Logged(c) /\ ~failed
  <2>1. PICK i \in Copies(c) : watcher' = [watcher EXCEPT !.at = "add", !.idx = i, !.events = @ \ {c}]
    BY <1>2 DEF FindEntryBySerial
  <2>2. i \in Nat /\ i < TreeSize /\ log[i + 1] = c
    BY <2>1 DEF Copies, RevokedByCA, FeedTypeOK, TreeSize
  <2>3. watcher \in [at : {"idle", "append", "cursor", "find", "add", "save"}, batch : Seq(Certs),
                     events : SUBSET Certs, idx : Nat] /\ watcher.events \subseteq caRevoked
    BY DEF RevokedByCA, FeedTypeOK, WatcherInv
  <2>4. /\ watcher' \in [at : {"idle", "append", "cursor", "find", "add", "save"}, batch : Seq(Certs),
                         events : SUBSET Certs, idx : Nat]
        /\ watcher'.at = "add" /\ watcher'.idx = i /\ watcher'.events \subseteq caRevoked
    BY <2>1, <2>2, <2>3
  <2>5. WatcherInv'
    BY <1>1, <2>2, <2>3, <2>4 DEF WatcherInv, TreeSize
  <2> QED
    BY <1>1, <2>4, <2>5, WatcherMoves
<1>3. CASE ~(Logged(c) /\ ~failed)
  <2>1. watcher' = NextEvent(c)
    BY <1>3 DEF FindEntryBySerial
  <2> QED
    BY <1>1, <2>1, NextEventType, WatcherMoves
<1> QED
  BY <1>2, <1>3

\* The index that is inserted is still that of a revoked certificate.
LEMMA AddStep ==
    ASSUME RevokedByCA, AddRevocation
    PROVE  RevokedByCA' /\ FeedKept
<1>1. /\ revoked' = revoked \cup {watcher.idx} /\ watcher' = NextEvent(0)
      /\ UNCHANGED <<committed, caRevoked, log, cursor, faults>>
  BY DEF AddRevocation
<1>2. watcher.idx \in Nat /\ watcher.idx < TreeSize /\ log[watcher.idx + 1] \in caRevoked
      /\ TreeSize \in Nat /\ TreeSize' = TreeSize
  BY <1>1 DEF AddRevocation, RevokedByCA, FeedTypeOK, WatcherInv, TreeSize
<1>3. FeedTypeOK'
  <2>1. revoked' \subseteq 0..(TreeSize' - 1)
    <3>1. revoked \subseteq 0..(TreeSize - 1)
      BY DEF RevokedByCA, FeedTypeOK
    <3>2. watcher.idx \in 0..(TreeSize - 1)
      BY <1>2
    <3> QED
      BY <1>1, <1>2, <3>1, <3>2
  <2>2. watcher' \in [at : {"idle", "append", "cursor", "find", "add", "save"}, batch : Seq(Certs),
                      events : SUBSET Certs, idx : Nat]
    BY <1>1, NextEventType
  <2> QED
    BY <1>1, <2>1, <2>2 DEF RevokedByCA, FeedTypeOK
<1>4. WatcherInv'
  BY <1>1, NextEventType
<1>5. FeedKept
  BY <1>1, <1>2 DEF FeedKept, TreeSize
<1> QED
  BY <1>1, <1>2, <1>3, <1>4, <1>5 DEF RevokedByCA

LEMMA FeedFaultStep ==
    ASSUME RevokedByCA, FeedFault
    PROVE  RevokedByCA' /\ FeedKept
<1>1. faults' \in 0..MaxFaults
  BY FeedAssumption DEF FeedFault, RevokedByCA, FeedTypeOK
<1>2. CASE watcher' = Idle /\ UNCHANGED <<committed, caRevoked, log, cursor, revoked>>
  BY <1>1, <1>2, IdleWatcher, WatcherMoves
<1>3. CASE \E c \in watcher.events : FindEntryBySerial(c, TRUE)
  BY <1>1, <1>3, FindStep
<1> QED
  BY <1>2, <1>3 DEF FeedFault

\* Every step of the CA and of the watcher's polls, with or without a failure; in
\* none of them the watcher comes to save a checkpoint.
LEMMA FeedSteps ==
    ASSUME RevokedByCA, FeedStep
    PROVE  RevokedByCA' /\ FeedKept
<1>1. CASE (\E c \in watcher.events : FindEntryBySerial(c, FALSE)) /\ UNCHANGED faults
  <2>1. faults' \in 0..MaxFaults
    BY <1>1 DEF RevokedByCA, FeedTypeOK
  <2> QED
    BY <1>1, <2>1, FindStep
<1> QED
  BY <1>1, CAStep, PollStep, AppendStep, CursorStep, AddStep, FeedFaultStep DEF FeedStep, WatcherStep

LEMMA FindNotSave ==
    ASSUME RevokedByCA, NEW c, NEW failed, FindEntryBySerial(c, failed)
    PROVE  watcher'.at # "save"
<1>1. Idle = [at |-> "idle", batch |-> <<>>, events |-> {}, idx |-> 0]
  BY DEF Idle
<1>2. NextEvent(c).at \in {"idle", "find"}
  BY <1>1 DEF NextEvent
<1>3. CASE Logged(c) /\ ~failed
  <2>1. PICK i \in Copies(c) : watcher' = [watcher EXCEPT !.at = "add", !.idx = i, !.events = @ \ {c}]
    BY <1>3 DEF FindEntryBySerial
  <2>2. watcher'.at = "add"
    BY <2>1 DEF RevokedByCA, FeedTypeOK
  <2> QED
    BY <2>2
<1>4. CASE ~(Logged(c) /\ ~failed)
  BY <1>2, <1>4 DEF FindEntryBySerial
<1> QED
  BY <1>3, <1>4

LEMMA FeedNotSave ==
    ASSUME RevokedByCA, FeedStep
    PROVE  watcher'.at = "save" => watcher' = watcher
<1>1. Idle = [at |-> "idle", batch |-> <<>>, events |-> {}, idx |-> 0]
  BY DEF Idle
<1>2. CASE (\E c \in watcher.events : FindEntryBySerial(c, FALSE)) \/ FeedFault
  <2>1. CASE \E c \in watcher.events : FindEntryBySerial(c, FALSE) \/ FindEntryBySerial(c, TRUE)
    <3>1. PICK c \in watcher.events : FindEntryBySerial(c, FALSE) \/ FindEntryBySerial(c, TRUE)
      BY <2>1
    <3>2. watcher'.at # "save"
      BY <3>1, FindNotSave
    <3> QED
      BY <3>2
  <2>2. CASE watcher' = Idle
    BY <1>1, <2>2
  <2> QED
    BY <1>2, <2>1, <2>2 DEF FeedFault
<1>3. CASE AddRevocation
  BY <1>1, <1>3 DEF AddRevocation, NextEvent
<1>4. CASE AppendCertificates
  <2>1. watcher' = [watcher EXCEPT !.at = "cursor"]
    BY <1>4 DEF AppendCertificates
  <2> QED
    BY <2>1 DEF RevokedByCA, FeedTypeOK
<1>5. CASE PollCertificates \/ PollRevocations \/ UpdateWatcherCursor
  <2>1. CASE PollCertificates
    <3>1. PICK certs : watcher' = [Idle EXCEPT !.at = "append", !.batch = certs]
      BY <2>1 DEF PollCertificates
    <3> QED
      BY <1>1, <3>1
  <2>2. CASE PollRevocations
    BY <1>1, <2>2 DEF PollRevocations
  <2>3. CASE UpdateWatcherCursor
    BY <1>1, <2>3 DEF UpdateWatcherCursor
  <2> QED
    BY <1>5, <2>1, <2>2, <2>3
<1>6. CASE \E c \in Certs : CACommit(c) \/ CARevoke(c)
  BY <1>6 DEF CACommit, CARevoke
<1> QED
  BY <1>2, <1>3, <1>4, <1>5, <1>6 DEF FeedStep, WatcherStep

-----------------------------------------------------------------------------
(* The TLS server and its client.                                          *)

StapleType == [leaf_index : Nat, tree_size : Nat, revoked : BOOLEAN]

\* What a serial number may mean stays among what it may mean later.
LEMMA ResolveGrows ==
    ASSUME FeedKept
    PROVE  \A i \in Resolve(Subject) : i \in 0..(TreeSize' - 1) /\ log'[i + 1] = log[i + 1]
<1> SUFFICES ASSUME NEW i \in Resolve(Subject)
             PROVE  i \in 0..(TreeSize' - 1) /\ log'[i + 1] = log[i + 1]
  OBVIOUS
<1>1. i \in 0..(Len(log) - 1)
  BY DEF Resolve, Copies, TreeSize
<1> QED
  BY <1>1 DEF FeedKept, TreeSize

LEMMA ResolvedStays ==
    ASSUME FeedKept, UNCHANGED digits, NEW i \in Resolve(Subject)
    PROVE  i \in Resolve(Subject)'
<1>1. i \in 0..(TreeSize' - 1) /\ log'[i + 1] = log[i + 1]
  BY ResolveGrows
<1>2. CASE ParseInt(Subject) >= 0
  BY <1>1, <1>2 DEF Resolve, ParseInt
<1>3. CASE ~(ParseInt(Subject) >= 0)
  BY <1>1, <1>3 DEF Resolve, Copies, ParseInt
<1> QED
  BY <1>2, <1>3

\* A bundle stays good while the tables grow.
LEMMA BuiltStays ==
    ASSUME FeedKept, UNCHANGED digits, NEW b \in StapleType, Built(b)
    PROVE  Built(b)'
<1>1. CASE b = NoStaple
  BY <1>1 DEF Built, NoStaple
<1>2. CASE b # NoStaple
  <2>1. /\ b.leaf_index \in Resolve(Subject) /\ b.leaf_index < b.tree_size /\ b.tree_size <= TreeSize
        /\ b.revoked => b.leaf_index \in revoked
    BY <1>2 DEF Built
  <2>2. b.leaf_index \in Resolve(Subject)'
    BY <2>1, ResolvedStays
  <2>3. b.tree_size <= TreeSize'
    BY <2>1 DEF StapleType, FeedKept, TreeSize
  <2>4. b.revoked => b.leaf_index \in revoked'
    BY <2>1 DEF FeedKept
  <2> QED
    BY <2>1, <2>2, <2>3, <2>4 DEF Built
<1> QED
  BY <1>1, <1>2

FetchType == [at : {"idle", "checkpoint"}, idx : Nat, revoked : BOOLEAN]

ClientType == [verdict : {"connected", "verified", "failed"}, staple : StapleType]

\* The request under way.
FetchInv ==
    fetch.at = "checkpoint" =>
        /\ fetch.idx \in Resolve(Subject)
        /\ fetch.revoked => fetch.idx \in revoked
        /\ staple.revoked /\ fetch.idx = staple.leaf_index => fetch.revoked

\* The finalizations and the watcher.
FinalizeType == [Orders -> [at : {"start", "checkpoint", "done"}, size : 0..TreeSize]]

WatcherSaves == watcher.at = "save" => watcher.idx <= TreeSize

AloneInv ==
    WatcherAlone => /\ staple.tree_size <= cpSize
                    /\ watcher.at = "save" => cpSize <= watcher.idx

LEMMA StapleInvParts ==
    StapleInv <=> /\ digits \in {"decimal", "upper", "lower"} /\ cpSize \in 0..TreeSize
                  /\ finalize \in FinalizeType
                  /\ staple \in StapleType /\ fetch \in FetchType /\ client \in ClientType
                  /\ WatcherSaves /\ AloneInv
                  /\ Built(staple) /\ Built(client.staple) /\ FetchInv
  BY DEF StapleInv, StapleType, FetchType, ClientType, FetchInv, FinalizeType, WatcherSaves, AloneInv

LEMMA InitStapleInv == Init => StapleInv
<1> SUFFICES ASSUME Init PROVE StapleInv
  OBVIOUS
<1>1. /\ digits \in {"decimal", "upper", "lower"} /\ cpSize = 0 /\ TreeSize = 1
      /\ staple = NoStaple /\ fetch = NoFetch /\ client = NoClient
      /\ finalize = [o \in Orders |-> [at |-> "start", size |-> 0]]
      /\ watcher = Idle
  BY DEF Init, FeedInit, TreeSize
<1>2. NoStaple \in StapleType /\ NoFetch \in FetchType /\ NoFetch.at = "idle" /\ NoStaple.tree_size = 0
  BY DEF NoStaple, NoFetch, StapleType, FetchType
<1>3. NoClient \in ClientType /\ NoClient.staple = NoStaple
  BY <1>2 DEF NoClient, ClientType
<1>4. Built(NoStaple)
  BY DEF Built
<1>5. finalize \in FinalizeType
  BY <1>1 DEF FinalizeType
<1>6. watcher.at = "idle"
  BY <1>1 DEF Idle
<1> QED
  BY <1>1, <1>2, <1>3, <1>4, <1>5, <1>6, StapleInvParts DEF FetchInv, WatcherSaves, AloneInv

\* The finalizations stay what they are while the log grows.
LEMMA FinalizeStays ==
    ASSUME FeedKept, finalize \in FinalizeType, UNCHANGED finalize
    PROVE  (finalize \in FinalizeType)'
<1>1. 0..TreeSize \subseteq 0..TreeSize'
  BY DEF FeedKept, TreeSize
<1> QED
  BY <1>1 DEF FinalizeType

\* Steps that the TLS server and its client have no part in.
LEMMA StaplesKept ==
    ASSUME StapleInv, FeedKept, UNCHANGED <<digits, staple, fetch, client>>,
           cpSize' \in 0..TreeSize', (finalize \in FinalizeType)', WatcherSaves', AloneInv'
    PROVE  StapleInv'
<1>1. /\ digits \in {"decimal", "upper", "lower"}
      /\ staple \in StapleType /\ fetch \in FetchType /\ client \in ClientType
      /\ Built(staple) /\ Built(client.staple) /\ FetchInv
  BY StapleInvParts
<1>2. client.staple \in StapleType
  BY <1>1 DEF ClientType
<1>3. Built(staple)' /\ Built(client.staple)'
  <2>1. ASSUME NEW b \in StapleType, Built(b) PROVE Built(b)'
    BY <2>1, BuiltStays
  <2> QED
    BY <1>1, <1>2, <2>1
<1>4. FetchInv'
  BY <1>1, ResolvedStays DEF FetchInv, FeedKept
<1> QED
  BY <1>1, <1>3, <1>4 DEF StapleInv, StapleType, FetchType, ClientType, FetchInv, FinalizeType,
     WatcherSaves, AloneInv

\* Steps of the CA and of the watcher's polls.
LEMMA FeedKeepsStaples ==
    ASSUME RevokedByCA, StapleInv, FeedStep, UNCHANGED tlsVars
    PROVE  RevokedByCA' /\ StapleInv'
<1>1. RevokedByCA' /\ FeedKept /\ (watcher'.at = "save" => watcher' = watcher)
  BY FeedSteps, FeedNotSave
<1>2. UNCHANGED <<digits, staple, fetch, client, cpSize, finalize>>
  BY DEF tlsVars
<1>3. cpSize \in 0..TreeSize /\ finalize \in FinalizeType /\ WatcherSaves /\ AloneInv
  BY StapleInvParts
<1>4. cpSize' \in 0..TreeSize'
  BY <1>1, <1>2, <1>3 DEF FeedKept, TreeSize
<1>5. WatcherSaves'
  <2>1. ASSUME watcher'.at = "save" PROVE watcher'.idx <= TreeSize'
    <3>1. watcher' = watcher /\ watcher.idx \in Nat
      BY <1>1, <2>1 DEF RevokedByCA, FeedTypeOK
    <3> QED
      BY <1>1, <1>3, <2>1, <3>1 DEF WatcherSaves, FeedKept, TreeSize
  <2> QED
    BY <2>1 DEF WatcherSaves
<1>6. AloneInv'
  BY <1>1, <1>2, <1>3 DEF AloneInv, WatcherAlone
<1> QED
  BY <1>1, <1>2, <1>3, <1>4, <1>5, <1>6, FinalizeStays, StaplesKept

\* A step that leaves the tables alone, but for faults.
LEMMA TablesUntouched ==
    ASSUME RevokedByCA, UNCHANGED <<committed, caRevoked, log, cursor, revoked, watcher>>,
           faults' \in 0..MaxFaults
    PROVE  RevokedByCA' /\ FeedKept
<1>1. (FeedTypeOK /\ WatcherInv)'
  BY DEF RevokedByCA, FeedTypeOK, WatcherInv, TreeSize
<1> QED
  BY <1>1, LogUntouched

\* The watcher reads the size of the log.
LEMMA CreateStep ==
    ASSUME RevokedByCA, StapleInv, CreateCheckpoint
    PROVE  RevokedByCA' /\ StapleInv'
<1>1. /\ watcher' = [Idle EXCEPT !.at = "save", !.idx = TreeSize]
      /\ UNCHANGED <<committed, caRevoked, log, cursor, revoked, faults>>
      /\ UNCHANGED <<digits, staple, fetch, client, cpSize, finalize>>
  BY DEF CreateCheckpoint, tlsVars
<1>2. watcher' = [at |-> "save", batch |-> <<>>, events |-> {}, idx |-> TreeSize]
  BY <1>1 DEF Idle
<1>3. TreeSize \in Nat /\ TreeSize' = TreeSize
  BY <1>1 DEF RevokedByCA, FeedTypeOK, TreeSize
<1>4. watcher' \in [at : {"idle", "append", "cursor", "find", "add", "save"}, batch : Seq(Certs),
                    events : SUBSET Certs, idx : Nat] /\ WatcherInv'
  BY <1>2, <1>3 DEF WatcherInv
<1>5. RevokedByCA' /\ FeedKept
  BY <1>1, <1>4, WatcherMoves DEF RevokedByCA, FeedTypeOK
<1>6. cpSize \in 0..TreeSize /\ finalize \in FinalizeType /\ AloneInv
  BY StapleInvParts
<1>7. WatcherSaves' /\ AloneInv'
  BY <1>1, <1>2, <1>3, <1>6 DEF WatcherSaves, AloneInv, WatcherAlone
<1> QED
  BY <1>1, <1>3, <1>5, <1>6, <1>7, FinalizeStays, StaplesKept

\* The watcher saves a checkpoint of the size that it read.
LEMMA SaveStep ==
    ASSUME RevokedByCA, StapleInv, SaveCheckpoint
    PROVE  RevokedByCA' /\ StapleInv'
<1>1. /\ watcher' = Idle /\ cpSize' = watcher.idx /\ watcher.at = "save"
      /\ UNCHANGED <<committed, caRevoked, log, cursor, revoked, faults>>
      /\ UNCHANGED <<digits, staple, fetch, client, finalize>>
  BY DEF SaveCheckpoint
<1>2. watcher.idx \in Nat /\ TreeSize \in Nat /\ TreeSize' = TreeSize
  BY <1>1 DEF RevokedByCA, FeedTypeOK, TreeSize
<1>3. RevokedByCA' /\ FeedKept
  BY <1>1, IdleWatcher, WatcherMoves DEF RevokedByCA, FeedTypeOK
<1>4. cpSize \in 0..TreeSize /\ finalize \in FinalizeType /\ WatcherSaves /\ AloneInv /\ staple \in StapleType
  BY StapleInvParts
<1>5. watcher'.at = "idle"
  BY <1>1 DEF Idle
<1>6. cpSize' \in 0..TreeSize'
  BY <1>1, <1>2, <1>4 DEF WatcherSaves
<1>7. WatcherSaves'
  BY <1>5 DEF WatcherSaves
<1>8. AloneInv'
  <2>1. ASSUME WatcherAlone PROVE staple.tree_size <= watcher.idx
    BY <1>1, <1>2, <1>4, <2>1 DEF AloneInv, StapleType
  <2>2. WatcherAlone' <=> WatcherAlone
    BY <1>1 DEF WatcherAlone
  <2> QED
    BY <1>1, <1>5, <2>1, <2>2 DEF AloneInv
<1> QED
  BY <1>1, <1>3, <1>4, <1>6, <1>7, <1>8, FinalizeStays, StaplesKept

\* A finalization appends its entry.
LEMMA AppendDirectStep ==
    ASSUME RevokedByCA, StapleInv, NEW o \in Orders, AppendDirectEntry(o)
    PROVE  RevokedByCA' /\ StapleInv'
<1>1. /\ finalize' = [finalize EXCEPT ![o] = [at |-> "checkpoint", size |-> TreeSize + 1]]
      /\ log' = Append(log, DirectEntry)
      /\ finalize[o].at = "start"
      /\ UNCHANGED <<digits, staple, fetch, client, cpSize, watcher>>
  BY DEF AppendDirectEntry
<1>2. RevokedByCA' /\ FeedKept
  BY DirectStep
<1>3. log \in Seq(Certs \cup {NullEntry, DirectEntry}) /\ watcher.idx \in Nat
  BY DEF RevokedByCA, FeedTypeOK
<1>4. TreeSize \in Nat /\ TreeSize' = TreeSize + 1
  BY <1>1, <1>3 DEF TreeSize
<1>5. cpSize \in 0..TreeSize /\ finalize \in FinalizeType /\ WatcherSaves /\ AloneInv
  BY StapleInvParts
<1>6. (finalize \in FinalizeType)'
  <2>1. 0..TreeSize \subseteq 0..TreeSize' /\ TreeSize + 1 \in 0..TreeSize'
    BY <1>4
  <2>2. finalize \in [Orders -> [at : {"start", "checkpoint", "done"}, size : 0..TreeSize']]
    BY <1>5, <2>1 DEF FinalizeType
  <2>3. [at |-> "checkpoint", size |-> TreeSize + 1] \in [at : {"start", "checkpoint", "done"}, size : 0..TreeSize']
    BY <2>1
  <2> QED
    BY <1>1, <2>2, <2>3 DEF FinalizeType
<1>7. WatcherSaves'
  BY <1>1, <1>3, <1>4, <1>5 DEF WatcherSaves
<1>8. AloneInv'
  <2>1. WatcherAlone' => WatcherAlone
    BY <1>1, <1>5 DEF WatcherAlone, FinalizeType
  <2> QED
    BY <1>1, <1>5, <2>1 DEF AloneInv
<1>9. cpSize' \in 0..TreeSize'
  BY <1>1, <1>4, <1>5
<1> QED
  BY <1>1, <1>2, <1>6, <1>7, <1>8, <1>9, StaplesKept

\* A finalization saves its checkpoint: from then on the watcher is not alone.
LEMMA CheckpointSaveStep ==
    ASSUME RevokedByCA, StapleInv, NEW o \in Orders, CheckpointSave(o)
    PROVE  RevokedByCA' /\ StapleInv'
<1>1. /\ finalize' = [finalize EXCEPT ![o].at = "done"]
      /\ cpSize' \in finalize[o].size..TreeSize
      /\ UNCHANGED <<committed, caRevoked, log, cursor, revoked, watcher, faults>>
      /\ UNCHANGED <<digits, staple, fetch, client>>
  BY DEF CheckpointSave, feedVars
<1>2. RevokedByCA' /\ FeedKept
  BY <1>1, TablesUntouched DEF RevokedByCA, FeedTypeOK
<1>3. TreeSize \in Nat /\ TreeSize' = TreeSize
  BY <1>1 DEF RevokedByCA, FeedTypeOK, TreeSize
<1>4. finalize \in FinalizeType /\ WatcherSaves
  BY StapleInvParts
<1>5. (finalize \in FinalizeType)' /\ finalize'[o].at = "done" /\ finalize[o].size \in 0..TreeSize
  BY <1>1, <1>3, <1>4 DEF FinalizeType
<1>6. cpSize' \in 0..TreeSize'
  BY <1>1, <1>3, <1>5
<1>7. WatcherSaves'
  BY <1>1, <1>3, <1>4 DEF WatcherSaves
<1>8. AloneInv'
  BY <1>5 DEF AloneInv, WatcherAlone
<1> QED
  BY <1>1, <1>2, <1>5, <1>6, <1>7, <1>8, StaplesKept

\* The steps of the TLS server and of the client leave the bridge alone.
BridgeKept ==
    /\ UNCHANGED <<committed, caRevoked, log, cursor, revoked, watcher, digits, cpSize, finalize>>
    /\ faults' \in 0..MaxFaults

LEMMA BridgeKeptStep ==
    ASSUME RevokedByCA, StapleInv, BridgeKept,
           (staple \in StapleType /\ fetch \in FetchType /\ client \in ClientType)',
           Built(staple'), Built(client'.staple), FetchInv',
           staple'.tree_size = staple.tree_size \/ staple'.tree_size = cpSize \/ staple' = NoStaple
    PROVE  RevokedByCA' /\ StapleInv'
<1>1. RevokedByCA' /\ FeedKept
  BY TablesUntouched DEF BridgeKept
<1>2. (Built(staple) /\ Built(client.staple))'
  BY DEF BridgeKept, Built, Resolve, Copies, TreeSize, ParseInt
<1>3. /\ digits \in {"decimal", "upper", "lower"} /\ cpSize \in 0..TreeSize /\ finalize \in FinalizeType
      /\ WatcherSaves /\ AloneInv
  BY StapleInvParts
<1>4. TreeSize' = TreeSize /\ UNCHANGED <<digits, cpSize, finalize, watcher>>
  BY DEF BridgeKept, TreeSize
<1>5. (finalize \in FinalizeType)' /\ WatcherSaves'
  BY <1>3, <1>4 DEF FinalizeType, WatcherSaves
<1>6. AloneInv'
  <2>1. NoStaple.tree_size = 0
    BY DEF NoStaple
  <2>2. cpSize \in Nat
    BY <1>3
  <2>3. WatcherAlone' => WatcherAlone
    BY <1>4 DEF WatcherAlone
  <2> QED
    BY <1>3, <1>4, <2>1, <2>2, <2>3 DEF AloneInv
<1> QED
  BY <1>1, <1>2, <1>3, <1>4, <1>5, <1>6 DEF StapleInv, StapleType, FetchType, ClientType, FetchInv,
     FinalizeType, WatcherSaves, AloneInv

\* The answer of GetEntryDetail: an index that the serial may mean, with the
\* revocation status of this moment.
LEMMA GetEntryDetailStep ==
    ASSUME RevokedByCA, StapleInv, GetEntryDetail
    PROVE  RevokedByCA' /\ StapleInv'
<1>1. PICK i \in Resolve(Subject) : fetch' = [at |-> "checkpoint", idx |-> i, revoked |-> i \in revoked]
  BY DEF GetEntryDetail
<1>2. BridgeKept /\ UNCHANGED <<staple, client>>
  BY DEF GetEntryDetail, feedVars, BridgeKept, RevokedByCA, FeedTypeOK
<1>3. /\ staple \in StapleType /\ client \in ClientType /\ Built(staple) /\ Built(client.staple)
  BY StapleInvParts
<1>4. i \in Nat
  BY DEF Resolve, Copies
<1>5. fetch' \in FetchType
  <2>1. CASE i \in revoked
    <3>1. fetch' = [at |-> "checkpoint", idx |-> i, revoked |-> TRUE]
      BY <1>1, <2>1
    <3> QED
      BY <1>4, <3>1 DEF FetchType
  <2>2. CASE i \notin revoked
    <3>1. (i \in revoked) = FALSE
      BY <2>2
    <3>2. fetch' = [at |-> "checkpoint", idx |-> i, revoked |-> FALSE]
      BY <1>1, <3>1, Zenon
    <3> QED
      BY <1>4, <3>2 DEF FetchType
  <2> QED
    BY <2>1, <2>2
<1>6. FetchInv'
  <2>1. i \in Resolve(Subject)'
    BY <1>2 DEF BridgeKept, Resolve, Copies, TreeSize, ParseInt
  <2>2. fetch'.idx = i /\ (fetch'.revoked <=> i \in revoked)
    BY <1>1
  <2>3. staple.revoked => staple.leaf_index \in revoked
    <3>1. CASE staple = NoStaple
      BY <3>1 DEF NoStaple
    <3>2. CASE staple # NoStaple
      BY <1>3, <3>2 DEF Built
    <3> QED
      BY <3>1, <3>2
  <2> QED
    BY <1>2, <2>1, <2>2, <2>3 DEF FetchInv, BridgeKept
<1> QED
  BY <1>2, <1>3, <1>5, <1>6, BridgeKeptStep

LEMMA NoFetchGood ==
    ASSUME fetch' = NoFetch
    PROVE  fetch' \in FetchType /\ FetchInv'
  BY DEF NoFetch, FetchType, FetchInv

LEMMA BuildByIndexStep ==
    ASSUME RevokedByCA, StapleInv, BuildByIndex
    PROVE  RevokedByCA' /\ StapleInv'
<1>1. BridgeKept /\ UNCHANGED client /\ fetch' = NoFetch
  BY DEF BuildByIndex, feedVars, BridgeKept, RevokedByCA, FeedTypeOK
<1>2. /\ staple \in StapleType /\ client \in ClientType /\ Built(staple) /\ Built(client.staple)
      /\ fetch \in FetchType /\ FetchInv /\ fetch.at = "checkpoint" /\ cpSize \in 0..TreeSize
  BY StapleInvParts DEF BuildByIndex
<1>3. /\ staple' \in StapleType /\ Built(staple')
      /\ staple'.tree_size = staple.tree_size \/ staple'.tree_size = cpSize
  <2>1. CASE fetch.idx < cpSize
    <3>1. staple' = [leaf_index |-> fetch.idx, tree_size |-> cpSize, revoked |-> fetch.revoked]
      BY <2>1 DEF BuildByIndex
    <3>2. staple' \in StapleType /\ staple'.tree_size = cpSize
      BY <1>2, <3>1 DEF StapleType, FetchType
    <3> QED
      BY <1>2, <2>1, <3>1, <3>2 DEF Built, FetchInv
  <2>2. CASE ~(fetch.idx < cpSize)
    BY <1>2, <2>2 DEF BuildByIndex
  <2> QED
    BY <2>1, <2>2
<1> QED
  BY <1>1, <1>2, <1>3, NoFetchGood, BridgeKeptStep

LEMMA ServerFaultStep ==
    ASSUME RevokedByCA, StapleInv, ServerFault
    PROVE  RevokedByCA' /\ StapleInv'
<1>1. BridgeKept /\ UNCHANGED client /\ fetch' = NoFetch
  BY FeedAssumption DEF ServerFault, BridgeKept, RevokedByCA, FeedTypeOK
<1>2. staple' = staple \/ staple' = NoStaple
  BY DEF ServerFault
<1>3. staple \in StapleType /\ client \in ClientType /\ Built(staple) /\ Built(client.staple)
  BY StapleInvParts
<1>4. NoStaple \in StapleType /\ Built(NoStaple)
  BY DEF NoStaple, StapleType, Built
<1> QED
  BY <1>1, <1>2, <1>3, <1>4, NoFetchGood, BridgeKeptStep

LEMMA ClientStep ==
    ASSUME RevokedByCA, StapleInv, Handshake \/ verifyLegacyCert
    PROVE  RevokedByCA' /\ StapleInv'
<1>1. BridgeKept /\ UNCHANGED <<staple, fetch>>
  BY DEF Handshake, verifyLegacyCert, feedVars, BridgeKept, RevokedByCA, FeedTypeOK
<1>2. /\ staple \in StapleType /\ fetch \in FetchType /\ Built(staple) /\ FetchInv
  BY StapleInvParts
<1>3. FetchInv'
  BY <1>1, <1>2 DEF FetchInv, BridgeKept, Resolve, Copies, TreeSize, ParseInt
<1>4. NoStaple \in StapleType /\ Built(NoStaple)
  BY DEF NoStaple, StapleType, Built
<1>5. client' \in ClientType /\ Built(client'.staple)
  <2>1. CASE Handshake
    <3>1. client' = [verdict |-> "connected", staple |-> staple]
      BY <2>1 DEF Handshake
    <3> QED
      BY <1>2, <3>1 DEF ClientType
  <2>2. CASE verifyLegacyCert
    <3>1. PICK v \in {"verified", "failed"} : client' = [verdict |-> v, staple |-> NoStaple]
      BY <2>2 DEF verifyLegacyCert, NoClient
    <3> QED
      BY <1>4, <3>1 DEF ClientType
  <2> QED
    BY <2>1, <2>2
<1> QED
  BY <1>1, <1>2, <1>3, <1>5, BridgeKeptStep

LEMMA NextStaple == RevokedByCA /\ StapleInv /\ [Next]_vars => RevokedByCA' /\ StapleInv'
<1> SUFFICES ASSUME RevokedByCA, StapleInv, [Next]_vars PROVE RevokedByCA' /\ StapleInv'
  OBVIOUS
<1>1. CASE FeedStep /\ UNCHANGED tlsVars
  BY <1>1, FeedKeepsStaples
<1>2. CASE UNCHANGED vars
  <2>1. BridgeKept /\ UNCHANGED <<staple, fetch, client>>
    BY <1>2 DEF vars, feedVars, tlsVars, BridgeKept, RevokedByCA, FeedTypeOK
  <2>2. FetchInv'
    BY <2>1, StapleInvParts DEF FetchInv, BridgeKept, Resolve, Copies, TreeSize, ParseInt
  <2> QED
    BY <2>1, <2>2, StapleInvParts, BridgeKeptStep
<1> QED
  BY <1>1, <1>2, CreateStep, SaveStep, AppendDirectStep, CheckpointSaveStep, GetEntryDetailStep,
     BuildByIndexStep, ServerFaultStep, ClientStep DEF Next

-----------------------------------------------------------------------------
(* The theorems.                                                           *)

\* Both invariants hold of every reachable state.
THEOREM StapleInductive == Spec => [](RevokedByCA /\ StapleInv)
<1>1. Init => RevokedByCA /\ StapleInv
  BY InitRevokedByCA, InitStapleInv
<1> QED
  BY <1>1, NextStaple, PTL DEF Spec

\* ProcessRevocations records no index whose certificate the CA has not revoked,
\* and pollCertificates logs nothing that the CA has not committed.
THEOREM RevokedSafe == Spec => []RevokedByCA
  BY StapleInductive, PTL

\* What the TLS server staples and its client is shown is of the server's own
\* certificate, unless its serial number reads as an index (bundle.go:176), and
\* what it reports of that certificate's revocation stems from the CA.
THEOREM StaplesAreOwn == Spec => []StapleOwn
<1>1. ASSUME RevokedByCA, StapleInv, NEW b \in StapleType, Built(b), b # NoStaple
      PROVE  /\ digits # "decimal" => SerialMatches(b)
             /\ SerialMatches(b) /\ b.revoked => Subject \in caRevoked
  <2>1. b.leaf_index \in Resolve(Subject) /\ (b.revoked => b.leaf_index \in revoked)
    BY <1>1 DEF Built
  <2>2. ASSUME digits # "decimal" PROVE SerialMatches(b)
    <3>1. b.leaf_index \in Copies(Subject)
      BY <2>1, <2>2 DEF Resolve, ParseInt
    <3> QED
      BY <3>1 DEF Copies, SerialMatches
  <2>3. ASSUME SerialMatches(b), b.revoked PROVE Subject \in caRevoked
    BY <1>1, <2>1, <2>3 DEF RevokedByCA, SerialMatches
  <2> QED
    BY <2>2, <2>3
<1>2. ASSUME RevokedByCA, StapleInv PROVE StapleOwn
  <2>1. staple \in StapleType /\ client.staple \in StapleType /\ Built(staple) /\ Built(client.staple)
    BY <1>2, StapleInvParts DEF ClientType
  <2> QED
    BY <1>1, <1>2, <2>1 DEF StapleOwn
<1> QED
  BY <1>2, StapleInductive, PTL

\* Two indices of a serial number are two entries of the same certificate, since
\* a number that is taken for an index means only one.
LEMMA ResolvedTwice ==
    ASSUME RevokedByCA, NEW i \in Resolve(Subject), NEW j \in Resolve(Subject), i # j
    PROVE  LoggedTwice(Subject)
<1> DEFINE S == Copies(Subject)
<1>1. i \in S /\ j \in S
  BY DEF Resolve
<1>2. TreeSize \in Nat /\ S \subseteq 0..TreeSize
  BY DEF RevokedByCA, FeedTypeOK, TreeSize, Copies
<1> HIDE DEF S
<1>3. IsFiniteSet(S) /\ Cardinality(S) \in Nat
  BY <1>2, BoundedFinite
<1>4. IsFiniteSet({i}) /\ Cardinality({i}) = 1
  BY FS_Singleton
<1>5. {i} \in SUBSET S /\ S # {i}
  BY <1>1
<1>6. Cardinality({i}) <= Cardinality(S) /\ Cardinality(S) # Cardinality({i})
  BY <1>3, <1>5, FS_Subset
<1> QED
  BY <1>3, <1>4, <1>6 DEF LoggedTwice, S

\* The TLS server (refresh of the assertion) never loses a staple, nor replaces a
\* revoked one by one that is not, except for a certificate that is in the log
\* twice; and none by one for a smaller tree, until a finalization has saved a
\* checkpoint beside the watcher.
THEOREM StapleProgresses == Spec => StapleProgress
<1> DEFINE Progress ==
      (staple' # staple /\ staple # NoStaple /\ faults' = faults) =>
          /\ staple' # NoStaple
          /\ staple.revoked => staple'.revoked \/ LoggedTwice(Subject)
          /\ WatcherAlone => staple'.tree_size >= staple.tree_size
<1>1. ASSUME RevokedByCA, StapleInv, [Next]_vars PROVE [Progress]_vars
  <2> SUFFICES ASSUME staple' # staple, staple # NoStaple, faults' = faults
               PROVE  /\ staple' # NoStaple
                      /\ staple.revoked => staple'.revoked \/ LoggedTwice(Subject)
                      /\ WatcherAlone => staple'.tree_size >= staple.tree_size
    OBVIOUS
  <2>1. BuildByIndex
    <3>1. ~ServerFault
      BY <1>1 DEF ServerFault, RevokedByCA, FeedTypeOK
    <3> QED
      BY <1>1, <3>1 DEF Next, vars, tlsVars, CreateCheckpoint, SaveCheckpoint, AppendDirectEntry,
         CheckpointSave, GetEntryDetail, Handshake, verifyLegacyCert
  <2>2. /\ staple' = [leaf_index |-> fetch.idx, tree_size |-> cpSize, revoked |-> fetch.revoked]
        /\ fetch.at = "checkpoint" /\ fetch.idx < cpSize
    BY <2>1 DEF BuildByIndex
  <2>3. /\ staple \in StapleType /\ fetch \in FetchType /\ Built(staple) /\ FetchInv /\ AloneInv
        /\ cpSize \in 0..TreeSize
    BY <1>1, StapleInvParts
  <2>4. staple'.tree_size = cpSize /\ cpSize > 0
    BY <2>2, <2>3 DEF FetchType
  <2>5. staple' # NoStaple
    BY <2>4 DEF NoStaple
  <2>6. ASSUME staple.revoked PROVE staple'.revoked \/ LoggedTwice(Subject)
    <3>1. CASE fetch.idx = staple.leaf_index
      BY <2>2, <2>3, <2>6, <3>1 DEF FetchInv
    <3>2. CASE fetch.idx # staple.leaf_index
      <4>1. fetch.idx \in Resolve(Subject) /\ staple.leaf_index \in Resolve(Subject)
        BY <2>2, <2>3 DEF FetchInv, Built
      <4> QED
        BY <1>1, <3>2, <4>1, ResolvedTwice
    <3> QED
      BY <3>1, <3>2
  <2>7. ASSUME WatcherAlone PROVE staple'.tree_size >= staple.tree_size
    BY <2>3, <2>4, <2>7 DEF AloneInv, StapleType
  <2> QED
    BY <2>5, <2>6, <2>7
<1> QED
  BY <1>1, StapleInductive, PTL DEF Spec, StapleProgress

-----------------------------------------------------------------------------
(* The revocation bitmap.                                                  *)

\* f adds up the terms d.
SumsUp(f, d, w) == f = [n \in 0..w |-> IF n = 0 THEN 0 ELSE f[n - 1] + d[n]]

\* Sums exist.
LEMMA SumExists ==
    ASSUME NEW w \in Nat, NEW d
    PROVE  \E f : SumsUp(f, d, w)
<1> DEFINE T == {v \in Nat : ~ \E f : SumsUp(f, d, v)}
<1> SUFFICES ASSUME T # {} PROVE FALSE
  OBVIOUS
<1>1. PICK v \in T : \A u \in T : v <= u
  <2>1. T \subseteq Nat
    OBVIOUS
  <2> HIDE DEF T
  <2> QED BY <2>1, LeastNatural
<1>2. v \in Nat /\ ~ \E f : SumsUp(f, d, v)
  BY <1>1
<1>3. v # 0
  <2> SUFFICES ASSUME v = 0 PROVE FALSE
    OBVIOUS
  <2>1. SumsUp([n \in 0..0 |-> 0], d, v)
    BY DEF SumsUp
  <2> QED BY <1>2, <2>1
<1>4. v - 1 \in Nat /\ v - 1 \notin T
  <2> HIDE DEF T
  <2> QED BY <1>1, <1>2, <1>3
<1>5. PICK f : SumsUp(f, d, v - 1)
  BY <1>4
<1> DEFINE g == [n \in 0..v |-> IF n = v THEN f[v - 1] + d[v] ELSE f[n]]
<1>6. ASSUME NEW n \in 0..v PROVE g[n] = IF n = 0 THEN 0 ELSE g[n - 1] + d[n]
  <2>1. CASE n = v
    <3>1. n - 1 \in 0..v /\ n - 1 # v /\ n # 0
      BY <1>2, <1>3, <2>1
    <3> QED BY <2>1, <3>1
  <2>2. CASE n # v
    <3>1. n \in 0..(v - 1) /\ (n # 0 => n - 1 \in 0..v /\ n - 1 # v)
      BY <1>2, <2>2
    <3>2. f[n] = IF n = 0 THEN 0 ELSE f[n - 1] + d[n]
      BY <1>5, <3>1 DEF SumsUp
    <3> QED BY <2>2, <3>1, <3>2
  <2> QED BY <2>1, <2>2
<1>7. g = [n \in 0..v |-> g[n]]
  OBVIOUS
<1> HIDE DEF g
<1>8. SumsUp(g, d, v)
  BY <1>6, <1>7 DEF SumsUp
<1> QED
  BY <1>2, <1>8

\* d has the bits b, the n-th of them with the weight 2^(n - 1).
Weighted(d, b, w) ==
    \A n \in 1..w : b[n] \in {0, 1} /\ d[n] = b[n] * 2^(n - 1)

\* The first n bits make less than 2^n.
LEMMA SumBelow ==
    ASSUME NEW w \in Nat, NEW d, NEW b, NEW f, SumsUp(f, d, w), Weighted(d, b, w)
    PROVE  \A n \in 0..w : f[n] \in Nat /\ f[n] < 2^n
<1> DEFINE T == {n \in 0..w : ~ (f[n] \in Nat /\ f[n] < 2^n)}
<1> SUFFICES ASSUME T # {} PROVE FALSE
  OBVIOUS
<1>1. PICK n \in T : \A k \in T : n <= k
  <2>1. T \subseteq Nat
    OBVIOUS
  <2> HIDE DEF T
  <2> QED BY <2>1, LeastNatural
<1>2. n \in 0..w /\ ~ (f[n] \in Nat /\ f[n] < 2^n)
  BY <1>1
<1>3. n # 0
  <2> SUFFICES ASSUME n = 0 PROVE FALSE
    OBVIOUS
  <2>1. f[n] = 0
    BY <1>2 DEF SumsUp
  <2>2. 2^n \in Nat /\ 2^n > 0
    BY <1>2, PowNat
  <2> QED BY <1>2, <2>1, <2>2
<1>4. n - 1 \in 0..w /\ n - 1 \in Nat /\ n - 1 \notin T /\ (n - 1) + 1 = n /\ n \in 1..w
  <2> HIDE DEF T
  <2> QED BY <1>1, <1>2, <1>3
<1>5. f[n - 1] \in Nat /\ f[n - 1] < 2^(n - 1)
  BY <1>4
<1>6. f[n] = f[n - 1] + d[n]
  BY <1>2, <1>3 DEF SumsUp
<1> DEFINE p == 2^(n - 1)
<1>7. p \in Nat /\ 2^n = 2 * p
  BY <1>4, PowNat
<1>8. b[n] \in {0, 1} /\ d[n] = b[n] * p
  BY <1>4 DEF Weighted
<1> HIDE DEF p
<1>9. d[n] \in {0, p}
  BY <1>7, <1>8
<1>10. f[n - 1] < p
  BY <1>5 DEF p
<1>11. f[n] \in Nat /\ f[n] < 2 * p
  BY <1>5, <1>6, <1>7, <1>9, <1>10
<1> QED
  BY <1>2, <1>7, <1>11

\* The bits above the m-th add a multiple of 2^m.
HighBits(f, m, n) == \E c \in Nat : f[n] = f[m] + c * 2^m

\* So they do, for every m.
LEMMA SumAbove ==
    ASSUME NEW w \in Nat, NEW d, NEW b, NEW f, SumsUp(f, d, w), Weighted(d, b, w), NEW m \in 0..w
    PROVE  HighBits(f, m, w)
<1> DEFINE T == {n \in m..w : ~ \E c \in Nat : f[n] = f[m] + c * 2^m}
<1> SUFFICES ASSUME T # {} PROVE FALSE
  <2>1. w \in m..w
    OBVIOUS
  <2> QED BY <2>1, Zenon DEF HighBits
<1>0. \A k \in 0..w : f[k] \in Nat
  BY SumBelow
<1>1. PICK n \in T : \A k \in T : n <= k
  <2>1. T \subseteq Nat
    OBVIOUS
  <2> HIDE DEF T
  <2> QED BY <2>1, LeastNatural
<1>2. n \in m..w /\ n \in 0..w /\ ~ \E c \in Nat : f[n] = f[m] + c * 2^m
  BY <1>1
<1> DEFINE p == 2^m
<1>3. p \in Nat
  BY PowNat
<1>4. n # m
  <2> SUFFICES ASSUME n = m PROVE FALSE
    OBVIOUS
  <2>1. f[n] = f[m] + 0 * p
    BY <1>0, <1>3
  <2> QED BY <1>2, <2>1
<1>5. n - 1 \in m..w /\ n - 1 \notin T /\ n \in 1..w /\ n # 0 /\ n - 1 \in Nat /\ m <= n - 1
  <2> HIDE DEF T
  <2> QED BY <1>1, <1>2, <1>4
<1>6. PICK c \in Nat : f[n - 1] = f[m] + c * p
  BY <1>5
<1>7. PICK e \in Nat : 2^(n - 1) = e * p
  <2>1. m \in Nat /\ n - 1 \in Nat /\ m <= n - 1
    BY <1>5
  <2>2. \E e \in Nat : 2^(n - 1) = e * 2^m
    BY ONLY <2>1, PowDivides, Zenon
  <2> QED BY <2>2, Zenon
<1>8. f[n] = f[n - 1] + d[n] /\ b[n] \in {0, 1} /\ d[n] = b[n] * 2^(n - 1)
  BY <1>2, <1>5 DEF SumsUp, Weighted
<1>9. f[m] \in Nat
  BY <1>0
<1>10. ~ \E x \in Nat : f[n] = f[m] + x * p
  BY <1>2
<1> HIDE DEF p, T
<1>11. CASE b[n] = 0
  <2>1. d[n] = 0
    BY <1>3, <1>7, <1>8, <1>11
  <2>2. f[n] = f[m] + c * p
    BY <1>3, <1>6, <1>8, <1>9, <2>1
  <2> QED BY <1>10, <2>2
<1>12. CASE b[n] = 1
  <2>1. d[n] = e * p
    BY <1>3, <1>7, <1>8, <1>12
  <2>2. c * p \in Nat /\ e * p \in Nat /\ c * p + e * p = (c + e) * p
    BY <1>3
  <2>3. f[n] = f[m] + (c + e) * p
    BY <1>6, <1>8, <1>9, <2>1, <2>2
  <2> QED BY <1>10, <2>3
<1> QED
  BY <1>8, <1>11, <1>12

\* A bit can be read off the sum.
LEMMA BitOfSum ==
    ASSUME NEW w \in Nat, NEW d, NEW b, NEW f, SumsUp(f, d, w), Weighted(d, b, w), NEW m \in 1..w
    PROVE  (f[w] \div 2^(m - 1)) % 2 = b[m]
<1>1. m \in 0..w /\ m - 1 \in 0..w /\ m - 1 \in Nat /\ w \in m..w /\ (m - 1) + 1 = m
  OBVIOUS
<1> DEFINE p == 2^(m - 1)
           x == f[m - 1]
<1>2. p \in Nat \ {0} /\ 2^m = 2 * p
  <2>1. p \in Nat /\ p > 0 /\ 2^((m - 1) + 1) = 2 * p
    BY <1>1, PowNat
  <2>2. 2^((m - 1) + 1) = 2^m
    BY <1>1, Zenon
  <2> HIDE DEF p
  <2> QED BY <2>1, <2>2
<1>3. x \in Nat /\ x < p
  BY <1>1, SumBelow
<1>4. f[m] = x + b[m] * p /\ b[m] \in {0, 1}
  <2>1. m # 0
    OBVIOUS
  <2>2. f[m] = x + d[m]
    BY <1>1, <2>1 DEF SumsUp
  <2>3. b[m] \in {0, 1} /\ d[m] = b[m] * p
    BY DEF Weighted
  <2> HIDE DEF p, x
  <2> QED BY <2>2, <2>3
<1>5. PICK c \in Nat : f[w] = f[m] + c * 2^m
  <2>1. m \in 0..w
    BY <1>1
  <2>2. HighBits(f, m, w)
    BY ONLY <2>1, w \in Nat, SumsUp(f, d, w), Weighted(d, b, w), SumAbove, Zenon
  <2> QED BY <2>2, Zenon DEF HighBits
<1> DEFINE q == b[m] + 2 * c
<1> HIDE DEF p, x
<1>6. f[w] = (x + b[m] * p) + c * (2 * p)
  BY <1>2, <1>4, <1>5
<1>7. q \in Nat /\ b[m] * p + c * (2 * p) = q * p
  BY <1>2, <1>4
<1>8. f[w] = x + q * p
  <2>1. b[m] * p \in Nat /\ c * (2 * p) \in Nat
    BY <1>2, <1>4
  <2> HIDE DEF q
  <2> QED BY <1>3, <1>6, <1>7, <2>1
<1>9. q % 2 = b[m]
  BY <1>4
<1> HIDE DEF q
<1>10. f[w] \div p = q
  BY <1>2, <1>3, <1>7, <1>8, DivSum
<1> QED
  BY <1>9, <1>10 DEF p

\* BitmapByte adds up the bits of the indices of its byte.
LEMMA BitmapByteBits ==
    ASSUME NEW k \in Nat, NEW indices, NEW i \in Nat, i \div ByteWidth = k
    PROVE  (BitmapByte(k, indices) \div 2^(ByteWidth - 1 - (i % ByteWidth))) % 2
               = IF i \in indices THEN 1 ELSE 0
<1> DEFINE w == ByteWidth
           at(n) == (k + 1) * w - n
           d == [n \in 1..w |-> IF at(n) \in indices THEN Bit(at(n)) ELSE 0]
           b == [n \in 1..w |-> IF at(n) \in indices THEN 1 ELSE 0]
           byte == CHOOSE f : f = [n \in 0..w |-> IF n = 0 THEN 0
                                   ELSE f[n - 1] + IF at(n) \in indices THEN Bit(at(n)) ELSE 0]
           m == w - (i % w)
<1>1. w \in Nat \ {0}
  BY FeedAssumption
<1>2. BitmapByte(k, indices) = byte[w]
  BY Zenon DEF BitmapByte
<1>3. SumsUp(byte, d, w)
  <2>1. PICK f : SumsUp(f, d, w)
    <3> HIDE DEF d
    <3> QED BY <1>1, SumExists
  <2>2. \A n \in 0..w : n # 0 => n \in 1..w
    BY <1>1
  <2>3. \A g : SumsUp(g, d, w) <=> g = [n \in 0..w |-> IF n = 0 THEN 0
                                        ELSE g[n - 1] + IF at(n) \in indices THEN Bit(at(n)) ELSE 0]
    <3> HIDE DEF at
    <3>1. \A n \in 1..w : d[n] = IF at(n) \in indices THEN Bit(at(n)) ELSE 0
      OBVIOUS
    <3> HIDE DEF d
    <3> QED BY <2>2, <3>1 DEF SumsUp
  <2>4. byte = [n \in 0..w |-> IF n = 0 THEN 0
                    ELSE byte[n - 1] + IF at(n) \in indices THEN Bit(at(n)) ELSE 0]
    <3>1. \E g : g = [n \in 0..w |-> IF n = 0 THEN 0
                    ELSE g[n - 1] + IF at(n) \in indices THEN Bit(at(n)) ELSE 0]
      <4> HIDE DEF at, d
      <4> QED BY <2>1, <2>3
    <3> QED BY <3>1, Zenon
  <2> HIDE DEF byte, at, d
  <2> QED BY <2>3, <2>4
<1>4. ASSUME NEW n \in 1..w PROVE Bit(at(n)) = 2^(n - 1)
  <2>1. at(n) % w = w - n
    BY <1>1
  <2>2. w - 1 - (w - n) = n - 1
    BY <1>1
  <2> QED BY <2>1, <2>2, Zenon DEF Bit
<1>5. Weighted(d, b, w)
  <2> SUFFICES ASSUME NEW n \in 1..w PROVE b[n] \in {0, 1} /\ d[n] = b[n] * 2^(n - 1)
    BY DEF Weighted
  <2>1. 2^(n - 1) \in Nat
    BY <1>1, PowNat
  <2>2. Bit(at(n)) = 2^(n - 1)
    BY <1>4
  <2> HIDE DEF at
  <2> QED BY <2>1, <2>2
<1>6. i % w \in 0..(w - 1) /\ i = k * w + (i % w)
  BY <1>1
<1>7. m \in 1..w /\ m - 1 = w - 1 - (i % w)
  BY <1>1, <1>6
<1>8. at(m) = i
  <2> DEFINE u == k * w
             r == i % w
  <2>1. u \in Nat /\ (k + 1) * w = u + w
    BY <1>1
  <2>2. r \in 0..(w - 1) /\ i = u + r /\ m = w - r
    BY <1>6
  <2> HIDE DEF u, r, m
  <2>3. (u + w) - m = i
    BY <1>1, <2>1, <2>2
  <2> QED BY <2>1, <2>3
<1>9. b[m] = IF i \in indices THEN 1 ELSE 0
  <2> HIDE DEF m, at
  <2> QED BY <1>7, <1>8
<1> HIDE DEF d, b, byte, at, m
<1>10. (byte[w] \div 2^(m - 1)) % 2 = b[m]
  BY <1>1, <1>3, <1>5, <1>7, BitOfSum
<1> QED
  BY <1>2, <1>7, <1>9, <1>10

\* The bitmap has a byte for every index up to its size.
LEMMA BitmapBytes ==
    ASSUME NEW n \in Nat
    PROVE  LET len == (n + ByteWidth - 1) \div ByteWidth
           IN  /\ len \in Nat /\ n <= len * ByteWidth
               /\ \A i \in Nat : i < len * ByteWidth => i \div ByteWidth \in 0..(len - 1)
<1> DEFINE w == ByteWidth
           len == (n + w - 1) \div w
           r == (n + w - 1) % w
<1>1. w \in Nat \ {0}
  BY FeedAssumption
<1>2. len \in Int /\ r \in 0..(w - 1) /\ n + w - 1 = w * len + r
  BY <1>1
<1> HIDE DEF len, r
<1> DEFINE u == len * w
<1>3. u \in Int /\ n + w - 1 = u + r
  BY <1>1, <1>2
<1>4. len >= 0
  <2> SUFFICES ASSUME len <= -1 PROVE FALSE
    BY <1>2
  <2>1. u <= -w
    BY <1>1, <1>2
  <2> HIDE DEF u
  <2> QED BY <1>1, <1>2, <1>3, <2>1
<1>5. n <= u
  <2> HIDE DEF u
  <2> QED BY <1>1, <1>2, <1>3
<1>6. ASSUME NEW i \in Nat, i < u PROVE i \div w \in 0..(len - 1)
  <2> DEFINE q == i \div w
             s == i % w
  <2>1. q \in Int /\ s \in 0..(w - 1) /\ i = w * q + s
    BY <1>1
  <2> HIDE DEF q, s
  <2>2. q >= 0
    <3> SUFFICES ASSUME q <= -1 PROVE FALSE
      BY <2>1
    <3>1. w * q <= -w
      BY <1>1, <2>1
    <3> QED BY <1>1, <2>1, <3>1
  <2>3. q < len
    <3> SUFFICES ASSUME q >= len PROVE FALSE
      BY <1>2, <2>1
    <3>1. w * q >= u
      BY <1>1, <1>2, <2>1
    <3> QED BY <1>1, <1>6, <1>3, <2>1, <3>1
  <2>4. q \in 0..(len - 1)
    BY <1>2, <2>1, <2>2, <2>3
  <2> QED BY <2>4 DEF q
<1>7. len \in Nat
  BY <1>2, <1>4
<1> QED
  BY <1>5, <1>6, <1>7 DEF len

\* BuildRevocationBitmap is exact for every table of revoked indices and every size.
LEMMA BitmapExactStep == FeedTypeOK => BitmapExact
<1> SUFFICES ASSUME FeedTypeOK, NEW n \in 0..TreeSize
             PROVE  LET bitmap == BuildRevocationBitmap(n)
                        BitOf(i) == (bitmap[i \div ByteWidth] \div 2^(ByteWidth - 1 - (i % ByteWidth))) % 2
                    IN  /\ \A i \in 0..(n - 1) : BitOf(i) = IF i \in revoked THEN 1 ELSE 0
                        /\ \A i \in n..(Cardinality(DOMAIN bitmap) * ByteWidth - 1) : BitOf(i) = 0
  BY DEF BitmapExact
<1> DEFINE len == (n + ByteWidth - 1) \div ByteWidth
           indices == {i \in revoked : i < n}
           bitmap == BuildRevocationBitmap(n)
           BitOf(i) == (bitmap[i \div ByteWidth] \div 2^(ByteWidth - 1 - (i % ByteWidth))) % 2
<1>1. n \in Nat /\ ByteWidth \in Nat \ {0} /\ revoked \subseteq Nat
  BY FeedAssumption DEF FeedTypeOK, TreeSize
<1>2. /\ len \in Nat /\ n <= len * ByteWidth
      /\ \A i \in Nat : i < len * ByteWidth => i \div ByteWidth \in 0..(len - 1)
  BY <1>1, BitmapBytes
<1>3. bitmap = [k \in 0..(len - 1) |-> BitmapByte(k, indices)]
  BY DEF BuildRevocationBitmap
<1> HIDE DEF len, bitmap
<1>4. Cardinality(DOMAIN bitmap) = len
  <2>1. DOMAIN bitmap = 0..(len - 1)
    BY <1>3
  <2>2. Cardinality(0..(len - 1)) = IF 0 > len - 1 THEN 0 ELSE len - 1 - 0 + 1
    BY <1>2, FS_Interval
  <2> QED BY <1>2, <2>1, <2>2
<1>5. ASSUME NEW i \in Nat, i < len * ByteWidth
      PROVE  BitOf(i) = IF i \in indices THEN 1 ELSE 0
  <2> DEFINE k == i \div ByteWidth
  <2>1. k \in 0..(len - 1)
    BY <1>2, <1>5
  <2> HIDE DEF indices
  <2>2. k \in Nat /\ bitmap[k] = BitmapByte(k, indices)
    BY <1>2, <1>3, <2>1
  <2>3. (BitmapByte(k, indices) \div 2^(ByteWidth - 1 - (i % ByteWidth))) % 2
               = IF i \in indices THEN 1 ELSE 0
    BY <2>2, BitmapByteBits
  <2> QED BY <2>2, <2>3
<1> DEFINE u == len * ByteWidth
<1>6. u \in Nat
  BY <1>1, <1>2
<1> HIDE DEF BitOf, u
<1>7. ASSUME NEW i \in 0..(n - 1) PROVE BitOf(i) = IF i \in revoked THEN 1 ELSE 0
  <2>1. i \in Nat /\ i < n /\ i < u
    BY <1>1, <1>2, <1>6 DEF u
  <2>2. BitOf(i) = IF i \in indices THEN 1 ELSE 0
    BY <1>5, <2>1 DEF u
  <2> QED BY <2>1, <2>2
<1>8. ASSUME NEW i \in n..(Cardinality(DOMAIN bitmap) * ByteWidth - 1) PROVE BitOf(i) = 0
  <2>1. i \in n..(u - 1)
    BY <1>4 DEF u
  <2>2. i \in Nat /\ i < u /\ ~ (i < n)
    BY <1>1, <1>6, <2>1
  <2>3. BitOf(i) = IF i \in indices THEN 1 ELSE 0
    BY <1>5, <2>2 DEF u
  <2> QED BY <2>2, <2>3
<1> QED
  BY <1>7, <1>8 DEF BitOf, bitmap

\* Bit i of the bitmap that handleRevocation serves says whether entry i is revoked,
\* in big-endian order, and the bits after the last entry are 0, at any time, for
\* every log, every size that was read earlier, and any number of bits in a byte.
THEOREM BitmapIsExact == Spec => []BitmapExact
<1>1. RevokedByCA => BitmapExact
  BY BitmapExactStep DEF RevokedByCA
<1> QED
  BY <1>1, RevokedSafe, PTL
=============================================================================
