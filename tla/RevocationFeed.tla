--------------------------- MODULE RevocationFeed ---------------------------
(***************************************************************************)
(* How the watcher (internal/watcher) follows the CA's database            *)
(* (internal/cadb): certificates by a cursor over (created_date, id), and  *)
(* revocations by reading them all again and mapping each serial number to *)
(* an index of the log (internal/revocation, table revoked_indices).       *)
(*                                                                         *)
(* The CA commits certificates in any order: a transaction that took its   *)
(* created_date earlier may commit later.  A certificate is its number in  *)
(* the order of (created_date, id); its serial number is unique.  Appending *)
(* a batch is one step here (its store calls are in IssuanceLog).          *)
(***************************************************************************)
EXTENDS MerkleTree, FiniteSets

CONSTANTS
    NumCerts,   \* bound: certificates of the CA
    BatchSize,  \* watcher.batch_size
    ByteWidth,  \* bits of a byte of the revocation bitmap (8)
    MaxFaults   \* bound: failed calls and crashes in a behaviour

Certs == 1..NumCerts

\* created_date: two certificates share each.
Date(c) == (c + 1) \div 2

ASSUME FeedAssumption ==
    /\ NumCerts \in Nat /\ MaxFaults \in Nat
    /\ BatchSize \in Nat \ {0} /\ ByteWidth \in Nat \ {0}

VARIABLES
    committed,   \* CA: certificates that can be read
    caRevoked,   \* CA: those with is_revoked = 1
    log,         \* table log_entries: index i holds the certificate log[i + 1]
    cursor,      \* table watcher_cursors
    revoked,     \* table revoked_indices
    watcher,     \* the call the watcher makes next, and its locals
    faults

feedVars == <<committed, caRevoked, log, cursor, revoked, watcher, faults>>

Idle == [at |-> "idle", batch |-> <<>>, events |-> {}, idx |-> 0]

TreeSize == Len(log)

\* What the log holds besides the CA's certificates: the null entry, and those
\* that finalizations of the local CA append.
NullEntry   == 0
DirectEntry == -1

\* The indices that hold a certificate.
Copies(c) == {i \in 0..(TreeSize - 1) : log[i + 1] = c}

Logged(c) == Copies(c) # {}

LoggedTwice(c) == Cardinality(Copies(c)) > 1

FeedInit ==
    /\ committed = {} /\ caRevoked = {}
    /\ log = <<NullEntry>>
    /\ cursor = [last_created_at |-> 0, last_cert_id |-> 0]
    /\ revoked = {}
    /\ watcher = Idle
    /\ faults = 0

-----------------------------------------------------------------------------
(* The CA.                                                                 *)

CACommit(c) ==
    /\ c \notin committed
    /\ committed' = committed \cup {c}
    /\ UNCHANGED <<caRevoked, log, cursor, revoked, watcher, faults>>

CARevoke(c) ==
    /\ c \in committed \ caRevoked
    /\ caRevoked' = caRevoked \cup {c}
    /\ UNCHANGED <<committed, log, cursor, revoked, watcher, faults>>

-----------------------------------------------------------------------------
(* pollCertificates.                                                       *)

\* Wrong: created_date > ? alone.
AfterDate(c, cur) == Date(c) > cur.last_created_at

After(c, cur) ==
    \/ Date(c) > cur.last_created_at
    \/ Date(c) = cur.last_created_at /\ c > cur.last_cert_id

\* ORDER BY created_date, id LIMIT BatchSize
FetchNewCertificates(cur) ==
    LET new   == {c \in committed : After(c, cur)}
        Nth(n) == CHOOSE c \in new : Cardinality({d \in new : d <= c}) = n
        count == IF Cardinality(new) < BatchSize THEN Cardinality(new) ELSE BatchSize
    IN  [n \in 1..count |-> Nth(n)]

\* The ticker fires; nothing happens when there are no new certificates.
PollCertificates ==
    LET certs == FetchNewCertificates(cursor)
    IN  /\ watcher.at = "idle"
        /\ certs # <<>>
        /\ watcher' = [Idle EXCEPT !.at = "append", !.batch = certs]
        /\ UNCHANGED <<committed, caRevoked, log, cursor, revoked, faults>>

AppendCertificates ==
    /\ watcher.at = "append"
    /\ log' = log \o watcher.batch
    /\ watcher' = [watcher EXCEPT !.at = "cursor"]
    /\ UNCHANGED <<committed, caRevoked, cursor, revoked, faults>>

UpdateWatcherCursor ==
    LET last == watcher.batch[Len(watcher.batch)]
    IN  /\ watcher.at = "cursor"
        /\ cursor' = [last_created_at |-> Date(last), last_cert_id |-> last]
        /\ watcher' = Idle
        /\ UNCHANGED <<committed, caRevoked, log, revoked, faults>>

-----------------------------------------------------------------------------
(* pollRevocations.                                                        *)

\* FetchAllRevocations, again from the beginning every time.
PollRevocations ==
    /\ watcher.at = "idle"
    /\ caRevoked # {}
    /\ watcher' = [Idle EXCEPT !.at = "find", !.events = caRevoked]
    /\ UNCHANGED <<committed, caRevoked, log, cursor, revoked, faults>>

\* The loop of ProcessRevocations goes on with the events that are left.
NextEvent(c) ==
    LET rest == watcher.events \ {c}
    IN  IF rest = {} THEN Idle ELSE [Idle EXCEPT !.at = "find", !.events = rest]

\* Wrong: the poll ends at a serial that is not in the log.
FindEntryOrStop(c, failed) ==
    /\ watcher.at = "find" /\ c \in watcher.events
    /\ IF Logged(c) /\ ~failed
       THEN \E i \in Copies(c) : watcher' = [watcher EXCEPT !.at = "add", !.idx = i, !.events = @ \ {c}]
       ELSE watcher' = Idle
    /\ UNCHANGED <<committed, caRevoked, log, cursor, revoked>>

\* FindEntryBySerial: one of the rows with that serial number.  A serial that
\* is not in the log, or a lookup that fails, is passed over.
FindEntryBySerial(c, failed) ==
    /\ watcher.at = "find" /\ c \in watcher.events
    /\ IF Logged(c) /\ ~failed
       THEN \E i \in Copies(c) : watcher' = [watcher EXCEPT !.at = "add", !.idx = i, !.events = @ \ {c}]
       ELSE watcher' = NextEvent(c)
    /\ UNCHANGED <<committed, caRevoked, log, cursor, revoked>>

\* Wrong: records the index after the one found.
AddRevocationNext ==
    /\ watcher.at = "add"
    /\ revoked' = revoked \cup {watcher.idx + 1}
    /\ watcher' = NextEvent(0)
    /\ UNCHANGED <<committed, caRevoked, log, cursor, faults>>

\* INSERT ... ON CONFLICT DO NOTHING.
AddRevocation ==
    /\ watcher.at = "add"
    /\ revoked' = revoked \cup {watcher.idx}
    /\ watcher' = NextEvent(0)
    /\ UNCHANGED <<committed, caRevoked, log, cursor, faults>>

-----------------------------------------------------------------------------
(* A call of the watcher fails, or the process dies and starts again: the  *)
(* poll is over and is done again at the next tick, except that a failed   *)
(* lookup only passes its event over.                                      *)
FeedFault ==
    /\ faults < MaxFaults
    /\ faults' = faults + 1
    /\ \/ /\ watcher.at # "idle"
          /\ watcher' = Idle
          /\ UNCHANGED <<committed, caRevoked, log, cursor, revoked>>
       \/ \E c \in watcher.events : FindEntryBySerial(c, TRUE)

WatcherStep ==
    \/ AppendCertificates \/ UpdateWatcherCursor \/ AddRevocation
    \/ (\E c \in watcher.events : FindEntryBySerial(c, FALSE)) /\ UNCHANGED faults

-----------------------------------------------------------------------------
(* The revocation bitmap (BuildRevocationBitmap, handleRevocation).        *)

\* Wrong: bit 0 is the lowest of its byte.
BitLow(idx) == 2^(idx % ByteWidth)

\* Big-endian bit order.
Bit(idx) == 2^(ByteWidth - 1 - (idx % ByteWidth))

\* Byte k of the bitmap, from its last bit to its first.  The bits are different
\* powers of two, so that adding and OR-ing them, in any order, is the same.
BitmapByte(k, indices) ==
    LET byte[n \in 0..ByteWidth] ==
            IF n = 0 THEN 0
            ELSE LET idx == (k + 1) * ByteWidth - n
                 IN  byte[n - 1] + IF idx \in indices THEN Bit(idx) ELSE 0
    IN  byte[ByteWidth]

\* For a request that read the given tree size.  Indices beyond it are skipped.
BuildRevocationBitmap(treeSize) ==
    LET bitmapLen == (treeSize + ByteWidth - 1) \div ByteWidth
    IN  [k \in 0..(bitmapLen - 1) |-> BitmapByte(k, {i \in revoked : i < treeSize})]

-----------------------------------------------------------------------------
(* Properties.                                                             *)

\* Type correctness of the tables and of the watcher's locals.
FeedTypeOK ==
    /\ committed \subseteq Certs /\ caRevoked \subseteq committed
    /\ log \in Seq(Certs \cup {NullEntry, DirectEntry})
    /\ cursor \in [last_created_at : Nat, last_cert_id : Certs \cup {0}]
    /\ revoked \subseteq 0..(TreeSize - 1)
    /\ watcher \in [at : {"idle", "append", "cursor", "find", "add", "save"}, batch : Seq(Certs),
                    events : SUBSET Certs, idx : Nat]
    /\ faults \in 0..MaxFaults

\* What the watcher has read of the CA and of the log is still so when it uses it.
WatcherInv ==
    /\ watcher.at \in {"append", "cursor"} =>
          watcher.batch # <<>> /\ \A i \in 1..Len(watcher.batch) : watcher.batch[i] \in committed
    /\ watcher.events \subseteq caRevoked
    /\ watcher.at = "add" => watcher.idx < TreeSize /\ log[watcher.idx + 1] \in caRevoked

\* No certificate is logged that the CA has not committed, and none is taken for
\* revoked that the CA has not revoked, although the CA goes on, and certificates
\* are appended, between the read of the revocations, the lookup of an index and
\* the insert.
RevokedByCA ==
    /\ FeedTypeOK /\ WatcherInv
    /\ \A i \in 1..TreeSize : log[i] \in committed \cup {NullEntry, DirectEntry}
    /\ \A i \in revoked : log[i + 1] \in caRevoked

\* What a client reads from the bitmap of any size that TreeSize returned
\* earlier: bit i, in big-endian order, says whether entry i is revoked; the
\* bits after the last entry are 0.
BitmapExact ==
    \A n \in 0..TreeSize :
        LET bitmap == BuildRevocationBitmap(n)
            BitOf(i) == (bitmap[i \div ByteWidth] \div 2^(ByteWidth - 1 - (i % ByteWidth))) % 2
        IN  /\ \A i \in 0..(n - 1) : BitOf(i) = IF i \in revoked THEN 1 ELSE 0
            /\ \A i \in n..(Cardinality(DOMAIN bitmap) * ByteWidth - 1) : BitOf(i) = 0
=============================================================================
