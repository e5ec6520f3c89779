----------------------------- MODULE StapledTLS -----------------------------
(***************************************************************************)
(* From a revocation at the CA to the verdict of a TLS client: the watcher *)
(* of RevocationFeed, the bridge's /assertion and /checkpoint              *)
(* (internal/assertion, internal/tlogtiles), the TLS server that fetches   *)
(* an assertion bundle of its certificate every minute and staples it to   *)
(* each handshake (cmd/mtc-tls-server), and the client that checks the     *)
(* staple against the log's latest checkpoint (cmd/mtc-tls-verify).        *)
(*                                                                         *)
(* A bundle is its leaf index, its tree size and its revoked flag.  Its    *)
(* hashes are taken for those of that prefix of the log, which they are    *)
(* while the log's writers take turns (SerialLog); only whether Verify     *)
(* succeeds depends on it.                                                 *)
(***************************************************************************)
EXTENDS RevocationFeed

CONSTANTS
    Subject,  \* the TLS server's certificate
    Orders,   \* finalizations of the local CA
    MaxBeside \* bound: failures and finalizations in a behaviour

ASSUME SubjectAssumption == Subject \in Certs

VARIABLES
    digits,    \* how the CA's database writes Subject's serial number in hex; never changes
    cpSize,    \* tree_size of the latest checkpoint (ORDER BY id DESC), 0 before the first
    finalize,  \* the call that each finalization makes next, and the size after its append
    staple,    \* TLS server: assertionState.bundle
    fetch,     \* TLS server: its request to /assertion, half way
    client     \* TLS client: the connection it is checking, or its last verdict

tlsVars == <<digits, cpSize, finalize, staple, fetch, client>>
vars == <<feedVars, tlsVars>>

NoStaple == [leaf_index |-> 0, tree_size |-> 0, revoked |-> FALSE]
NoFetch  == [at |-> "idle", idx |-> 0, revoked |-> FALSE]
NoClient == [verdict |-> "failed", staple |-> NoStaple]

Init ==
    /\ FeedInit
    /\ digits \in {"decimal", "upper", "lower"}
    /\ cpSize = 0
    /\ finalize = [o \in Orders |-> [at |-> "start", size |-> 0]]
    /\ staple = NoStaple
    /\ fetch = NoFetch
    /\ client = NoClient

\* What has happened beside the work of the watcher, the server and the client.
Beside == faults + Cardinality({o \in Orders : finalize[o].at # "start"})

-----------------------------------------------------------------------------
(* Checkpoints.  The watcher and the finalizations create them side by     *)
(* side: a size that was read earlier may be saved last.                   *)

\* The watcher's checkpoint ticker reads the tree size.  A checkpoint of the
\* size that the latest one has would change nothing.
CreateCheckpoint ==
    /\ watcher.at = "idle"
    /\ cpSize # TreeSize
    /\ watcher' = [Idle EXCEPT !.at = "save", !.idx = TreeSize]
    /\ UNCHANGED <<committed, caRevoked, log, cursor, revoked, faults, tlsVars>>

SaveCheckpoint ==
    /\ watcher.at = "save"
    /\ cpSize' = watcher.idx
    /\ watcher' = Idle
    /\ UNCHANGED <<committed, caRevoked, log, cursor, revoked, faults, digits, finalize, staple, fetch, client>>

\* A finalization of the local CA appends its entry.
AppendDirectEntry(o) ==
    /\ finalize[o].at = "start" /\ Beside < MaxBeside
    /\ log' = Append(log, DirectEntry)
    /\ finalize' = [finalize EXCEPT ![o] = [at |-> "checkpoint", size |-> TreeSize + 1]]
    /\ UNCHANGED <<committed, caRevoked, cursor, revoked, watcher, faults, digits, cpSize, staple, fetch, client>>

\* It saves a checkpoint, of the size that it read at some time since it appended.
CheckpointSave(o) ==
    /\ finalize[o].at = "checkpoint"
    /\ cpSize' \in finalize[o].size..TreeSize
    /\ finalize' = [finalize EXCEPT ![o].at = "done"]
    /\ UNCHANGED <<feedVars, digits, staple, fetch, client>>

-----------------------------------------------------------------------------
(* The bridge.                                                             *)

\* strconv.ParseInt of the serial number, -1 when it has a letter in it.
ParseInt(c) == IF digits = "decimal" THEN NumCerts + 1 - c ELSE -1

\* Wrong: the number is read in base 16.
ResolveHex(c) == {NumCerts + 1 - c} \cap 0..(TreeSize - 1)

\* The entries that /assertion/<serial> may mean: a number is an index.  The TLS
\* server writes its serial number in upper case; serial_hex, which is as the
\* CA's database has it, is matched exactly.
Resolve(c) ==
    IF ParseInt(c) >= 0 THEN {ParseInt(c)} \cap 0..(TreeSize - 1)
    ELSE IF digits = "upper" THEN Copies(c) ELSE {}

\* FindEntryBySerial, if need be, and GetEntryDetail for the request of the TLS
\* server: it keeps the revocation status that it read.  The other answers of
\* /assertion (no such serial, null entry) are errors.
GetEntryDetail ==
    /\ fetch.at = "idle"
    /\ \E i \in Resolve(Subject) :
          /\ log[i + 1] # NullEntry
          /\ fetch' = [at |-> "checkpoint", idx |-> i, revoked |-> i \in revoked]
    /\ UNCHANGED <<feedVars, digits, cpSize, finalize, staple, client>>

\* Wrong: an error takes the staple away.
BuildByIndexOrDrop ==
    /\ fetch.at = "checkpoint"
    /\ staple' = IF fetch.idx < cpSize
                 THEN [leaf_index |-> fetch.idx, tree_size |-> cpSize, revoked |-> fetch.revoked]
                 ELSE NoStaple
    /\ fetch' = NoFetch
    /\ UNCHANGED <<feedVars, digits, cpSize, finalize, client>>

\* Wrong: the first bundle is kept as long as it verifies.
BuildByIndexOnce ==
    /\ fetch.at = "checkpoint"
    /\ staple' = IF fetch.idx < cpSize /\ staple = NoStaple
                 THEN [leaf_index |-> fetch.idx, tree_size |-> cpSize, revoked |-> fetch.revoked]
                 ELSE staple
    /\ fetch' = NoFetch
    /\ UNCHANGED <<feedVars, digits, cpSize, finalize, client>>

\* The rest of the request: the bundle for the latest checkpoint, which the TLS
\* server staples from then on; an entry that is not yet in a checkpoint is an
\* error, which leaves the old staple alone.
BuildByIndex ==
    /\ fetch.at = "checkpoint"
    /\ staple' = IF fetch.idx < cpSize
                 THEN [leaf_index |-> fetch.idx, tree_size |-> cpSize, revoked |-> fetch.revoked]
                 ELSE staple
    /\ fetch' = NoFetch
    /\ UNCHANGED <<feedVars, digits, cpSize, finalize, client>>

\* The request fails, or the TLS server is restarted and has no staple.
ServerFault ==
    /\ faults < MaxFaults /\ Beside < MaxBeside
    /\ faults' = faults + 1
    /\ \/ fetch.at # "idle" /\ UNCHANGED staple
       \/ staple' = NoStaple
    /\ fetch' = NoFetch
    /\ UNCHANGED <<committed, caRevoked, log, cursor, revoked, watcher, digits, cpSize, finalize, client>>

-----------------------------------------------------------------------------
(* The TLS client.                                                         *)

\* The handshake delivers the staple of that moment.
Handshake ==
    /\ client.verdict # "connected"
    /\ client' = [verdict |-> "connected", staple |-> staple]
    /\ UNCHANGED <<feedVars, digits, cpSize, finalize, staple, fetch>>

leafHashes == [i \in 0..(TreeSize - 1) |-> LeafHash(log[i + 1])]

\* assertion.Verify of a bundle that the bridge built.
Verify(b) ==
    VerifyInclusion(leafHashes[b.leaf_index], b.leaf_index, b.tree_size,
                    InclusionProof(b.leaf_index, b.tree_size, leafHashes),
                    MTH(b.tree_size, leafHashes))

SerialMatches(b) == log[b.leaf_index + 1] = Subject

\* fetchCheckpoint: the root of the latest checkpoint, or a tree that is not larger.
RootMatchesCheckpoint(b) == b.tree_size <= cpSize

\* The checks of verifyLegacyCert.
AllPassed(b) ==
    /\ b # NoStaple
    /\ SerialMatches(b)
    /\ Verify(b)
    /\ RootMatchesCheckpoint(b)
    /\ ~b.revoked

verifyLegacyCert ==
    /\ client.verdict = "connected"
    /\ client' = [NoClient EXCEPT !.verdict = IF AllPassed(client.staple) THEN "verified" ELSE "failed"]
    /\ UNCHANGED <<feedVars, digits, cpSize, finalize, staple, fetch>>

-----------------------------------------------------------------------------
FeedStep ==
    \/ \E c \in Certs : CACommit(c) \/ CARevoke(c)
    \/ PollCertificates \/ PollRevocations \/ WatcherStep
    \/ FeedFault /\ Beside < MaxBeside

Next ==
    \/ FeedStep /\ UNCHANGED tlsVars
    \/ CreateCheckpoint \/ SaveCheckpoint
    \/ \E o \in Orders : AppendDirectEntry(o) \/ CheckpointSave(o)
    \/ GetEntryDetail \/ BuildByIndex \/ ServerFault
    \/ Handshake \/ verifyLegacyCert

Spec == Init /\ [][Next]_vars

\* The watcher's select takes each of its tickers again and again, its calls
\* return, the TLS server refreshes, and the client goes on connecting.  The CA
\* need not do anything, nothing need fail, and a finalization may stop half way.
Fairness ==
    /\ SF_vars(PollCertificates /\ UNCHANGED tlsVars)
    /\ SF_vars(PollRevocations /\ UNCHANGED tlsVars)
    /\ SF_vars(CreateCheckpoint)
    /\ WF_vars((WatcherStep /\ UNCHANGED tlsVars) \/ SaveCheckpoint)
    /\ WF_vars(GetEntryDetail \/ BuildByIndex)
    /\ WF_vars(Handshake \/ verifyLegacyCert)

FairSpec == Spec /\ Fairness

-----------------------------------------------------------------------------
(* Properties.                                                             *)

\* A certificate that is committed while the watcher
\* has not fetched a later one is eventually logged: certificates with the same
\* created_date are not skipped when a batch ends between them, whatever fails.
EventuallyLogged ==
    (Subject \in committed /\ cursor.last_cert_id < Subject /\ watcher.at \notin {"append", "cursor"})
        ~> Logged(Subject)

\* No revocation of a logged certificate is lost (adapter.go:148), whether the
\* certificate was logged before or after it, and whatever fails.
RevocationRecorded ==
    (Subject \in caRevoked /\ Logged(Subject)) ~> (Copies(Subject) \cap revoked # {})

\* A bundle that the bridge built, however old: its entry is one that the serial
\* number of the subject may mean, it is under a checkpoint of the log, and a
\* revocation it reports is recorded.
Built(b) ==
    b # NoStaple =>
        /\ b.leaf_index \in Resolve(Subject)
        /\ b.leaf_index < b.tree_size /\ b.tree_size <= TreeSize
        /\ b.revoked => b.leaf_index \in revoked

\* No finalization has saved a checkpoint.
WatcherAlone == \A o \in Orders : finalize[o].at # "done"

\* What the TLS server and its client hold.  A request under way never knows
\* less of a revocation than the staple it is to replace.
StapleInv ==
    /\ digits \in {"decimal", "upper", "lower"} /\ cpSize \in 0..TreeSize
    /\ finalize \in [Orders -> [at : {"start", "checkpoint", "done"}, size : 0..TreeSize]]
    /\ staple \in [leaf_index : Nat, tree_size : Nat, revoked : BOOLEAN]
    /\ fetch \in [at : {"idle", "checkpoint"}, idx : Nat, revoked : BOOLEAN]
    /\ client \in [verdict : {"connected", "verified", "failed"},
                   staple : [leaf_index : Nat, tree_size : Nat, revoked : BOOLEAN]]
    /\ watcher.at = "save" => watcher.idx <= TreeSize
    /\ WatcherAlone => /\ staple.tree_size <= cpSize
                       /\ watcher.at = "save" => cpSize <= watcher.idx
    /\ Built(staple) /\ Built(client.staple)
    /\ fetch.at = "checkpoint" =>
          /\ fetch.idx \in Resolve(Subject)
          /\ fetch.revoked => fetch.idx \in revoked
          /\ staple.revoked /\ fetch.idx = staple.leaf_index => fetch.revoked

\* A staple, however old, is for the TLS server's own certificate when the serial
\* number has a letter in it; with digits only it may be that of any entry, and
\* it is left to the client to compare the serial numbers.  One that is for the
\* certificate and reports it as revoked does so because the CA has revoked it.
StapleOwn ==
    \A b \in {staple, client.staple} : b # NoStaple =>
        /\ digits # "decimal" => SerialMatches(b)
        /\ SerialMatches(b) /\ b.revoked => Subject \in caRevoked

\* While the TLS server runs it never loses a staple, and a revocation that was
\* stapled stays, unless the certificate is in the log twice.  The checkpoint of
\* its staple does not go back to a smaller tree as long as only the watcher has
\* saved checkpoints.
StapleProgress ==
    [][ (staple' # staple /\ staple # NoStaple /\ faults' = faults) =>
            /\ staple' # NoStaple
            /\ staple.revoked => staple'.revoked \/ LoggedTwice(Subject)
            /\ WatcherAlone => staple'.tree_size >= staple.tree_size ]_vars

\* A revocation at the CA reaches the clients: from some time on no connection
\* is verified any more, unless the certificate is in the log twice, when the
\* revocation is recorded for one entry and the staple may be of the other.
RevocationReaches ==
    [](Subject \in caRevoked =>
            <>(LoggedTwice(Subject) \/ [](client.verdict # "verified")))

\* A client verifies the honest staple of a certificate that is not revoked,
\* as the description of the two tools promises.
HonestStapleVerifies ==
    (/\ client.verdict = "connected" /\ client.staple # NoStaple
     /\ SerialMatches(client.staple) /\ ~client.staple.revoked)
        => AllPassed(client.staple)
=============================================================================
