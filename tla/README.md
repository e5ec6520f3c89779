# Verification of mtc-bridge

mtc-bridge watches the database of a certification authority, copies every
certificate into an append-only issuance log, hashes the log into a Merkle tree,
signs checkpoints of the tree, serves tiles and proofs of it, and runs an ACME
server that issues certificates with an inclusion proof of the log inside.
This directory models it in TLA+, checks the models with TLC on small instances
and proves the main safety properties with TLAPS for every instance.

`PROJECT.json` lists components, runs, mutants, the source lines each definition
stands for, findings, hazards and theorems. Paths below are relative to `src/`.

## 1. Inventory

| component | source | state it keeps | operations |
|---|---|---|---|
| issuance log | `internal/issuancelog` | none in memory; rows of the store | `Initialize`, `AppendCertificates`, `AppendDirectEntry`, `recomputeInterior`, `CreateCheckpoint` |
| state store | `internal/store` | PostgreSQL tables: `log_entries`, `tree_nodes`, `checkpoints`, `watcher_cursors`, `revoked_indices`, `assertion_bundles`, `landmarks`, `acme_*`, `events` | one statement, or one transaction, per method; no locks across methods |
| Merkle tree | `internal/merkle` | none | hashes, inclusion and consistency proofs, from leaves or from stored nodes; tile coordinates |
| watcher | `internal/watcher` | tickers; counters for the dashboard | poll certificates, poll revocations, checkpoint, housekeeping, all in one `select` loop |
| CA database adapter | `internal/cadb` | none (reads the CA's tables) | certificates after a `(created_date, id)` cursor, all revocations |
| tile and proof server | `internal/tlogtiles` | none | checkpoint, hash tiles, entry tiles, proofs, assertions, landmarks |
| ACME server | `internal/acme` | nonces in memory; accounts, orders, authorizations, challenges in the store | RFC 8555 handlers; a goroutine per challenge and per finalization |
| assertion issuer | `internal/assertionissuer`, `internal/assertion` | `assertion_bundles` | after each checkpoint: build pending bundles, mark and refresh stale ones, call webhooks |
| revocation manager | `internal/revocation` | `revoked_indices` | map serials to indices, bitmap |
| batches, landmarks | `internal/batch` | `landmarks` | sign the subtree of a range of entries, proofs for its leaves, landmarks |
| cosigner | `internal/cosigner` | keys | sign and verify checkpoints |
| local CA, certificate formats | `internal/localca`, `internal/mtccert`, `internal/mtcformat`, `internal/certutil` | keys | build and parse X.509 and MTC certificates |
| admin, config, main, tools | `internal/admin`, `internal/config`, `cmd` | none | dashboard, start-up, clients |

How they interact. `main` starts the HTTP servers and the ACME server first
(`cmd/mtc-bridge/main.go:243`) and the watcher after them (`main.go:297`). The
watcher is one goroutine: it calls the issuance log and the revocation manager,
and after a checkpoint starts the assertion issuer in a goroutine of its own.
An ACME finalization is a goroutine per order that calls the *same* issuance log
(`AppendDirectEntry`, `CreateCheckpoint`) and then reads tree nodes to build a
proof. HTTP handlers read the same tables. The only thing they share is the
database, and no transaction or lock spans two store calls.

What is hard:

- two goroutines in the issuance log at once: the size is read in one call and
  used as an index in the next; interior nodes are read one by one, combined
  and written back; a checkpoint reads the size, then a root, then saves;
- readers that combine a checkpoint read earlier with nodes that are being
  rewritten;
- failures and crashes between the calls of one operation, and errors that the
  code takes for "no such row";
- the right edge of a tree whose size is not a power of two;
- orders, authorizations and challenges that are read, decided on and updated
  in separate statements by concurrent requests;
- assertion bundles built from whatever checkpoint is the latest by then, by runs
  that overlap, while housekeeping deletes checkpoints and stale bundles;
- certificates that the CA commits late, revocations that are read before their
  certificate is logged, and staples that are as old as the last refresh;
- certificates and log entries built from different readings of the clock, by two
  copies of the same code, and proofs that pass through encodings that do not
  keep everything;
- clients that follow the log or the events with an id, a size or an offset they
  read earlier.

What makes each part correct:

- *issuance log*: append-only, no holes; a leaf is the hash of the entry at its
  index; every signed root is the Merkle tree hash of that many entries; entry 0
  is the null entry; checkpoints do not go back;
- *watcher*: no certificate skipped, none twice, each eventually under a
  checkpoint;
- *proof server*: proofs verify against the signed roots at any time; what is
  served as immutable never changes;
- *finalization*: a certificate names its own entry, under a checkpoint that
  covers it, with a proof that verifies; every finalization ends;
- *ACME*: an order becomes ready only when every authorization is valid, is
  finalized once, never leaves a final state; a nonce is accepted once;
- *assertions*: a stored bundle can be proved under the checkpoint that its row
  names; when the log rests, every certificate has a bundle for the whole tree;
- *revocation*: what the CA revoked, and nothing else, is revoked in the bitmap and
  in the bundles, and reaches the TLS clients;
- *certificates with a proof*: what was issued is what was logged, and its proof
  leads to a root that was signed;
- *dashboard*: the stream and the list show every event once, the tree views show
  the tree.

## 2. Modules

| module | models | kind |
|---|---|---|
| `MerkleTree` | `internal/merkle/merkle.go` | pure operators |
| `AppendOnlyLog` | what the log promises | abstract specification |
| `IssuanceLog` | `internal/issuancelog`, the tables it uses, the watcher's certificate and checkpoint loop, the log part of a finalization | state machine |
| `ProofServer` | the tile and proof handlers of `internal/tlogtiles` | operators on the state of `IssuanceLog` |
| `ProofClients` | the clients of those answers: `cmd/mtc-conformance`, `cmd/mtc-interop`, the tree views of `internal/admin` | operators on the state of `IssuanceLog` |
| `SerialLog` | `IssuanceLog` with writers that take turns, and what holds then | state machine |
| `MCIssuanceLog` | instances of these for TLC | model |
| `MerkleTreeProofs` | theorems about `MerkleTree`, and lemmas about natural numbers, powers of two and ranks in a finite set | proofs |
| `IssuanceLogProofs` | theorems about `IssuanceLog` and the tiles of `ProofServer` | proofs |
| `SerialLogProofs` | theorems about `SerialLog`: signed roots, the proofs of `ProofServer`, the suite and the dashboard of `ProofClients` | proofs |
| `AcmeOrder` | the life of an ACME order: `internal/acme` and its tables | state machine, also the model for TLC |
| `AcmeOrderProofs` | theorems about `AcmeOrder` | proofs |
| `AssertionIssuer` | `internal/assertionissuer`, `assertion.Builder`, housekeeping, the tables `checkpoints` and `assertion_bundles` | state machine, also the model for TLC |
| `AssertionIssuerProofs` | theorems about `AssertionIssuer` | proofs |
| `RevocationFeed` | `internal/cadb`, the watcher's two polls, `internal/revocation` | state machine, part of the next |
| `StapledTLS` | `RevocationFeed` composed with the bridge's answers, `cmd/mtc-tls-server` and `cmd/mtc-tls-verify` | state machine, also the model for TLC |
| `StapledTLSProofs` | theorems about `RevocationFeed` and `StapledTLS` | proofs |
| `MTCFormat` | `internal/mtcformat`, `internal/mtccert`, `internal/localca`, `internal/cosigner`: what is encoded, signed and parsed | pure operators |
| `MTCCertificate` | the two finalizations with a local CA, from CSR to verifier, and `internal/batch` | `SerialLog` composed with `MTCFormat`, also the model for TLC |
| `MTCCertificateProofs` | theorems about `MTCFormat` and `MTCCertificate` | proofs |
| `EventStream` | table `events`, `handleSSE` and `handleEvents` of `internal/admin` | state machine, also the model for TLC |
| `EventStreamProofs` | theorems about `EventStream` | proofs |

### MerkleTree

A hash is the term it was computed from (`<<"leaf", data>>`,
`<<"node", left, right>>`): SHA-256 is taken to be collision free. The zero value
of `merkle.Hash`, which the code uses for a failed read, is a hash that equals no
other. Recursive Go functions are recursive functions over ranges of leaves
(`Ranges`: start and end, the end excluded). The code passes some of them sizes
relative to the start of the range, or a flag: the `index` and `size` of `pathLen` and
`rootFromProof`, the `m`, `n` and `openRight` of the consistency proofs. Here the leaf and the
old size stay as they are and the range says the rest (`m` and `n` are the leaves
of the old and of the new tree in it, `openRight` is that it starts at 0). The
callbacks `hashAt` and `nodeAt` are functions from indices, or from `<<level, idx>>`, to
hashes. `RootFromInclusionProof` and `VerifyInclusion` are two
different algorithms in the code and are modelled as such. The code's level
argument of `subtreeHashFromNodes` is 0 in every call and is left out.

### IssuanceLog

The tables are functions from their primary keys: `log_entries` from indices,
`tree_nodes` from `<<level, idx>>`; `checkpoints` is a sequence in the order of its
serial id. `pc[p]` is the store call goroutine `p` makes next, `batch`, `base`,
`rec`, `cp` and `proof` are its local variables (the entries being appended, the
size read, the loop of `recomputeInterior`, the checkpoint, the proof).

| action | code |
|---|---|
| `InitializeSize`, `InitializeAppend`, `InitializeLeaf` | `Log.Initialize`: size test, null entry, leaf 0 |
| `PollCertificates` | `pollCertificates` up to `AppendCertificates`: cursor read (a failed read is "from the epoch"), fetch |
| `StartFinalize` | `processFinalizeMTC` / `processFinalizeLocalCA` begins |
| `ReadSize`, `AppendEntries`, `AppendConflict`, `SetLeaves` | `AppendCertificates` / `AppendDirectEntry` |
| `ReadLeft`, `ReadRight`, `SetLevel` | one child read, one write of a level, in `recomputeInterior` |
| `UpdateWatcherCursor` | end of `pollCertificates` |
| `CheckpointTick`, `CheckpointSize`, `CheckpointRoot`, `CheckpointLeaves`, `SaveCheckpoint` | `CreateCheckpoint`, with `computeRootHash` and its fall-back `computeMTH` |
| `BuildProof`, `StoreCert` | the end of a finalization |
| `LostRead` | a read whose error `recomputeInterior` ignores |
| `Fault` | a store call whose error is returned to the caller |
| `Crash` | the process dies and is started again |
| `CAIssue` | the CA inserts a certificate (external) |

Abstractions: entries are records of their type and a term for their content
(which certificate, which order), because nothing below depends on the encoding.
Certificates are numbered in cursor order. The reads of a proof are one step, and
so are the reads of `computeMTH` (leaves never change, which is proved:
`LeavesCorrect`, with `AppendOnlyLogImplemented`). The statistics events that the
code emits after an append, the pruning of old checkpoints, and signatures are
left out. Orders differ in which of the two finalization functions they run; both
make the same calls on the log in the same order.

### SerialLog

`SerialSpec` is `IssuanceLog` in which a goroutine only moves while the others are
between two operations (`Serialized`). That is the log with the watcher as its only
writer, as in a bridge without a local CA, and what `internal/store/store.go:12` says of the
others. `SerialInv` is the invariant that its proofs need. `MTCCertificate` uses the same log with concurrent
writers and remembers whether they have taken turns so far.

### ProofServer

Handlers read and change nothing, so an answer is an operator on the tables.
A handler reads the checkpoint first and the nodes later; the properties
therefore quantify over every checkpoint ever saved, in every state, which
covers any number of writes between the two reads.

### AcmeOrder

One order with its authorizations (one http-01 challenge each), the requests about
it and the goroutines they start. A request is a pair of what it is about and a
number; `at[r]` is the store call that its handler or goroutine makes next, `nonce[r]`
where its nonce is in its life: `unissued`, in `srv.nonces` (`live`, `expired`), or
`gone`. `localCA` and `autoApprove` are chosen at the start and stay.

| action | code |
|---|---|
| `newNonce`, `Expire`, `cleanupNonces`, `consumeNonce` in `verifyJWS`, `Refuse` | `nonce.go`, `jws.go`: a request is accepted when its nonce is in the map; a request may be refused after its nonce was used up |
| `handleChallenge` | accepts a challenge request, reads the challenge's status |
| `ValidateChallenge`, `ValidateAuthz`, `ListAuthzs`, `SetReady` | `validateChallenge` |
| `handleFinalize`, `SetProcessing` | status test, CSR test, update |
| `IssueLocal`, `SetValid`, `SetInvalid` | `processFinalizeLocalCA`, `processFinalizeMTC`; their part in the issuance log is in `IssuanceLog` |
| `proxyToCA`, `RecordSerial`, `waitForAssertion` | `processFinalize` with the CA proxy |
| `LogCert`, `ToggleBundle` | what the watcher and the assertion issuer do meanwhile |
| `Fault`, `Crash` | a store call fails; the process dies |

A serial number is the finalize request it was issued for and how the external CA writes its
letters (`letters`, chosen at the start): `proxyToCA` puts what the CA answers in upper case, the watcher
stores `serial_hex` as the CA's database has it, and `FindEntryBySerial` matches exactly.

Abstractions: accounts,
CSR contents and expiry dates (which the code stores and never tests) are left
out. The read at the end of `waitForAssertion` and the update after it are one
step.

### ProofClients

Three verifiers that others wrote for the same proofs: the walk by parity of the
conformance suite, its recursive check of consistency proofs, and the recursive
walk of the interoperability tests. The suite reads a checkpoint once and goes on
while the log grows, so its tests are evaluated for every checkpoint ever saved,
in every state. The dashboard's handlers (`handleVizProof`, `handleVizConsistency`,
`handleVizSubtree`) are operators too, the latter with the sizes that a page may ask for (4, 8 and 16, and 8
for anything else); the sides that the page draws a proof on are
taken from the bits of the index, and the property about them is restricted to
sizes where that is right.

### AssertionIssuer

`runs[r]` is one call of `RunOnCheckpoint` with the webhook goroutine it starts:
`at` is the store call it makes next, `cp` the checkpoint it was started for, `todo`
the listed entries that no worker has taken, `built` the sizes the workers built
bundles with. Workers of one run interleave through the choice of the entry in
`BuildOne`.

| action | code |
|---|---|
| `AppendCertificate`, `FinalizeAppend` | the log grows (detail in `IssuanceLog`) |
| `CheckpointTick`, `CreateCheckpoint`, `FinalizeCheckpoint` | size read, row saved, the issuer started; an order's checkpoint starts no run |
| `MarkStale` | `MarkStaleBundles` |
| `List` | `ListPendingEntries`, then `ListStaleBundles`, a batch of each |
| `BuildOne` | `buildOne` / `BuildByIndex` under the checkpoint that is the latest by then |
| `UpsertAssertionBundles` | one transaction; fails when the run's checkpoint has been deleted |
| `SendWebhook` | an attempt: 2xx, or anything else |
| `RunHousekeeping` | `DeleteStaleAssertionBundles`, `PruneOldCheckpoints` with the foreign key |
| `Fault`, `Crash` | a store call fails; the process dies |

Time is seen only through retention periods, and any prefix of the rows may be
past its period. A checkpoint that repeats the size before it is only recorded
`MaxIdle` times.

### RevocationFeed and StapledTLS

A certificate is its number in the order of `(created_date, id)`; two share each
date, and the CA commits them in any order. The watcher is one goroutine, and each
of its calls is a step: fetch, append, cursor; read revocations, then per serial
look up an index and insert it. `StapledTLS` adds the TLS server's request (the
entry and its revocation first, the checkpoint later), the staple, and a client
that connects, gets the staple of that moment and checks it against a checkpoint
that it reads later. Checkpoints are saved by the watcher (`CreateCheckpoint`, `SaveCheckpoint`:
the size is read, the row is saved later) and by finalizations of the local CA
(`AppendDirectEntry`, `CheckpointSave`) side by side, and `cpSize` is the size of the one that was
saved last: it may be smaller than the one before. `digits` says how the serial number of
the server's certificate is written: with decimal digits only it reads as a number, which
`Resolve` takes for an index; with lower-case letters it is never found, because the TLS
server asks for it in upper case. `MaxBeside` bounds failures and finalizations together.

A bundle is its index, size and revocation flag. Its hashes are taken for those of that
prefix of the log, which is so while the log's writers take turns (`SerialLog`). Only whether
`Verify` succeeds depends on it, and of the properties only `HonestStapleVerifies`, whose
counterexample has one writer, claims that it does; the others would only get easier to satisfy if
clients rejected more.

### MTCFormat and MTCCertificate

DER structures are records (DER is canonical). The wire format of `MTCProof` is a
sequence whose length prefixes are numbers modulo `LenBound`, so that what does
not fit is cut as in the code; a parser that meets a signature that is cut off rejects the
proof (`Truncated`). Signatures are terms of key and message.
`BuildCertExtensions` and the extensions of a log entry are separate code in the
repository and separate operators here.

The log of `MTCCertificate` is that of `IssuanceLog`, one step per store call, with concurrent writers,
failed calls and crashes: an order's index, checkpoint and proof are what `AppendDirectEntry`,
`CreateCheckpoint` and `InclusionProofFromNodes` on the stored nodes have left in `base`, `cp` and `proof`.
The module adds what an order builds before the append and after the proof:

| action | code |
|---|---|
| `IssuePrecert`, `BuildLogEntryForOrder` | `StartFinalize` of the log, with the entry of `processFinalizeLocalCA` or `processFinalizeMTC`; the latter reads the clock twice |
| `IssueWithProof`, `IssueMTCCert` | `StoreCert` of the log, with the final certificate; `IssueMTCCert` reads the clock again |
| `LogStepBeside` | every other step of `IssuanceLog`: the append, the checkpoint and the proof of an order, the watcher, `LostRead`, `Fault`, `Crash` |
| `Tick` | the clock |
| `DesignateLandmark` | the checkpoint that was saved last becomes a landmark |

In the log the data of an order's entry are named by the order; `MarshalEntry` gives that name to
the entry that the order built and to no other, so a certificate that reconstructs to anything else is found out.
`turns` is a history variable: no goroutine has moved while another was inside an operation.
`Calm` (`turns`, no failure, and a tree that the levels can hold) is the premise of what is said
about roots and paths: the finding `log_two_writers_root` shows that without it a signed root, and so a
landmark or a path, can be wrong. What is said about the contents of certificates and entries
(`EmbeddedCanonical`, the first part of `MTCReconstructs`) has no such premise.
`MarshalExtension` returns any ordering of the
proof hashes: the field is tagged as a SET, which Go sorts by value, and hashes
have no order in the model. `ProcessBatch`, `BuildProof` and `DesignateLandmark` are
called from nowhere in the repository; the model calls them at any time (the first two
only read, and are operators that the property `BatchProofSigned` evaluates in every state).

### EventStream

A row is its id and the time when its transaction began. `Begin`, `Insert` and
`Commit` of an emitter make ids visible in any order. `PollEvents` is a tick of
`handleSSE`, `Receive` the network, `Reconnect` a lost connection (with the
`Last-Event-ID` of the browser) or a page that is loaded again. A reader of the list
turns the pages from the first to the last, each a count and then a select.
`overtaken`, `since` and `gone` are history variables for the properties.

## 3. Runs

Passing runs:

| run | instance | shows |
|---|---|---|
| `log_serial` | watcher and 1 order that take turns, 6 certificates, batches of at most 3 (sizes 7 and 8, an incomplete right subtree that the log grows past) | every signed root is the Merkle tree hash; in every state, also between two writes of one append, all inclusion and consistency proofs for saved checkpoints verify and equal the reference proofs; the proofs in issued certificates verify for every order of arrival; the clients' own verifiers agree; the dashboard shows the tree; every certificate ends up under a checkpoint |
| `log_writers` | 2 orders, 1 certificate, concurrent | leaves, cursor and issued certificates are right, nothing is logged twice |
| `log_faults` | 1 order, 1 certificate, concurrent, one failure or crash | `IInv`, refinement of `AppendOnlyLog`, immutable leaf and entry tiles, finalizations end, certificates still get under a checkpoint unless the watcher has returned or a leaf is lost |
| `acme_order` | 2 identifiers, 2 finalize requests, both kinds of CA, one failure or crash | `OrderInv`, no certificate before all authorizations are valid, a request is accepted once; while nothing fails: validated orders become ready, orders do not stay in processing, certificates can be downloaded |
| `assertion_issuer` | 2 overlapping runs, 1 order with its own checkpoint, 3 entries, batches of 1, one failure or crash | a stored bundle belongs to a certificate in its tree and to a checkpoint that exists; once the log rests all bundles are fresh and stay so, and no run goes on for ever |
| `stapled_tls` | 2 certificates of one date, the second the server's, its serial number in decimal digits, upper or lower case, one failure or restart or one finalization with its own checkpoint | only revoked certificates are taken for revoked, the bitmap is exact for every size read, a staple is of the server's own certificate unless the serial number is all digits; certificates that are not committed late are logged, revocations are recorded and reach the client, a staple and its revocation are not lost, and only a finalization's checkpoint can take it back to a smaller tree |
| `mtc_certificate` | 1 order in either format beside the watcher with 1 certificate, one failed call or crash, certificates valid for 90 days (with another period no MTC certificate reconstructs, which the property leaves out), one clock tick, 2 cosigners whose signatures together overflow the prefix | the embedded certificate without its extension is the logged entry, and its note is signed for a saved checkpoint, for every interleaving and failure; so is the entry that a verifier rebuilds from an MTC certificate of the same second; while writers take turns and nothing fails the verifiers accept what the conditions of the properties allow, and landmarks and batch proofs agree with what was signed |
| `event_stream` | 2 emitters, 4 events, 2 events per read and per page, one lost event or connection | the stream repeats nothing and leaves nothing behind except what becomes visible late, every such event is shown or deleted; a reader of the pages misses at most what was added during a request and what moved up because a newer event was deleted |

Why the bounds are enough. Trees up to eight leaves contain every shape of right
edge up to three levels, batches of up to three straddle the powers of two.
Two appenders plus the watcher are enough for every race on one index or one
node: a lost race involves the winner and the loser, and a third goroutine adds
the case that the winner is not the one that is then overtaken. The properties
that hold with concurrent writers and failures are also proved for every bound.
`LevelsReachRoot` makes sure that the levels kept reach the root of the largest
log of the run. `MaxIdleCps` bounds checkpoints of an unchanged log: such a
checkpoint repeats the previous one. Orders are symmetric (only their names
differ); symmetry is used in `log_writers`, which has no
liveness property. Deadlock is switched off where a finite supply of orders,
events or time, or a watcher that has returned, lets the system stop. In
`acme_order` two identifiers are needed for validations that decide from each
other's rows, and two finalize requests for the race between reading `ready` and
writing `processing`; each challenge is posted once (a second post behaves like
the first until the challenge is settled; `OrderInv` is proved for any number).
In `assertion_issuer` two runs are enough for one to overwrite the other's bundle,
and two certificates with batches of one for a run that leaves work to the next.
In `stapled_tls` two certificates with one date and batches of one make a batch end
between equal dates, and a certificate can be committed after a later one was
fetched, while a finalization can read a size before the watcher does and save it after. In
`mtc_certificate` the order and the watcher are two writers that can race for an index and for every
node, and the properties speak of one order at a time; `CertIInv`, which is proved for any number
of orders, was also checked on this instance. In `event_stream` four events make two pages or two reads, with events
added and deleted between them.

Runs that show a disagreement (each is a finding in `PROJECT.json`, with the line
of the repository it disagrees with):

| run | what happens |
|---|---|
| `log_two_writers_root` | two appenders at once: a signed root is not the tree hash of the log |
| `prune_checkpoints` | the bundles of a log that no longer grows refer to an old checkpoint, and from then on every DELETE of old checkpoints fails as a whole |
| `honest_staple` | `VerifyInclusion` walks by the bits of the index and rejects the correct proof of the last leaf of three, so a client rejects an honest staple |
| `mtc_reconstruct` | the clock is read for notBefore of an entry, for its notAfter, and for the certificate; a second passes between the first two, and the certificate does not reconstruct to the entry |

So `CheckpointRootIsMTH` holds for writers that take turns, as
`internal/store/store.go:12` describes them, and not for the writers the code
has; the properties of proofs are checked and proved for writers that take turns for the
same reason. A failed read in `recomputeInterior` has the same effect on the root as a
concurrent writer (the error is taken for a missing child); `CertsRecovered` says that
it does not keep checkpoints from being made.

### Disagreements

Met while modelling, allowed for in the properties, without a run of their own:

- an order that is finalized before the watcher has run `Initialize` takes index 0,
  and the null entry is never written (`cmd/mtc-bridge/main.go:243`);
- `pollCertificates` takes a failed read of the cursor for a missing one and logs
  the first batch again (`watcher.go:180`); a certificate that is logged twice is
  revoked at one of its indices only;
- after a crash between an entry and its leaf hash no checkpoint can be made
  (`issuancelog.go:61`);
- of two validations that both see all authorizations valid the slower one may
  set an order back to `ready` that is being processed (`acme/handlers.go:364`);
- a full hash tile above the leaves is served as immutable while its last node can
  still change (`tlogtiles/handler.go:162`);
- a certificate that the CA commits after the watcher has fetched a later one is
  never logged (`cadb/adapter.go:130`);
- the comment of `EventsSince` says "the 100 most recent" and the query returns the
  oldest ones, which is what the stream needs (`store.go:1123`);
- `testTileHashSize` of the conformance suite fails when the log has grown since
  the suite read the checkpoint (`cmd/mtc-conformance/main.go:297`);
- the proof hashes of the embedded extension are encoded as a SET and sorted,
  although the comment above says SEQUENCE OF (`localca/extension.go:43`);
- the validity of a log entry is 90 days, that of the MTC certificate the CA's
  (`acme/finalize.go:290`, `localca.go:266`), and the subject of the certificate has
  only three of the CSR's attributes;
- the serial number that an order waits for, and that the TLS server asks for, is in upper case, while
  `serial_hex` is stored as the CA's database has it and matched exactly: with a CA that writes lower case
  the certificate of a valid order cannot be downloaded and the server never gets a staple
  (`acme/finalize.go:555`, `cmd/mtc-tls-server/main.go:256`);
- a serial number of decimal digits only is taken for an index (`assertion/bundle.go:178`), and the staple
  is that of another entry;
- finalizations save checkpoints beside the watcher, so the latest one by id may be of a smaller tree than
  the one before, and a staple may go back to it (`issuancelog.go:298`);
- `VerifyMTCCert` compares the root with a landmark after its result is made, so a
  mismatch is never reported (`mtccert/verify.go:126`);
- `BuildProof` of a batch that does not start at 0 makes a proof for another range
  than the one that was signed (`batch.go:113`);
- the length of the signatures of a proof is cut to 16 bits (`encoding.go:191`): such
  a proof is rejected when it is read;
- `StalenessThreshold` is configured and never used.

### Fairness

`FairSpec` of `IssuanceLog` assumes weak fairness of a goroutine inside an operation
(store calls return), and strong fairness of the two tickers: both keep firing,
and Go's `select` picks at random among the channels that are ready, so neither is
passed over for ever although each is disabled again and again while the other's
handler runs; `StapledTLS` assumes the same of the watcher's three tickers, and nothing of
finalizations. In
`AcmeOrder` the goroutines go on, the wait for an assertion bundle has a deadline,
and the watcher logs what the external CA has issued, which is `CertsCheckpointed`
of `IssuanceLog`. In `AssertionIssuer` store calls return and webhook requests time
out after 10 s; `HousekeepingSpec` adds that housekeeping runs again and again and
that rows grow old. In `StapledTLS` the TLS server's refresh and the client go on.
In `EventStream` inserts return, the stream's ticker fires and the network
delivers; a connection may be lost. No fairness is assumed of the CA, of ACME
clients, of an order's start, of failures or of crashes.

## 4. Proofs

`IssuanceLogProofs` proves, for every set of orders, every number of certificates,
batch size, number of levels, failures and crashes (assumptions
`ProcsAssumption`: the watcher is not an order; `BoundsAssumption`: the bounds are
natural numbers, and the batch size and the number of levels positive):

| theorem | statement |
|---|---|
| `Inductive` | `Spec => []IInv` |
| `TypeCorrect` | `Spec => []TypeOK` |
| `LeavesCorrect` | `Spec => []LeavesMatchEntries` |
| `CursorSafe` | `Spec => []CursorCovered` |
| `IssuedSafe` | `Spec => []IssuedOwnEntry` |
| `AppendOnlyLogImplemented` | `Spec => AppendOnly`, the refinement of `AppendOnlyLog` |
| `LoggedOnceUntilFault` | `Spec => [](faults = 0 => LoggedOnce)` |
| `TilesImmutable` | `Spec => LeafTilesImmutable` |

None of the properties is inductive by itself: what a goroutine writes depends on
what it read some calls ago. `IInv` adds

- `LogShape`: the indices in use are `0..TreeSize - 1`, so the size is the first
  free index;
- `SizeRead`: everything below a size that was read is in use, so an append at
  that size either hits a used index (and fails on the primary key) or continues
  the log without a hole;
- `BatchInLog`, `NullInLog`: what a goroutine has appended is still at the place
  it remembers, so that the leaf it writes next is that entry's, and the index an
  order puts into its certificate is its own;
- `BatchKind`: a batch of the watcher follows certificates that are already
  logged, so that moving the cursor over it skips none, and a batch of an order is
  its own entry;
- `RecLevel`: `recomputeInterior` never writes leaves;
- `CheckpointCovers`: an order's checkpoint is taken after its append, covers its
  entry, and is saved before the proof.

The argument: a step of one goroutine leaves the locals of the others alone and
only lets `log_entries` and `checkpoints` grow (`Grows`, `Kept`), and every fact about
a goroutine's locals survives growth; so each action only has to be
examined for the goroutine that takes it. There is one lemma per action, and
`Inductive` combines them.

`LoggedOnceUntilFault` needs `OnceInv` on top of `IInv`, while nothing has failed: an order's
entry is not in the log before its append, the watcher's batch is exactly the certificates
after the cursor, and of the certificates after the cursor only those of a batch that is
appended, and whose cursor is not written yet, are in the log. With a failure the property is
false: after a crash between the append and the cursor a batch is fetched again.

`TilesImmutable` rests on `IInv` and two facts about one step: a leaf hash that is
stored never changes (`NodesStay`), and an entry that is stored never changes
(`LogStays`). A tile is full only when its last index is below the size, so all its
entries and leaves are among those.

`MerkleTreeProofs` proves, for every number of leaves (there are no assumptions):

| theorem | statement |
|---|---|
| `InclusionProofVerifies` | the proof of `InclusionProof` leads with `RootFromInclusionProof` from the leaf to `MTH` |
| `InclusionProofBinds` | a proof as long as the path that leads to `MTH` is `InclusionProof`'s, and the hash it starts from is that of the leaf |
| `RootFromRows` | `RootFromNodes` is `MTH` when the rows of all complete subtrees are there |
| `ProofFromRows` | so is `InclusionProofFromNodes` the proof of `InclusionProof` |
| `ConsistencyProofVerifies` | `VerifyConsistency` accepts `ConsistencyProofFromNodes` for the two `MTH`s |
| `VerifyInclusionCompleteTrees` | `VerifyInclusion` accepts the proof of `InclusionProof` for every leaf of a tree of `2^h` leaves |
| `ConsistencyProofBinds` | whatever it accepts for the `MTH` of the newer tree, the older root is the `MTH` of its first leaves |

The two that end in `Binds` rest on hashes being free of collisions, that is, on hashes being
terms. A recursive definition in TLA+ is a `CHOOSE`, so that a function with the
defining equation exists is a lemma of its own (`RecursionExists`, `SpanningRecursion`): functions
that satisfy the equation for the ranges up to a size agree with each other, and the
value of the wanted function at a range is that of the one for its size. After that the
arguments are by the least counterexample (`LeastNatural` on the size of a range) and two
facts about a range with more than one leaf: both parts are smaller (`Parts`), and both are
aligned when it is (`PartsAligned`), so that complete ones are rows of `tree_nodes`.
`VerifyInclusion`, which walks by the bits of the index, is wrong for some sizes (`honest_staple`); in
a tree of `2^h` leaves the range at height l of a leaf's path is the block of `2^l` leaves with the
same leading bits (`Block`), so the bit at l says on which side its sibling is.

`SerialLogProofs` proves, for any number of orders, certificates, batch size and levels, with
`SerialSpec` for the specification:

| theorem | statement |
|---|---|
| `SerialInductive` | `SerialSpec => [](IInv /\ SerialInv)` |
| `SerialCheckpointRoots` | `SerialSpec => [](faults = 0 => CheckpointRootIsMTH)` |
| `SerialIssuedProofs` | `SerialSpec => [](faults = 0 /\ TreeSize < 2^(MaxLevel + 1) => IssuedProofVerifies)` |
| `SerialInclusionProofs` | the same of `InclusionProofsVerify` |
| `SerialConsistencyProofs` | the same of `ConsistencyProofsVerify` |
| `SerialSuitePasses` | the same of `SuitePasses` |
| `SerialDashboard` | the same of `DashboardShowsTree` |

`SerialInv` says how far `recomputeInterior` is: the levels that it has passed hold exactly the
rows of the tree of all entries, the levels that it has not reached still hold those of the
tree before the batch (`LevelsUpToDate`), and the rows that it has computed and not
written are right (`RowsComputed`). The last row of a level may be of an incomplete subtree;
its hash is that of the leaves there are (`RowHash`), which is why a root can be read from one
row and why a proof must not use it. `OneWriter` makes `Own` and `Alone` enough: only the goroutine
inside an operation has to be looked at, and the others have no locals that matter. A
checkpoint is of a size at most `base` of a batch under way, and complete subtrees
below that size are rows that the batch does not touch, so proofs for it stay right in every
intermediate state. `RootFromRows`, `ProofFromRows` and the theorems on verification then give
the properties of the answers.

The clients come on top. Their verifiers split a tree where the log does (`ClientSplit`), so the
suite's check of consistency proofs takes the steps of `VerifyConsistency` (`ClientVerifyIs`, and
`ClientConsistency`: of all new roots it accepts the right one only), and the recursive walk of the
interoperability tests those of `RootFromInclusionProof` (`WalkRecursiveLeads`). The walk by parity is
wrong for some leaves of some trees; for the second leaf, which the suite asks for, it is right in
trees of every size (`SecondLeafBits`: it is the right one of the first two, and on the left
from there on), and for every leaf of a complete tree (`BlocksLead`), which is where the dashboard's
sides are right. That the entry before it is the null entry is an invariant of its own (`NullAtZero`):
Initialize appends before any goroutine does. A tile has no gap below the size of a
checkpoint, because a row that holds the hash of a complete subtree is there (`RowThere`, `TilePrefix`).

The hypotheses are needed: a failed read in `recomputeInterior` has the effect of a concurrent
writer (`faults = 0`), and subtrees above the last level have no row (the code has 63
levels). Concurrent writers are the counterexample of `log_two_writers_root`.

`AcmeOrderProofs` proves, for every set of identifiers and any number of requests,
failures and crashes (`AcmeAssumption`: the order's id is not one of its
authorizations', the bounds are natural numbers):

| theorem | statement |
|---|---|
| `OrderInductive` | `Spec => []OrderInv` |
| `AuthorizedSafe` | `Spec => []AuthorizedFirst` |
| `AcceptedSafe` | `Spec => []AcceptedOnce` |

`OrderInv` remembers for each goroutine what it found out before: a validation about
to set `ready` has seen every authorization valid (`PostInv`), a finalization under way
was let in when the order was ready (`FinalizeInv`), and a nonce that can still be
used has not been (`NonceInv`). Authorizations never stop being valid, which is why
decisions from rows read earlier are still right when they are carried out.

`AssertionIssuerProofs` proves, for any number of runs, orders, entries, checkpoints,
failures and crashes:

| theorem | statement |
|---|---|
| `IssuerInductive` | `Spec => []IssuerInv` |
| `BundlesProvable` | `Spec => []BundleProvable` |

A run keeps a checkpoint, a list of entries and the sizes of its bundles while the log
grows, other runs store bundles and housekeeping deletes rows. `RunInv` says that a run's
locals are good to be stored whenever the run comes to it: its entries are certificates of
the log, and each bundle was built with a size above its index and not above the log's
(`TypeOK` and `SizesRead` say the same of checkpoints saved and about to be saved). The
foreign key is the last link: an upsert succeeds only when the row of the run's checkpoint is
there, and housekeeping deletes none that a bundle refers to.

`StapledTLSProofs` proves, for any number of certificates and finalizations, any batch size and any
number of failures and restarts:

| theorem | statement |
|---|---|
| `StapleInductive` | `Spec => [](RevokedByCA /\ StapleInv)` |
| `RevokedSafe` | `Spec => []RevokedByCA` |
| `StaplesAreOwn` | `Spec => []StapleOwn` |
| `StapleProgresses` | `Spec => StapleProgress` |
| `BitmapIsExact` | `Spec => []BitmapExact` |

The argument is that what is read early only grows: the log, the CA's
revocations and `revoked_indices`, and, as long as no finalization has saved a checkpoint
(`WatcherAlone`), the size of the latest one. `WatcherInv` says that what
the watcher has read is still so when it is used, `StapleInv` the same of the TLS server's
request, of the staple and of the client (`Built`: a staple names an entry that the serial
number resolves to, inside a tree that was published). For `StapleProgress` a request must not
know less than the staple shows: `StapleInv` says so of the revocation of a request under way, and of the
size that the watcher is about to save. `StapleOwn` follows from `Built` and `RevokedByCA`: what the serial number
resolves to is a copy of the certificate when it is not a number, and a recorded revocation is one of the CA's.
`BitmapExact` needs of the state only that revoked indices are natural numbers; its argument
is about one byte: the bits below bit m make less than 2^m (`SumBelow`), those above it a
multiple of 2^(m+1) (`SumAbove`), so division and remainder read the bit off (`BitOfSum`).

`EventStreamProofs` proves, for any number of emitters, events, rows per read and page,
and lost connections:

| theorem | statement |
|---|---|
| `StreamInductive` | `Spec => []StreamInv` |
| `StreamIsComplete` | `Spec => []StreamComplete` |
| `PagesInductive` | `Spec => []PagesInv` |
| `PagesAreComplete` | `Spec => []PagesComplete` |

`StreamInv` adds that the stream stands exactly at the greatest id that was sent, and that
an id drawn by a transaction that has not committed is not visible, not sent and nobody
else's. The main lemma is about one read with a limit: the rows that `EventsSince` returns are
the least ones above the last id, in ascending order, so no row below the new last id
is passed over. The order of a query is given by rank (the number of rows with a smaller id);
`MerkleTreeProofs` proves that every rank up to the cardinality is taken exactly once. It uses the
well-ordering of the natural numbers (`LeastNatural`) in place of an induction.

`PagesComplete` compares the end of a walk through the pages with its start, so `PagesInv` has
to say where the reader stands: a row that he has not seen has all the rows of the pages he has
turned before it. New rows only add to those before it, and a deletion takes away from them only if it is
of a greater id (`pager.gone`). A page holds every row whose rank from the top falls
on it (`PageRows`). At the last page the rows not seen all have `total` others before them,
and the list has at most `total + since` rows: so they are at most `since` (`LowRows`).

`MTCCertificateProofs` proves, for any number of orders, certificates, levels, failures and crashes, subjects,
cosigners and seconds:

| theorem | statement |
|---|---|
| `ProofReadBack` | `UnmarshalProof(MarshalProof(p))` is `p`, or an error exactly when the signatures of `p` do not fit their length prefix |
| `CertInvariant` | `CertSpec => []CertIInv` |
| `EmbeddedCanonicalHolds` | `CertSpec => []EmbeddedCanonical` |
| `EmbeddedVerifiesHolds` | `CertSpec => []EmbeddedVerifies` |
| `MTCReconstructsHolds` | `CertSpec => []MTCReconstructs` |
| `LandmarkAgreesHolds` | `CertSpec => []LandmarkAgrees` |
| `BatchProofSignedHolds` | `CertSpec => []BatchProofSigned` |

`ProofReadBack` is about sequences: where the pieces of a concatenation are in the whole
(`Joined`, `InWhole`), and that the parser, at the start of one signature, finds that signature and
then the start of the next (`ReadsOne`). Its hypotheses are what the code makes sure of before it
writes: a range that is not empty, a path that fits its prefix, and trust anchor IDs that are not
empty. `PathAssumption` says that the paths of a tree of all the levels fit: 64 hashes of 32 bytes are far below
2^16.

`CertIInv` is `IInv` of the log, `SerialInv` as long as `turns` holds, and two parts of its own. `OrderInv`
connects what an order holds with its place in the log: the entry of an order that has started is one
that it could have built by now, for a CSR with its own key, so no two orders have the same, and a certificate
that is stored has the fields of that entry, or of the clock at the end, with the index, checkpoint and proof
that `issued` records. `LandmarksSaved` says that a landmark is a checkpoint that was saved.
A step of `MTCCertificate` is a step of `IssuanceLog` or leaves the log alone, so `IInv` is
preserved by the lemma behind `Inductive`, and `SerialInv` by the one behind `SerialInductive` for the
steps that keep `turns`; a step that breaks it has nothing more to show. What remains is that a
step of one goroutine keeps `OrderInv` of the others, of which it touches nothing.

`EmbeddedCanonical` and the first part of `MTCReconstructs` then follow from `IssuedOwnEntry`: the index that was
issued has the order's entry, and `MarshalEntry` gives the order's data to that entry only. The rest is under
`Calm`, where `SerialInv` says that the proof of an order leads to the root of its checkpoint and that signed roots are
tree hashes: `InclusionProofBinds` makes the proof that was built from stored rows the reference proof, from which
`EmbeddedVerifies` follows by `VerifyInclusionCompleteTrees`, and the root that `VerifyMTCCert` computes by
`ProofReadBack` and `InclusionProofVerifies`. A landmark of the same size has the same root because both are
the tree hash of the same entries. `BatchProofSigned` is evaluated between the writes of an append, where the rows of
the trees that are `Settled` are complete (`SettledRows`), so `ProofFromRows` applies.

Only model-checked is liveness (`CertsCheckpointed`, `CertsRecovered`, `FinalizeEnds`, `BecomesReady`,
`Settles`, `Downloadable`, `EventuallyFresh`, `EventuallyLogged`, `RevocationRecorded`,
`RevocationReaches`, `EventuallyShown`), which is out of the prover's reach.

## 5. Not modelled, and the plan

Left out:

- configuration, HTML templates, log and status output: no state to check;
- DER, PEM and JSON as bytes (records stand for them), key files, TLS itself;
- signature schemes and SHA-256 (ideal);
- the read-only pages of the dashboard besides the tree views and the events
  (search, certificate lists, statistics);
- the requests and the output of the command line tools besides their verifiers;
- accounts (`handleNewAccount`): an account never influences an order except by
  owning it;
- `/assertions/pending`: a client that asks for bundles since the greatest
  checkpoint it has seen can miss some, because rows of an older run may be stored
  later; no document promises more;
- row locks: two upserts of overlapping runs may lock the same rows in different
  orders, which PostgreSQL resolves by failing one of them, a `Fault` of the model;
- shutdown.

Next:

1. The composition of an order's finalization in `AcmeOrder` with `IssuanceLog`.
