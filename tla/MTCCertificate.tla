--------------------------- MODULE MTCCertificate ---------------------------
(***************************************************************************)
(* Certificates with their proof inside, from the CSR to the verifier: the *)
(* two ways in which the ACME server issues them (processFinalizeLocalCA   *)
(* with a proof extension, processFinalizeMTC with the proof as the        *)
(* signature), the batcher (internal/batch), and the verifiers             *)
(* (localca.VerifyEmbeddedProof, mtccert.VerifyMTCCert,                    *)
(* cmd/mtc-verify-cert).                                                   *)
(*                                                                         *)
(* The log is the one of IssuanceLog: its goroutines go on between any two *)
(* store calls of an order, and a store call may fail.  turns remembers    *)
(* whether the writers have taken turns so far, as SerialLog has it.       *)
(***************************************************************************)
EXTENDS SerialLog, MTCFormat

CONSTANTS
    Subjects,   \* subjects that a CSR may have, as sets of attributes
    Validities, \* validity periods that local_ca.validity may give
    Cosigners,  \* trust anchor IDs of the batcher's cosigners
    MaxClock    \* bound: seconds that pass

ASSUME CertAssumption ==
    /\ Validities \subseteq Nat /\ MaxClock \in Nat
    /\ IsFiniteSet(Cosigners)

\* The path of a proof in a tree of all the levels fits its length prefix (64
\* hashes of 32 bytes).
ASSUME PathAssumption == (MaxLevel + 1) * HashSize < LenBound

VARIABLES
    config,    \* [mtc, validity]; never changes
    clock,     \* time.Now() in seconds
    subjects,  \* the subject of the CSR of each order
    entry,     \* the log entry that each order built
    certs,     \* the certificate that was stored for each order
    landmarks, \* table landmarks: tree_size -> root_hash
    turns      \* history: the log's writers have taken turns so far

certVars == <<config, clock, subjects, entry, certs, landmarks>>
allVars  == <<vars, certVars, turns>>

NoEntry == [type |-> "null"]
NoCert  == [serial |-> -1]

LogKey == "log.key"

CertInit ==
    /\ Init
    /\ config \in [mtc : BOOLEAN, validity : Validities]
    /\ clock = 0
    /\ subjects = [o \in Orders |-> {}]
    /\ entry = [o \in Orders |-> NoEntry]
    /\ certs = [o \in Orders |-> NoCert]
    /\ landmarks = <<>>
    /\ turns = TRUE

\* The CSR of an order asks for its own name and key.
csr(o) == [key |-> o, subject |-> subjects[o], dnsNames |-> <<o>>]

\* MarshalEntry.  In IssuanceLog the data of an order's entry are named by the
\* order; no other entry has the same data.
MarshalEntry(e) ==
    IF \E o \in Orders : entry[o] = e
    THEN DirectEntry(CHOOSE o \in Orders : entry[o] = e).entry_data
    ELSE <<"other", e>>

-----------------------------------------------------------------------------
(* processFinalizeLocalCA and processFinalizeMTC, side by side: what comes *)
(* before the append and after the proof is built.                         *)

IssuePrecert(o) ==
    /\ ~config.mtc
    /\ StartFinalize(o)
    /\ subjects' \in {[subjects EXCEPT ![o] = s] : s \in Subjects}
    /\ entry' = [entry EXCEPT ![o] = localTBS(csr(o)', o, clock, clock + config.validity, <<>>)]
    /\ UNCHANGED <<config, clock, certs, landmarks>>

\* The clock is read once for notBefore and again for notAfter.
BuildLogEntryForOrder(o) ==
    /\ config.mtc
    /\ StartFinalize(o)
    /\ subjects' \in {[subjects EXCEPT ![o] = s] : s \in Subjects}
    /\ clock' \in {clock, clock + 1} /\ clock' <= MaxClock
    /\ entry' = [entry EXCEPT ![o] = BuildLogEntryFromCSR(csr(o)', clock, clock' + NinetyDays)]
    /\ UNCHANGED <<config, certs, landmarks>>

\* The extension with index, checkpoint and proof.  The hashes are encoded as
\* an ASN.1 SET OF, which DER sorts by their bytes: an order that has nothing
\* to do with the path.
MarshalExtension(leafIdx, checkpoint, sorted) ==
    <<[id |-> proofOID,
       value |-> <<[leafIndex |-> leafIdx, treeSize |-> checkpoint.tree_size,
                    rootHash |-> checkpoint.root_hash, proofHashes |-> sorted,
                    checkpoint |-> SignCheckpoint(LogKey, checkpoint.tree_size, checkpoint.root_hash)]>>]>>

orderings(seq) == {[i \in 1..Len(seq) |-> seq[p[i]]] : p \in {f \in [1..Len(seq) -> 1..Len(seq)] :
                                                                \A i, j \in 1..Len(seq) : f[i] = f[j] => i = j}}

\* Wrong: the validity starts when the final certificate is signed.
IssueWithProofNow(o) ==
    /\ ~config.mtc
    /\ StoreCert(o)
    /\ \E sorted \in orderings(proof[o]) :
          certs' = [certs EXCEPT ![o] = localTBS(csr(o), o, clock, clock + config.validity,
                                                 MarshalExtension(base[o], cp[o], sorted))]
    /\ UNCHANGED <<config, clock, subjects, entry, landmarks>>

\* IssueWithProof: the template of the precertificate, with the extension.
IssueWithProof(o) ==
    /\ ~config.mtc
    /\ StoreCert(o)
    /\ \E sorted \in orderings(proof[o]) :
          certs' = [certs EXCEPT ![o] = localTBS(csr(o), entry[o].serial, entry[o].notBefore, entry[o].notAfter,
                                                 MarshalExtension(base[o], cp[o], sorted))]
    /\ UNCHANGED <<config, clock, subjects, entry, landmarks>>

\* A proof without signatures, of a tree that starts at the first entry.
signatureless(size, hashes) ==
    [Start |-> 0, End |-> size, InclusionProof |-> hashes, Signatures |-> <<>>]

\* Wrong: takes the order's entry for the last one of its checkpoint.
IssueMTCCertLast(o) ==
    /\ config.mtc
    /\ StoreCert(o)
    /\ certs' = [certs EXCEPT ![o] =
          BuildMTCCertificate(csr(o), clock, clock + config.validity, cp[o].tree_size - 1,
                              signatureless(cp[o].tree_size, proof[o]))]
    /\ UNCHANGED <<config, clock, subjects, entry, landmarks>>

\* IssueMTCCert: reads the clock again, and has a validity and a subject of its own.
IssueMTCCert(o) ==
    /\ config.mtc
    /\ StoreCert(o)
    /\ certs' = [certs EXCEPT ![o] =
          BuildMTCCertificate(csr(o), clock, clock + config.validity, base[o],
                              signatureless(cp[o].tree_size, proof[o]))]
    /\ UNCHANGED <<config, clock, subjects, entry, landmarks>>

-----------------------------------------------------------------------------
(* What goes on beside.                                                    *)

\* The steps of the log in which no entry or certificate is built.
LogStepBeside ==
    /\ \/ CAIssue \/ WatcherStep \/ PollCertificates \/ CheckpointTick \/ Crash
       \/ \E o \in Orders : LogStep(o) \/ BuildProof(o)
       \/ \E p \in Procs : LostRead(p) \/ Fault(p)
    /\ UNCHANGED certVars

OrderLogStep(o) ==
    \/ IssuePrecert(o) \/ BuildLogEntryForOrder(o)
    \/ IssueWithProof(o) \/ IssueMTCCert(o)

\* Seconds pass only where an order is about to read the clock again: one that
\* starts is no different for having started later.
Tick ==
    /\ clock < MaxClock
    /\ \E o \in Orders : pc[o] = "store"
    /\ clock' = clock + 1
    /\ UNCHANGED <<vars, config, subjects, entry, certs, landmarks, turns>>

\* A row of landmarks; ON CONFLICT (tree_size) DO NOTHING.
Landmark(size, root) == Upsert([s \in {size} |-> root], landmarks)

\* Wrong: the size of the latest checkpoint with the root of the log.
DesignateLandmarkNow ==
    /\ checkpoints # <<>>
    /\ landmarks' = Landmark(LatestCheckpoint.tree_size, RootFromNodes(TreeSize, tree_nodes))
    /\ UNCHANGED <<vars, config, clock, subjects, entry, certs, turns>>

\* The size and root of the latest checkpoint.
DesignateLandmark ==
    /\ checkpoints # <<>>
    /\ landmarks' = Landmark(LatestCheckpoint.tree_size, LatestCheckpoint.root_hash)
    /\ UNCHANGED <<vars, config, clock, subjects, entry, certs, turns>>

CertNext ==
    \/ /\ LogStepBeside \/ \E o \in Orders : OrderLogStep(o)
       /\ turns' = (turns /\ Serialized)
    \/ Tick \/ DesignateLandmark

CertSpec == CertInit /\ [][CertNext]_allVars

-----------------------------------------------------------------------------
(* The batcher, which only reads: a batch that was made when the log had   *)
(* treeSize entries, and the proof of a leaf in it that is built later.    *)

\* The leaves that computeSubtreeHash of the batcher reads.
leafRows == [i \in {i \in DOMAIN log_entries : <<0, i>> \in DOMAIN tree_nodes} |-> tree_nodes[<<0, i>>]]

ProcessBatch(batchStart, treeSize, signers) ==
    LET hash == computeSubtreeHash(batchStart, treeSize, leafRows)
        list == SetToSeq(signers)
    IN  [Start |-> batchStart, End |-> treeSize, SubtreeHash |-> hash,
         Signatures |-> [i \in 1..Len(list) |-> SignSubtreeMTC(list[i], batchStart, treeSize, hash)]]

\* Wrong: the proof is for the log as it is now.
BuildBatchProofNow(leafIdx, b) ==
    [Start |-> b.Start, End |-> TreeSize,
     InclusionProof |-> InclusionProofFromNodes(leafIdx, TreeSize, tree_nodes), Signatures |-> b.Signatures]

\* Batcher.BuildProof: for the tree of b.End leaves, whatever b.Start is.
BuildBatchProof(leafIdx, b) ==
    [Start |-> b.Start, End |-> b.End,
     InclusionProof |-> InclusionProofFromNodes(leafIdx, b.End, tree_nodes), Signatures |-> b.Signatures]

-----------------------------------------------------------------------------
(* The verifiers.                                                          *)

\* ParseInclusionProof: the first extension with the OID.
proofExt(cert) ==
    LET first == CHOOSE i \in 1..Len(cert.extensions) :
                    /\ cert.extensions[i].id = proofOID
                    /\ \A j \in 1..(i - 1) : cert.extensions[j].id # proofOID
    IN  cert.extensions[first].value[1]

VerifyEmbeddedProof(cert) ==
    VerifyInclusion(LeafHash(MarshalEntry(StripMTCExtension(cert))), proofExt(cert).leafIndex,
                    proofExt(cert).treeSize, proofExt(cert).proofHashes, proofExt(cert).rootHash)

\* The root that VerifyMTCCert computes for a leaf and a proof.
subtreeRoot(leaf, serial, mtcProof) ==
    RootFromInclusionProof(serial - mtcProof.Start, mtcProof.End - mtcProof.Start, leaf, mtcProof.InclusionProof)

\* VerifyMTCCert computes the root and compares it with a landmark, but its
\* result is decided before: whether the serial number is within the range.
VerifyMTCCert(cert) ==
    LET parsed   == ParseMTCCertificate(cert)
        mtcProof == parsed.fields.proof
    IN  IF ~parsed.ok THEN [ProofValid |-> FALSE]
        ELSE [ProofValid |-> cert.serial \in mtcProof.Start..(mtcProof.End - 1),
              root       |-> subtreeRoot(LeafHash(MarshalEntry(ReconstructLogEntry(parsed.fields))),
                                         cert.serial, mtcProof),
              Mode       |-> IF mtcProof.Signatures = <<>> THEN "signatureless" ELSE "signed"]

\* mtc-verify-cert finds out the format of a certificate by itself.
verifyCert(cert) ==
    IF IsMTCCertificate(cert) THEN VerifyMTCCert(cert).ProofValid ELSE VerifyEmbeddedProof(cert)

-----------------------------------------------------------------------------
(* Properties.                                                             *)

\* The orders that have got a certificate, in one of the two ways.
Issued(mtc) == {o \in DOMAIN issued : config.mtc = mtc}

\* The log as its package promises it: its writers have taken turns and no call
\* has failed; and it has not outgrown the levels of tree_nodes.
Calm == turns /\ faults = 0 /\ TreeSize < 2^(MaxLevel + 1)

\* An entry is in the log at an index.
LoggedAt(e, idx) == idx \in DOMAIN log_entries /\ MarshalEntry(e) = log_entries[idx].entry_data

\* Type correctness of what the certificates are made of.
CertTypeOK ==
    /\ clock \in 0..MaxClock /\ turns \in BOOLEAN
    /\ \A s \in DOMAIN landmarks : s \in Nat \ {0}
    /\ \A o \in Orders : pc[o] # "start" <=> entry[o] # NoEntry

\* A certificate with an embedded proof, without the extension, is the entry
\* that was logged under its leaf index before the proof existed, however much
\* time passes between the two signatures and whatever other writers do and
\* calls fail in between; and the note that it carries is the log's signature
\* of a checkpoint that was saved, with the size and the root of its proof.
EmbeddedCanonical ==
    /\ CertTypeOK
    /\ \A o \in Issued(FALSE) :
          LET ext == proofExt(certs[o])
          IN  /\ LoggedAt(StripMTCExtension(certs[o]), ext.leafIndex)
              /\ \E i \in 1..Len(checkpoints) :
                    /\ checkpoints[i].tree_size = ext.treeSize /\ checkpoints[i].root_hash = ext.rootHash
                    /\ VerifyCheckpoint(LogKey, ext.checkpoint) =
                           [treeSize |-> ext.treeSize, rootHash |-> ext.rootHash]

\* mtc-verify-cert accepts a certificate with an embedded proof when the sort of
\* its hashes happens to keep their order and the size of its tree is a power
\* of two; if the log's writers took turns and no call failed.
EmbeddedVerifies ==
    Calm => \A o \in Issued(FALSE) :
        LET ext == proofExt(certs[o])
        IN  (ext.proofHashes = issued[o].proof /\ IsPowerOfTwo(ext.treeSize))
                => verifyCert(certs[o])

\* The log entry that a verifier rebuilds from an MTC certificate is the one
\* that was logged under its serial number, whatever other orders did and
\* whatever failed in between, when the CSR has a common name and only the
\* attributes that are copied, the CA's validity is 90 days, and the clock
\* showed the same second when notBefore was read for the entry and for the
\* certificate; and the proof leads to the root of the order's checkpoint, if
\* the log's writers took turns and no call failed.
MTCReconstructs ==
    \A o \in Issued(TRUE) :
        LET cert == certs[o]
        IN  (/\ "CN" \in csr(o).subject /\ csr(o).subject \subseteq {"CN", "O", "C"}
             /\ config.validity = NinetyDays /\ cert.notBefore = entry[o].notBefore)
            => /\ LoggedAt(ReconstructLogEntry(cert), cert.serial)
               /\ Calm => /\ verifyCert(cert)
                          /\ VerifyMTCCert(cert).root = issued[o].checkpoint.root_hash

\* A certificate whose tree is a landmark leads to the landmark's root, although
\* the landmark is taken from whichever checkpoint was saved last; if the log's
\* writers took turns and no call failed.
LandmarkAgrees ==
    Calm => \A o \in Issued(TRUE), size \in DOMAIN landmarks :
        LET cert == certs[o]
        IN  (/\ LoggedAt(ReconstructLogEntry(cert), cert.serial)
             /\ UnmarshalProof(cert.proof).End = size)
            => VerifyMTCCert(cert).root = landmarks[size]

\* The rows of the first size entries are written, as far as they ever will be.
Settled(size) ==
    \A p \in Procs : pc[p] \in {"init_leaf", "leaf", "left", "right", "write"} => size <= base[p]

\* The proof that is built for a leaf of a batch, later and over the wire, has
\* the signatures of the batch, which are valid for the root that the verifier
\* computes from it: if the batch starts at the first entry of the log and was
\* not made while an entry of it was being appended, and if the signatures are
\* not too long for their length prefix, when the wire format is rejected and
\* not misread; if the log's writers took turns and no call failed.
BatchProofSigned ==
    Calm =>
    \A start \in DOMAIN log_entries, size \in {TreeSize - 1, TreeSize}, signers \in SUBSET Cosigners \ {{}} :
      LET b    == ProcessBatch(start, size, signers)
          fits == Len(marshalSignatures(b.Signatures)) < LenBound
      IN
      Settled(size) => \A leaf \in start..(size - 1) :
        LET read == UnmarshalProof(MarshalProof(BuildBatchProof(leaf, b)))
            root == subtreeRoot(leafRows[leaf], leaf, read)
        IN  /\ read.ok <=> fits
            /\ read.ok => read.Signatures = b.Signatures
            /\ (read.ok /\ start = 0) =>
                  \A i \in 1..Len(read.Signatures) :
                      VerifySubtreeMTC(read.Signatures[i].CosignerID[1], read.Start, read.End, root,
                                       read.Signatures[i])

\* What the description of VerifyMTCCert takes for granted: the certificate
\* that an order gets reconstructs to its log entry.
MTCCertInLog == \A o \in Issued(TRUE) : LoggedAt(ReconstructLogEntry(certs[o]), certs[o].serial)
=============================================================================
