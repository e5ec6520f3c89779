----------------------------- MODULE MTCFormat ------------------------------
(***************************************************************************)
(* The formats of an MTC certificate: the wire format of a proof           *)
(* (internal/mtcformat/encoding.go), log entries and certificates          *)
(* (internal/mtcformat/logentry.go, internal/mtccert, internal/localca),   *)
(* and what a cosigner signs (internal/cosigner).                          *)
(*                                                                         *)
(* A wire format is a sequence of bytes of which only the length prefixes  *)
(* are numbers; a hash is HashSize of them.  A DER structure is a record   *)
(* of its fields: DER is canonical, so equal encodings are equal records.  *)
(***************************************************************************)
EXTENDS MerkleTree, FiniteSets, SequencesExt

CONSTANTS
    HashSize,   \* bytes of a hash (32)
    LenBound,   \* a length prefix of 2 bytes counts to LenBound - 1 (2^16)
    LogID,      \* the log's trust anchor ID, like a cosigner's one byte long
    NinetyDays  \* the validity of a log entry

ASSUME FormatAssumption ==
    /\ HashSize \in Nat \ {0} /\ LenBound \in Nat \ {0}
    /\ NinetyDays \in Nat

-----------------------------------------------------------------------------
(* MTCProof.                                                               *)

hashBytes(h) == [k \in 1..HashSize |-> <<h, k>>]

\* cosigner_id<1..255> and signature<0..2^16-1>, one signature after the other.
marshalSignatures(sigs) ==
    FlattenSeq([i \in 1..Len(sigs) |->
        <<Len(sigs[i].CosignerID)>> \o sigs[i].CosignerID
            \o <<Len(sigs[i].Signature)>> \o sigs[i].Signature])

\* <<>> stands for an error.  The length of all signatures is not compared with
\* the bound of its prefix, which keeps the low two bytes of it.
MarshalProof(p) ==
    LET proofLen == Len(p.InclusionProof) * HashSize
        sigs     == marshalSignatures(p.Signatures)
    IN  IF p.End <= p.Start \/ proofLen >= LenBound
        THEN <<>>
        ELSE <<p.Start, p.End, proofLen>>
                \o FlattenSeq([i \in 1..Len(p.InclusionProof) |-> hashBytes(p.InclusionProof[i])])
                \o <<Len(sigs) % LenBound>> \o sigs

\* Stands for the error, in the place of a signature that is cut off or has no ID.
Truncated == [CosignerID |-> <<>>, Signature |-> <<>>]

unmarshalSignatures(data) ==
    LET from[off \in 1..(Len(data) + 1)] ==
            LET sigAt == off + 1 + data[off]
                next  == sigAt + 1 + data[sigAt]
            IN  IF off = Len(data) + 1 THEN <<>>
                ELSE IF sigAt \in (off + 2)..Len(data) /\ next \in (sigAt + 1)..(Len(data) + 1)
                THEN <<[CosignerID |-> SubSeq(data, off + 1, sigAt - 1),
                        Signature  |-> SubSeq(data, sigAt + 1, next - 1)]>> \o from[next]
                ELSE <<Truncated>>
    IN  from[1]

UnmarshalProof(data) ==
    LET sigsAt == 4 + data[3]
        sigs   == unmarshalSignatures(SubSeq(data, sigsAt + 1, Len(data)))
    IN  IF data = <<>> \/ data[2] <= data[1] \/ data[3] % HashSize # 0
            \/ sigsAt + data[sigsAt] # Len(data) \/ Truncated \in Range(sigs)
        THEN [ok |-> FALSE]
        ELSE [ok |-> TRUE, Start |-> data[1], End |-> data[2],
              InclusionProof |-> [i \in 1..(data[3] \div HashSize) |-> data[4 + (i - 1) * HashSize][1]],
              Signatures |-> sigs]

-----------------------------------------------------------------------------
(* Cosigners.  A signature is the term of its key and its message.         *)

Sign(key, msg) == <<[key |-> key, msg |-> msg]>>

Verify(key, msg, sig) == sig = Sign(key, msg)

\* label || cosigner_id || log_id || start || end || hash, with no lengths.
BuildSubtreeSignatureInput(cosignerID, logID, start, end, hash) ==
    <<"mtc-subtree/v1">> \o cosignerID \o <<logID>> \o <<start, end>> \o hashBytes(hash)

SignSubtreeMTC(cosigner, start, end, hash) ==
    [CosignerID |-> <<cosigner>>,
     Signature  |-> Sign(cosigner, BuildSubtreeSignatureInput(<<cosigner>>, LogID, start, end, hash))]

VerifySubtreeMTC(cosigner, start, end, hash, sig) ==
    Verify(cosigner, BuildSubtreeSignatureInput(sig.CosignerID, LogID, start, end, hash), sig.Signature)

\* A signed note: its body, and one signature line.
SignCheckpoint(key, treeSize, rootHash) ==
    LET body == <<LogID, treeSize, rootHash>>
    IN  [body |-> body, sigs |-> <<Sign(key, body)>>]

\* The tree size and root of a note; -1 when no signature line verifies.
VerifyCheckpoint(key, note) ==
    IF \E i \in 1..Len(note.sigs) : Verify(key, note.body, note.sigs[i])
    THEN [treeSize |-> note.body[2], rootHash |-> note.body[3]]
    ELSE [treeSize |-> -1, rootHash |-> EmptyHash]

-----------------------------------------------------------------------------
(* Log entries and certificates.  A CSR is [key, subject, dnsNames]: the   *)
(* subject is the set of its attributes.                                   *)

\* commonNameFromCSR: the common name, or else the first DNS name.
commonNameFromCSR(csr) ==
    IF "CN" \in csr.subject THEN {"CN"}
    ELSE IF csr.dnsNames # <<>> THEN {"CN of dnsNames[0]"} ELSE {}

\* The subject of the certificates: common name, organization and country only.
certSubject(csr) == commonNameFromCSR(csr) \cup (csr.subject \cap {"O", "C"})

\* The extensions of a log entry.
logExtensions(dnsNames) ==
    (IF dnsNames = <<>> THEN <<>> ELSE <<[id |-> "subjectAltName", value |-> dnsNames]>>)
        \o <<[id |-> "keyUsage", value |-> <<>>], [id |-> "extKeyUsage", value |-> <<>>],
             [id |-> "basicConstraints", value |-> <<>>]>>

\* The extensions of a certificate: a second copy of the same code.
BuildCertExtensions(dnsNames) ==
    (IF dnsNames = <<>> THEN <<>> ELSE <<[id |-> "subjectAltName", value |-> dnsNames]>>)
        \o <<[id |-> "keyUsage", value |-> <<>>], [id |-> "extKeyUsage", value |-> <<>>],
             [id |-> "basicConstraints", value |-> <<>>]>>

\* A TBSCertificateLogEntry: no serial number, and the hash of the key.
BuildLogEntry(subject, notBefore, notAfter, spki, extensions) ==
    [type |-> "tbs_cert_entry", issuer |-> LogID, subject |-> subject,
     notBefore |-> notBefore, notAfter |-> notAfter, spki |-> spki, extensions |-> extensions]

BuildLogEntryFromCSR(csr, notBefore, notAfter) ==
    BuildLogEntry(csr.subject, notBefore, notAfter, csr.key, logExtensions(csr.dnsNames))

\* The certificate with id-alg-mtcProof: the proof is its signature.
BuildMTCCertificate(csr, notBefore, notAfter, leafIndex, proof) ==
    [alg |-> "id-alg-mtcProof", serial |-> leafIndex, issuer |-> LogID, subject |-> certSubject(csr),
     notBefore |-> notBefore, notAfter |-> notAfter, spki |-> csr.key,
     extensions |-> BuildCertExtensions(csr.dnsNames), proof |-> MarshalProof(proof)]

IsMTCCertificate(cert) == cert.alg = "id-alg-mtcProof"

\* The fields of a certificate, with the proof read from its signature.
ParseMTCCertificate(cert) ==
    LET proof == UnmarshalProof(cert.proof)
    IN  IF ~IsMTCCertificate(cert) \/ ~proof.ok THEN [ok |-> FALSE]
        ELSE [ok |-> TRUE, fields |-> [cert EXCEPT !.proof = proof]]

ReconstructLogEntry(cert) ==
    BuildLogEntry(cert.subject, cert.notBefore, cert.notAfter, cert.spki, cert.extensions)

\* The TBSCertificate that the local CA signs.  Extra extensions come last; their
\* place does not matter to what removes them.
localTBS(csr, serial, notBefore, notAfter, extra) ==
    [type |-> "precert", alg |-> "ecdsa", serial |-> serial, subject |-> certSubject(csr),
     notBefore |-> notBefore, notAfter |-> notAfter, spki |-> csr.key,
     extensions |-> BuildCertExtensions(csr.dnsNames) \o extra]

proofOID == "1.3.6.1.4.1.99999.1.1"

\* filterExtensions: what is left of a list without the extension of an OID.
filterExtensions(extensions, oid) ==
    LET kept[i \in 0..Len(extensions)] ==
            IF i = 0 THEN <<>>
            ELSE IF extensions[i].id = oid THEN kept[i - 1]
            ELSE Append(kept[i - 1], extensions[i])
    IN  kept[Len(extensions)]

\* Wrong: looks for the OID of the signature algorithm.
StripOtherOID(tbs) == [tbs EXCEPT !.extensions = filterExtensions(@, "id-alg-mtcProof")]

StripMTCExtension(tbs) == [tbs EXCEPT !.extensions = filterExtensions(@, proofOID)]
=============================================================================
