----------------------------- MODULE AcmeOrder ------------------------------
(***************************************************************************)
(* The life of one ACME order (internal/acme): its challenges, validated   *)
(* by a goroutine per accepted challenge request, its finalization by a    *)
(* goroutine per accepted finalize request, with the local CA or the proxy *)
(* to the external CA, and the nonces that keep a signed request from being *)
(* accepted twice.                                                         *)
(*                                                                         *)
(* Requests and goroutines share the tables only; every store call that    *)
(* others can observe is a step of its own.  A request is identified by    *)
(* what it is about and a number: clients repeat a request with a new      *)
(* nonce, and the network may deliver one request again.  Orders share     *)
(* nothing with each other.                                                *)
(***************************************************************************)
EXTENDS Integers

CONSTANTS
    Order,        \* the order's id
    Authzs,       \* its authorizations, one per identifier, one challenge each
    NumPosts,     \* bound: requests per challenge
    NumFinalizes, \* bound: finalize requests
    MaxFaults     \* bound: failed store calls and crashes

ASSUME AcmeAssumption ==
    /\ Order \notin Authzs
    /\ NumPosts \in Nat /\ NumFinalizes \in Nat /\ MaxFaults \in Nat

Posts     == Authzs \X (1..NumPosts)
Finalizes == {Order} \X (1..NumFinalizes)
Requests  == Posts \cup Finalizes

None == <<>>

VARIABLES
    localCA,       \* server: issue with the local CA (in the MTC mode or not)
    autoApprove,   \* server: AutoApproveChallenge
    letters,       \* how the external CA writes the letters of serial numbers
    nonce,         \* srv.nonces: request -> where its nonce is in its life
    accepted,      \* history: how often verifyJWS accepted the request
    order,         \* row of acme_orders
    authz,         \* acme_authorizations: status
    challenge,     \* acme_challenges: status
    at,            \* request -> the store call its handler or goroutine makes next
    certs,         \* the requests a CA has issued a certificate for
    logged,        \* certificates of the external CA that are in the issuance log
    bundles,       \* certificates that have a fresh assertion bundle
    faults

config == <<localCA, autoApprove, letters>>
rows   == <<order, authz, challenge>>
outer  == <<certs, logged, bundles>>
vars   == <<localCA, autoApprove, letters, nonce, accepted, order, authz, challenge, at,
            certs, logged, bundles, faults>>

Statuses == {"pending", "ready", "processing", "valid", "invalid"}

Places == {"free", "validate", "authz", "list", "ready", "accept", "issue",
           "serial", "wait", "valid", "invalid", "done"}

Goto(r, place) == at' = [at EXCEPT ![r] = place]

\* The serial number, in hex, of the certificate that was issued for a request, as
\* the external CA's database and its answer have it.
Serial == [cert : Finalizes, letters : {"upper", "lower"}]

SerialNumber(f) == [cert |-> f, letters |-> letters]

ToUpper(serial) == [serial EXCEPT !.letters = "upper"]

-----------------------------------------------------------------------------
(* The store.  Updates are by id alone, whatever the row holds by then; a   *)
(* column that a caller does not update is passed as it is.                *)

NewOrder == [status |-> "pending", cert_serial |-> None, final_cert |-> None,
             assertion |-> FALSE]

UpdateACMEOrderStatus(status, cert_serial, assertion) ==
    order' = [order EXCEPT !.status = status, !.cert_serial = cert_serial,
                           !.assertion = assertion]

SetOrderFinalCertDER(cert) == order' = [order EXCEPT !.final_cert = cert]

\* serial_hex is what the CA's database has, and is matched exactly.
FindEntryBySerial(serial) == {f \in logged : SerialNumber(f) = serial}

UpdateACMEAuthorizationStatus(a, status) == authz' = [authz EXCEPT ![a] = status]

UpdateACMEChallengeStatus(a, status) == challenge' = [challenge EXCEPT ![a] = status]

-----------------------------------------------------------------------------
\* After handleNewOrder: CreateACMEOrder inserts the order with all its
\* authorizations and challenges in one transaction.
Init ==
    /\ localCA \in BOOLEAN
    /\ autoApprove \in BOOLEAN
    /\ letters \in {"upper", "lower"}
    /\ nonce = [r \in Requests |-> "unissued"]
    /\ accepted = [r \in Requests |-> 0]
    /\ order = NewOrder
    /\ authz = [a \in Authzs |-> "pending"]
    /\ challenge = [a \in Authzs |-> "pending"]
    /\ at = [r \in Requests |-> "free"]
    /\ certs = {}
    /\ logged = {}
    /\ bundles = {}
    /\ faults = 0

-----------------------------------------------------------------------------
(* Nonces.                                                                 *)

newNonce(r) ==
    /\ nonce[r] = "unissued"
    /\ nonce' = [nonce EXCEPT ![r] = "live"]
    /\ UNCHANGED <<config, accepted, rows, at, outer, faults>>

\* An hour passes before the nonce is used.
Expire(r) ==
    /\ nonce[r] = "live"
    /\ nonce' = [nonce EXCEPT ![r] = "expired"]
    /\ UNCHANGED <<config, accepted, rows, at, outer, faults>>

cleanupNonces ==
    /\ \E r \in Requests : nonce[r] = "expired"
    /\ nonce' = [r \in Requests |-> IF nonce[r] = "expired" THEN "gone" ELSE nonce[r]]
    /\ UNCHANGED <<config, accepted, rows, at, outer, faults>>

\* Wrong: the nonce stays in the map.
consumeNonceKept(r) == nonce[r] = "live" /\ UNCHANGED nonce

\* The nonce of r is in the map and not expired; it is deleted in any case.
consumeNonce(r) == nonce[r] = "live" /\ nonce' = [nonce EXCEPT ![r] = "gone"]

\* The first thing every handler does.
verifyJWS(r) ==
    /\ consumeNonce(r)
    /\ accepted' = [accepted EXCEPT ![r] = @ + 1]

\* The nonce is used up, and the request is refused: the nonce has expired, the
\* URL or the signature is wrong, the payload is malformed, or a read fails.
Refuse(r) ==
    /\ nonce[r] \in {"live", "expired"}
    /\ nonce' = [nonce EXCEPT ![r] = "gone"]
    /\ UNCHANGED <<config, accepted, rows, at, outer, faults>>

-----------------------------------------------------------------------------
(* Challenges.                                                             *)

\* The status is read by the handler and not again by the goroutine.
handleChallenge(v) ==
    /\ verifyJWS(v)
    /\ Goto(v, IF challenge[v[1]] = "pending" THEN "validate" ELSE "done")
    /\ UNCHANGED <<config, rows, outer, faults>>

\* Whether the client's web server gives the key authorization, unless the
\* server is told to take that for granted.
performHTTP01 == IF autoApprove THEN {TRUE} ELSE BOOLEAN

ValidateChallenge(v) ==
    /\ at[v] = "validate"
    /\ \E ok \in performHTTP01 :
        /\ UpdateACMEChallengeStatus(v[1], IF ok THEN "valid" ELSE "invalid")
        /\ Goto(v, IF ok THEN "authz" ELSE "done")
    /\ UNCHANGED <<config, nonce, accepted, order, authz, outer, faults>>

\* Wrong: the authorizations are listed before the own one is updated, and the
\* update is a step of its own.
ListBeforeUpdate(v) ==
    /\ \/ /\ at[v] = "authz"
          /\ \E a \in Authzs \ {v[1]} : authz[a] # "valid"
          /\ Goto(v, "accept")
          /\ UNCHANGED authz
       \/ /\ at[v] = "authz"
          /\ \A a \in Authzs \ {v[1]} : authz[a] = "valid"
          /\ Goto(v, "ready")
          /\ UpdateACMEAuthorizationStatus(v[1], "valid")
       \/ /\ at[v] = "accept"
          /\ Goto(v, "done")
          /\ UpdateACMEAuthorizationStatus(v[1], "valid")
    /\ UNCHANGED <<config, nonce, accepted, order, challenge, outer, faults>>

ValidateAuthz(v) ==
    /\ at[v] = "authz"
    /\ UpdateACMEAuthorizationStatus(v[1], "valid")
    /\ Goto(v, "list")
    /\ UNCHANGED <<config, nonce, accepted, order, challenge, outer, faults>>

\* Wrong: the other authorizations are not looked at.
ListOwnOnly(v) ==
    /\ at[v] = "list"
    /\ Goto(v, "ready")
    /\ UNCHANGED <<config, nonce, accepted, rows, outer, faults>>

ListAuthzs(v) ==
    /\ at[v] = "list"
    /\ Goto(v, IF \A a \in Authzs \ {v[1]} : authz[a] = "valid" THEN "ready" ELSE "done")
    /\ UNCHANGED <<config, nonce, accepted, rows, outer, faults>>

SetReady(v) ==
    /\ at[v] = "ready"
    /\ UpdateACMEOrderStatus("ready", order.cert_serial, order.assertion)
    /\ Goto(v, "done")
    /\ UNCHANGED <<config, nonce, accepted, authz, challenge, outer, faults>>

-----------------------------------------------------------------------------
(* Finalization.                                                           *)

\* Wrong: the status of the order is not looked at.
handleFinalizeUnchecked(f) ==
    /\ verifyJWS(f)
    /\ Goto(f, "accept")
    /\ UNCHANGED <<config, rows, outer, faults>>

\* A request for an order that is not ready is refused.
handleFinalize(f) ==
    /\ verifyJWS(f)
    /\ Goto(f, IF order.status = "ready" THEN "accept" ELSE "done")
    /\ UNCHANGED <<config, rows, outer, faults>>

SetProcessing(f) ==
    /\ at[f] = "accept"
    /\ UpdateACMEOrderStatus("processing", order.cert_serial, order.assertion)
    /\ Goto(f, "issue")
    /\ UNCHANGED <<config, nonce, accepted, authz, challenge, outer, faults>>

\* processFinalizeMTC and processFinalizeLocalCA, of which IssuanceLog has the
\* part in the middle; they end with SetOrderFinalCertDER or in an error.
IssueLocal(f) ==
    /\ at[f] = "issue" /\ localCA
    /\ \/ /\ certs' = certs \cup {f}
          /\ SetOrderFinalCertDER(f)
          /\ Goto(f, "valid")
       \/ /\ Goto(f, "invalid")
          /\ UNCHANGED <<certs, order>>
    /\ UNCHANGED <<config, nonce, accepted, authz, challenge, logged, bundles, faults>>

\* The CA's answer has the serial number.  When the request fails or times out the
\* CA may have issued nevertheless.
proxyToCA(f) ==
    /\ at[f] = "issue" /\ ~localCA
    /\ \/ certs' = certs \cup {f} /\ Goto(f, "serial")
       \/ certs' \in {certs, certs \cup {f}} /\ Goto(f, "invalid")
    /\ UNCHANGED <<config, nonce, accepted, rows, logged, bundles, faults>>

\* Wrong: the serial is not stored.
RecordNothing(f) ==
    /\ at[f] = "serial"
    /\ UpdateACMEOrderStatus("processing", order.cert_serial, order.assertion)
    /\ Goto(f, "wait")
    /\ UNCHANGED <<config, nonce, accepted, authz, challenge, outer, faults>>

\* What proxyToCA returned: the serial number in upper case.
RecordSerial(f) ==
    /\ at[f] = "serial"
    /\ UpdateACMEOrderStatus("processing", ToUpper(SerialNumber(f)), order.assertion)
    /\ Goto(f, "wait")
    /\ UNCHANGED <<config, nonce, accepted, authz, challenge, outer, faults>>

\* Wrong: polls until there is a bundle.
WaitForever(f) ==
    /\ at[f] = "wait"
    /\ f \in bundles
    /\ UpdateACMEOrderStatus("valid", order.cert_serial, TRUE)
    /\ Goto(f, "done")
    /\ UNCHANGED <<config, nonce, accepted, authz, challenge, outer, faults>>

\* Either a fresh bundle is found, or the deadline passes first.
waitForAssertion(f) ==
    /\ at[f] = "wait"
    /\ \E found \in BOOLEAN :
        /\ found => FindEntryBySerial(ToUpper(SerialNumber(f))) \cap bundles # {}
        /\ UpdateACMEOrderStatus("valid", order.cert_serial, order.assertion \/ found)
    /\ Goto(f, "done")
    /\ UNCHANGED <<config, nonce, accepted, authz, challenge, outer, faults>>

SetValid(f) ==
    /\ at[f] = "valid"
    /\ UpdateACMEOrderStatus("valid", ToUpper(SerialNumber(f)), order.assertion)
    /\ Goto(f, "done")
    /\ UNCHANGED <<config, nonce, accepted, authz, challenge, outer, faults>>

SetInvalid(f) ==
    /\ at[f] = "invalid"
    /\ UpdateACMEOrderStatus("invalid", order.cert_serial, order.assertion)
    /\ Goto(f, "done")
    /\ UNCHANGED <<config, nonce, accepted, authz, challenge, outer, faults>>

-----------------------------------------------------------------------------
(* The rest of the system, and failures.                                   *)

\* The watcher appends a certificate of the external CA to the issuance log.
LogCert(f) ==
    /\ ~localCA /\ f \in certs \ logged
    /\ logged' = logged \cup {f}
    /\ UNCHANGED <<config, nonce, accepted, rows, at, certs, bundles, faults>>

\* The assertion issuer stores a bundle, or marks it stale.
ToggleBundle(f) ==
    /\ f \in logged
    /\ bundles' = IF f \in bundles THEN bundles \ {f} ELSE bundles \cup {f}
    /\ UNCHANGED <<config, nonce, accepted, rows, at, certs, logged, faults>>

\* A store call fails without effect.  validateChallenge and handleFinalize
\* return; processFinalize ignores the error of its updates and goes on.
Fault(r) ==
    /\ at[r] \notin {"free", "issue", "done"}
    /\ faults < MaxFaults
    /\ faults' = faults + 1
    /\ Goto(r, IF at[r] = "serial" THEN "wait" ELSE "done")
    /\ UNCHANGED <<config, nonce, accepted, rows, outer>>

\* The process dies; its goroutines and nonces are gone.
Crash ==
    /\ faults < MaxFaults
    /\ faults' = faults + 1
    /\ at' = [r \in Requests |-> IF at[r] = "free" THEN "free" ELSE "done"]
    /\ nonce' = [r \in Requests |-> IF nonce[r] = "unissued" THEN "unissued" ELSE "gone"]
    /\ UNCHANGED <<config, accepted, rows, outer>>

-----------------------------------------------------------------------------
PostStep(v) ==
    ValidateChallenge(v) \/ ValidateAuthz(v) \/ ListAuthzs(v) \/ SetReady(v)

FinalizeStep(f) ==
    \/ SetProcessing(f) \/ IssueLocal(f) \/ proxyToCA(f) \/ RecordSerial(f)
    \/ waitForAssertion(f) \/ SetValid(f) \/ SetInvalid(f)

Next ==
    \/ \E r \in Requests : newNonce(r) \/ Expire(r) \/ Refuse(r) \/ Fault(r)
    \/ cleanupNonces
    \/ \E v \in Posts : handleChallenge(v) \/ PostStep(v)
    \/ \E f \in Finalizes : handleFinalize(f) \/ FinalizeStep(f)
    \/ \E f \in Finalizes : LogCert(f) \/ ToggleBundle(f)
    \/ Crash

Spec == Init /\ [][Next]_vars

\* Goroutines run on, the wait for a bundle has a deadline, and the watcher logs
\* what the CA issues (CertsCheckpointed in IssuanceLog).  Nothing is assumed of
\* clients and of the assertion issuer.
Fairness ==
    /\ \A v \in Posts : WF_vars(PostStep(v))
    /\ \A f \in Finalizes : WF_vars(FinalizeStep(f)) /\ WF_vars(LogCert(f))

FairSpec == Spec /\ Fairness

-----------------------------------------------------------------------------
(* Properties.                                                             *)

\* What handleCertificate answers: the stored certificate, else the log entry
\* with the order's serial.
handleCertificate ==
    IF order.status # "valid" \/ order.cert_serial = None THEN None
    ELSE IF order.final_cert # None THEN order.final_cert
    ELSE IF FindEntryBySerial(order.cert_serial) # {} THEN order.cert_serial.cert
    ELSE None

\* Type correctness.
TypeOK ==
    /\ localCA \in BOOLEAN /\ autoApprove \in BOOLEAN /\ letters \in {"upper", "lower"}
    /\ nonce \in [Requests -> {"unissued", "live", "expired", "gone"}]
    /\ accepted \in [Requests -> Nat]
    /\ order \in [status : Statuses, cert_serial : Serial \cup {None},
                  final_cert : Finalizes \cup {None}, assertion : BOOLEAN]
    /\ authz \in [Authzs -> {"pending", "valid"}]
    /\ challenge \in [Authzs -> {"pending", "valid", "invalid"}]
    /\ at \in [Requests -> Places]
    /\ certs \subseteq Finalizes /\ logged \subseteq certs /\ bundles \subseteq logged
    /\ faults \in 0..MaxFaults

\* No certificate is issued, and the order does not leave "pending", before
\* every authorization is valid, however the validations of its challenges
\* interleave, fail or are repeated.
AuthorizedFirst ==
    order.status # "pending" \/ certs # {} => \A a \in Authzs : authz[a] = "valid"

\* A signed request is accepted at most once, however often it is delivered and
\* whenever the process restarts.
AcceptedOnce == \A r \in Requests : accepted[r] <= 1

\* When the challenges of all identifiers have been validated the order gets out
\* of "pending": of validations that run at the same time the last one sees
\* that all authorizations are valid.  (After a failed call a new request is
\* needed.)
BecomesReady ==
    (\A a \in Authzs : authz[a] = "valid") ~> order.status # "pending" \/ faults > 0

\* Unless a store call fails or the process dies, an order does not stay in
\* "processing".
Settles ==
    order.status = "processing" ~> order.status \in {"valid", "invalid"} \/ faults > 0

\* The certificate of a valid order can be downloaded, if not at once (its entry
\* may not be in the log yet) then later, unless the order is finalized again
\* or a call failed, if the external CA writes serial numbers in upper case.
Downloadable ==
    (order.status = "valid" /\ (localCA \/ letters = "upper"))
                           ~> \/ order.status # "valid"
                              \/ handleCertificate # None
                              \/ faults > 0

-----------------------------------------------------------------------------
(* The inductive invariant behind AuthorizedFirst and AcceptedOnce.        *)

AllAuthorized == \A a \in Authzs : authz[a] = "valid"

\* What a validation has found out stays true: no authorization leaves "valid".
PostInv(v) ==
    /\ at[v] \in {"free", "validate", "authz", "list", "ready", "done"}
    /\ at[v] \in {"list", "ready"} => authz[v[1]] = "valid"
    /\ at[v] = "ready" => AllAuthorized

\* A finalization that has been let in was let in to a ready order.
FinalizeInv(f) ==
    /\ at[f] \in Places \ {"validate", "authz", "list", "ready"}
    /\ at[f] \notin {"free", "done"} => AllAuthorized

\* A request whose nonce can still be used has not been accepted.
NonceInv(r) == accepted[r] <= 1 /\ (nonce[r] \in {"unissued", "live"} => accepted[r] = 0)

OrderInv ==
    /\ TypeOK
    /\ AuthorizedFirst
    /\ \A v \in Posts : PostInv(v)
    /\ \A f \in Finalizes : FinalizeInv(f)
    /\ \A r \in Requests : NonceInv(r)
=============================================================================
